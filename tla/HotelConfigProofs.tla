-------------------------- MODULE HotelConfigProofs --------------------------
(***************************************************************************)
(* What holds of HotelConfig for all names, hashes and settings, and       *)
(* whichever system call is the last of its request.                       *)
(***************************************************************************)
EXTENDS HotelConfig, TLAPS

\* What the request under way is about: a creation has a name, and an update has
\* settings, which go into voice.yaml; whoever writes has its directory.
TaskOK ==
  /\ task \in {"claim", "create"} => text \in Names
  /\ task = "update" => text \in Settings /\ at = voice
  /\ task \in {"idle", "claim"} => at = metadata /\ ~open
  /\ Writing => target \in dirs

\* A hotel without a directory has no files, and no client was told of it.
Untouched ==
  \A h \in Ids \ dirs : told[h] = Absent /\ \A f \in Files : file[h][f] = Absent

Whole(h) == \A f \in Files \ {voice} : file[h][f] \notin {Absent, Empty}

\* Whoever has a voice.yaml has the other files, except for strays.
VoiceLast == strays \subseteq dirs /\ \A h \in Ids \ strays : file[h][voice] # Absent => Whole(h)

\* How far the creation under way has come.
Creating ==
  task = "create" =>
    /\ target \notin strays
    /\ told[target] = Absent
    /\ \A f \in Files : f < at => file[target][f] \notin {Absent, Empty}
    /\ file[target][voice] # Absent => at = voice

\* Unless it is a stray, the hotel that is updated has a voice.yaml already.
Updating == task = "update" /\ target \notin strays => file[target][voice] # Absent

HotelInv ==
  /\ HotelTypeOK /\ TaskOK /\ Untouched /\ VoiceLast
  /\ Creating /\ Updating /\ PromisesKept

\* The files of a hotel, one by one.
LEMMA FileNumbers ==
  /\ Files = {metadata, profile, policies, voice}
  /\ metadata = 1 /\ profile = 2 /\ policies = 3 /\ voice = 4
BY DEF Files, metadata, profile, policies, voice

\* What is written is a name, settings or the content of a new hotel.
LEMMA ContentType ==
  ASSUME HotelTypeOK, TaskOK, Writing
  PROVE  /\ Content \in Contents
         /\ Content \notin {Absent, Empty}
         /\ at = voice => Content \in Settings \cup {Seed}
         /\ task \in {"create", "update"}
BY MarkerAssumption, FileNumbers
DEF HotelTypeOK, TaskOK, Writing, Content, Contents, Absent, Empty, Seed, Unsure

\* Writing a file changes this file only.
LEMMA OneFileWritten ==
  ASSUME HotelTypeOK, NEW c \in Contents, file' = [file EXCEPT ![target][at] = c]
  PROVE  /\ file' \in [Ids -> [Files -> Contents]]
         /\ file'[target][at] = c
         /\ \A f \in Files \ {at} : file'[target][f] = file[target][f]
         /\ \A h \in Ids \ {target} : file'[h] = file[h]
<1> USE DEF HotelTypeOK
<1>1. file[target] \in [Files -> Contents]
  OBVIOUS
<1>2. [file[target] EXCEPT ![at] = c] \in [Files -> Contents]
  BY <1>1
<1>3. file' = [file EXCEPT ![target] = [file[target] EXCEPT ![at] = c]]
  OBVIOUS
<1>4. file'[target] = [file[target] EXCEPT ![at] = c]
  BY <1>3
<1> QED
  BY <1>1, <1>2, <1>3, <1>4

\* Without hotels the invariant holds.
LEMMA HotelInitial == HotelInit => HotelInv
<1> SUFFICES ASSUME HotelInit PROVE HotelInv
  OBVIOUS
<1> USE DEF HotelInit
<1>1. target \in Ids
  <2>1. PICK n \in Names : TRUE
    BY HotelAssumption
  <2>2. <<Hash[n], 0>> \in Ids
    BY HotelAssumption DEF Ids
  <2> QED
    BY <2>2
<1>2. HotelTypeOK
  <2>1. [f \in Files |-> Absent] \in [Files -> Contents]
    BY DEF Contents
  <2>2. file \in [Ids -> [Files -> Contents]]
    BY <2>1
  <2>3. clock \in 1..MaxClock /\ attempt \in 0..Attempts /\ at \in Files
    BY HotelAssumption, FileNumbers
  <2>4. told \in [Ids -> Settings \cup {Absent, Seed, Unsure}]
    OBVIOUS
  <2>5. dirs \in SUBSET Ids /\ strays \in SUBSET Ids /\ open \in BOOLEAN
    OBVIOUS
  <2>6. task \in {"idle", "claim", "create", "update"} /\ text \in Names \cup Settings \cup {Absent}
    OBVIOUS
  <2> QED
    BY <1>1, <2>2, <2>3, <2>4, <2>5, <2>6 DEF HotelTypeOK
<1>3. TaskOK /\ Updating
  BY DEF TaskOK, Writing, Updating
<1>4. \A h \in Ids, f \in Files : file[h][f] = Absent
  OBVIOUS
<1>5. Untouched /\ VoiceLast /\ Creating
  BY <1>4, FileNumbers DEF Untouched, VoiceLast, Creating
<1>6. PromisesKept
  BY <1>4, FileNumbers DEF PromisesKept, Reply
<1> QED
  BY <1>2, <1>3, <1>5, <1>6 DEF HotelInv

\* The answer to a request ends what it was about.
LEMMA Answered ==
  ASSUME Answer
  PROVE  /\ TaskOK' /\ Creating' /\ Updating' /\ text' \in Names \cup Settings \cup {Absent}
         /\ at' \in Files /\ open' \in BOOLEAN
         /\ task' \in {"idle", "claim", "create", "update"}
         /\ task' = "idle"
BY FileNumbers DEF Answer, TaskOK, Creating, Updating, Writing

\* A request that has not begun to write leaves all hotels alone.
LEMMA NoHotelTouched ==
  ASSUME HotelInv, ~Writing, UNCHANGED <<dirs, file, told, strays>>
  PROVE  Untouched' /\ VoiceLast' /\ PromisesKept'
BY DEF HotelInv, Untouched, VoiceLast, Whole, PromisesKept, Writing, Reply

\* A request that arrives keeps it.
LEMMA AskKept ==
  ASSUME HotelInv, Ask
  PROVE  HotelInv'
<1> USE DEF HotelInv
<1>1. ASSUME NEW n \in Names, CreateHotel(n) PROVE HotelInv'
  <2>1. <<Hash[n], 0>> \in Ids
    BY HotelAssumption DEF Ids
  <2>2. HotelTypeOK' /\ TaskOK' /\ Creating' /\ Updating' /\ ~Writing
    BY <1>1, <2>1 DEF CreateHotel, HotelTypeOK, TaskOK, Creating, Updating, Writing
  <2> QED
    BY <1>1, <2>2, NoHotelTouched DEF CreateHotel
<1>2. ASSUME NEW h \in Ids, NEW v \in Settings, UpdateReplySettings(h, v) PROVE HotelInv'
  <2> USE <1>2 DEF UpdateReplySettings
  <2>1. HotelTypeOK'
    BY FileNumbers DEF HotelTypeOK
  <2>2. TaskOK' /\ Creating'
    BY DEF TaskOK, Creating, Writing
  <2>6. Updating'
    BY DEF Updating
  <2>3. Untouched'
    BY DEF Untouched, HotelTypeOK
  <2>4. VoiceLast'
    BY DEF VoiceLast, Whole, HotelTypeOK
  <2>5. PromisesKept'
    BY DEF PromisesKept, Reply
  <2> QED
    BY <2>1, <2>2, <2>3, <2>4, <2>5, <2>6
<1> QED
  BY <1>1, <1>2 DEF Ask

\* A new directory holds no files, so that it is not listed.
LEMMA ClaimKept ==
  ASSUME HotelInv, Claim
  PROVE  HotelInv'
<1> USE DEF HotelInv, Claim
<1>1. HotelTypeOK'
  BY DEF HotelTypeOK
<1>2. TaskOK' /\ Updating'
  BY DEF TaskOK, Updating, Writing
<1>3. Untouched'
  BY DEF Untouched
<1>4. VoiceLast'
  BY DEF VoiceLast, Whole
<1>5. target \in Ids \ dirs /\ at = metadata
  BY DEF HotelTypeOK, TaskOK, Taken
<1>6. Creating'
  BY <1>5, FileNumbers DEF Creating, Untouched, VoiceLast
<1>7. PromisesKept'
  BY DEF PromisesKept, Reply
<1> QED
  BY <1>1, <1>2, <1>3, <1>4, <1>6, <1>7

\* Another attempt changes the id only.
LEMMA RetryKept ==
  ASSUME HotelInv, Retry
  PROVE  HotelInv'
<1>1. ~Writing /\ UNCHANGED <<dirs, file, told, strays, clock>> /\ task = "claim"
  BY DEF Retry, Writing
<1>2. Untouched' /\ VoiceLast' /\ PromisesKept'
  BY <1>1, NoHotelTouched
<1>3. CASE TriesLeft
  <2>1. attempt' = attempt + 1 /\ target' = <<Hash[text], clock>> /\ UNCHANGED <<task, text, at, open>>
    BY <1>3 DEF Retry
  <2>2. <<Hash[text], clock>> \in Ids
    BY <1>1 DEF HotelInv, HotelTypeOK, TaskOK, Ids
  <2>3. HotelTypeOK'
    BY <1>1, <1>3, <2>1, <2>2, HotelAssumption DEF HotelInv, HotelTypeOK, TriesLeft
  <2>4. TaskOK' /\ Creating' /\ Updating'
    BY <1>1, <2>1 DEF HotelInv, TaskOK, Creating, Updating, Writing
  <2> QED
    BY <1>2, <2>3, <2>4 DEF HotelInv
<1>4. CASE ~TriesLeft
  <2>1. Answer /\ UNCHANGED target /\ attempt' = 0
    BY <1>4 DEF Retry, Answer
  <2> QED
    BY <1>1, <1>2, <2>1, Answered, HotelAssumption DEF HotelInv, HotelTypeOK
<1> QED
  BY <1>3, <1>4

\* Whatever a request writes into the file it is at, voice.yaml stays the last.
LEMMA WritingKeepsOrder ==
  ASSUME HotelInv, Writing, NEW c \in Contents, c # Absent,
         file' = [file EXCEPT ![target][at] = c], UNCHANGED <<dirs, strays>>
  PROVE  VoiceLast'
<1> USE DEF HotelInv
<1>1. /\ file'[target][at] = c
      /\ \A f \in Files \ {at} : file'[target][f] = file[target][f]
      /\ \A h \in Ids \ {target} : file'[h] = file[h]
  BY OneFileWritten
<1> SUFFICES ASSUME NEW h \in Ids \ strays, file'[h][voice] # Absent PROVE Whole(h)'
  BY DEF VoiceLast
<1>2. CASE h # target
  BY <1>1, <1>2 DEF VoiceLast, Whole
<1>3. CASE h = target /\ task = "create"
  <2>1. at = voice
    BY <1>1, <1>3, FileNumbers DEF Creating
  <2> QED
    BY <1>1, <1>3, <2>1, FileNumbers DEF Creating, Whole
<1>4. CASE h = target /\ task = "update"
  <2>1. at = voice
    BY <1>4 DEF TaskOK
  <2> QED
    BY <1>1, <1>4, <2>1 DEF Updating, VoiceLast, Whole
<1> QED
  BY <1>2, <1>3, <1>4 DEF Writing

\* Truncating the next file keeps the order.
LEMMA OpenFileKept ==
  ASSUME HotelInv, OpenFile
  PROVE  HotelInv'
<1> USE DEF HotelInv
<1>1. file' = [file EXCEPT ![target][at] = Empty] /\ Empty \in Contents
  BY DEF OpenFile, Contents
<1>2. /\ Writing /\ open' = TRUE
      /\ UNCHANGED <<dirs, clock, task, text, target, at, attempt, told, strays>>
  BY DEF OpenFile
<1>3. /\ file' \in [Ids -> [Files -> Contents]]
      /\ file'[target][at] = Empty
      /\ \A f \in Files \ {at} : file'[target][f] = file[target][f]
      /\ \A h \in Ids \ {target} : file'[h] = file[h]
  BY <1>1, OneFileWritten
<1>4. HotelTypeOK'
  BY <1>2, <1>3 DEF HotelTypeOK
<1>5. TaskOK'
  BY <1>2 DEF TaskOK, Writing
<1>11. Updating'
  BY <1>2, <1>3 DEF Updating, TaskOK, Empty, Absent
<1>6. target \in dirs /\ at \in Files /\ voice \in Files /\ Empty # Absent
  BY <1>2, FileNumbers DEF TaskOK, HotelTypeOK, Empty, Absent
<1>7. Untouched'
  BY <1>2, <1>3, <1>6 DEF Untouched
<1>8. Creating'
  BY <1>2, <1>3, <1>6, FileNumbers DEF Creating, HotelTypeOK
<1>9. VoiceLast'
  BY <1>1, <1>2, <1>6, WritingKeepsOrder
<1>10. PromisesKept'
  <2> SUFFICES ASSUME NEW h \in Ids
               PROVE  \/ told[h] = Unsure \/ file'[h][voice] = told[h]
                      \/ target = h /\ (task = "update" \/ (task = "create" /\ told[h] = Absent))
    BY <1>2 DEF PromisesKept, Reply
  <2>1. CASE h = target
    BY <1>2, <2>1 DEF Writing, Creating
  <2>2. CASE h # target
    BY <1>3, <2>2 DEF PromisesKept, Reply
  <2> QED
    BY <2>1, <2>2
<1> QED
  BY <1>4, <1>5, <1>7, <1>8, <1>9, <1>10, <1>11

\* So does writing it; with the last one the hotel is complete.
LEMMA WriteFileKept ==
  ASSUME HotelInv, WriteFile
  PROVE  HotelInv'
<1> USE DEF HotelInv
<1>1. /\ Writing /\ file' = [file EXCEPT ![target][at] = Content]
      /\ UNCHANGED <<dirs, clock, target, strays>>
  BY DEF WriteFile
<1>2. /\ Content \in Contents /\ Content \notin {Absent, Empty}
      /\ at = voice => Content \in Settings \cup {Seed}
  BY <1>1, ContentType
<1>3. /\ file' \in [Ids -> [Files -> Contents]]
      /\ file'[target][at] = Content
      /\ \A f \in Files \ {at} : file'[target][f] = file[target][f]
      /\ \A h \in Ids \ {target} : file'[h] = file[h]
  BY <1>1, <1>2, OneFileWritten
<1>4. VoiceLast'
  BY <1>1, <1>2, WritingKeepsOrder
<1>5. target \in dirs /\ at \in Files
  BY <1>1 DEF TaskOK, HotelTypeOK
<1>6. CASE at < voice
  <2>1. at' = at + 1 /\ open' = FALSE /\ UNCHANGED <<task, text, attempt, told>>
    BY <1>6 DEF WriteFile
  <2>2. at + 1 \in Files /\ at # voice
    BY <1>5, <1>6, FileNumbers
  <2>3. task = "create"
    BY <1>1, <2>2 DEF TaskOK, Writing
  <2>4. HotelTypeOK'
    BY <1>1, <1>3, <2>1, <2>2 DEF HotelTypeOK
  <2>5. TaskOK' /\ Updating'
    BY <1>1, <2>1, <2>3 DEF TaskOK, Updating, Writing
  <2>6. Untouched'
    BY <1>1, <1>3, <1>5, <2>1 DEF Untouched
  <2>7. Creating'
    BY <1>1, <1>2, <1>3, <1>5, <2>1, <2>2, <2>3, FileNumbers DEF Creating
  <2>8. PromisesKept'
    BY <1>1, <1>3, <2>1, <2>3 DEF PromisesKept, Reply, Creating
  <2> QED
    BY <1>4, <2>4, <2>5, <2>6, <2>7, <2>8
<1>7. CASE at = voice
  <2>1. Answer /\ told' = [told EXCEPT ![target] = Content] /\ attempt' = 0
    BY <1>7, FileNumbers DEF WriteFile, Answer
  <2>2. /\ TaskOK' /\ Creating' /\ Updating' /\ at' \in Files /\ open' \in BOOLEAN
        /\ text' \in Names \cup Settings \cup {Absent}
        /\ task' \in {"idle", "claim", "create", "update"}
    BY <2>1, Answered
  <2>3. HotelTypeOK'
    BY <1>1, <1>2, <1>3, <1>7, <2>1, <2>2, HotelAssumption DEF HotelTypeOK
  <2>4. told'[target] = Content /\ \A h \in Ids \ {target} : told'[h] = told[h]
    BY <2>1 DEF HotelTypeOK
  <2>5. Untouched'
    BY <1>1, <1>3, <1>5, <2>4 DEF Untouched
  <2>6. PromisesKept'
    BY <1>1, <1>3, <1>7, <2>4 DEF PromisesKept, Reply
  <2> QED
    BY <1>4, <2>2, <2>3, <2>5, <2>6
<1> QED
  BY <1>5, <1>6, <1>7, FileNumbers

\* An interrupted request leaves a hotel unlisted, or its client unsure.
LEMMA InterruptKept ==
  ASSUME HotelInv, Interrupt
  PROVE  HotelInv'
<1> USE DEF HotelInv
<1>1. /\ Answer /\ attempt' = 0 /\ UNCHANGED <<dirs, clock, target, strays>>
      /\ told' = IF Writing THEN [told EXCEPT ![target] = Unsure] ELSE told
      /\ UNCHANGED file \/ (open /\ file' = [file EXCEPT ![target][at] = Content])
  BY DEF Interrupt, Answer
<1>2. /\ TaskOK' /\ Creating' /\ Updating' /\ at' \in Files /\ open' \in BOOLEAN
      /\ text' \in Names \cup Settings \cup {Absent}
      /\ task' \in {"idle", "claim", "create", "update"}
  BY <1>1, Answered
<1>3. open => Writing
  BY DEF TaskOK, HotelTypeOK, Writing
<1>4. /\ told' \in [Ids -> Settings \cup {Absent, Seed, Unsure}]
      /\ Writing => told'[target] = Unsure
      /\ \A h \in Ids : h # target \/ ~Writing => told'[h] = told[h]
  BY <1>1 DEF HotelTypeOK
<1>5. Writing => target \in dirs
  BY DEF TaskOK
<1>6. /\ file' \in [Ids -> [Files -> Contents]] /\ VoiceLast'
      /\ \A h \in Ids : h # target \/ ~Writing => file'[h] = file[h]
  <2>1. CASE UNCHANGED file
    BY <1>1, <2>1 DEF HotelTypeOK, VoiceLast, Whole
  <2>2. CASE open /\ file' = [file EXCEPT ![target][at] = Content]
    <3>1. Content \in Contents /\ Content # Absent
      BY <1>3, <2>2, ContentType
    <3> QED
      BY <1>1, <1>3, <2>2, <3>1, OneFileWritten, WritingKeepsOrder
  <2> QED
    BY <1>1, <2>1, <2>2
<1>7. HotelTypeOK'
  BY <1>1, <1>2, <1>4, <1>6, HotelAssumption DEF HotelTypeOK
<1>8. Untouched'
  BY <1>1, <1>4, <1>5, <1>6 DEF Untouched
<1>9. PromisesKept'
  BY <1>1, <1>4, <1>6 DEF PromisesKept, Reply, Writing
<1> QED
  BY <1>2, <1>6, <1>7, <1>8, <1>9

\* Every step of a request, every failure and every tick of the clock keeps the
\* order in which a hotel's files come into being, and what clients were told.
LEMMA HotelInvStep ==
  ASSUME HotelInv, [HotelNext]_hotelVars
  PROVE  HotelInv'
<1>1. CASE Tick
  <2> USE <1>1 DEF HotelInv, Tick
  <2>1. HotelTypeOK'
    BY HotelAssumption DEF HotelTypeOK
  <2>2. TaskOK' /\ Untouched' /\ VoiceLast' /\ Creating' /\ Updating' /\ PromisesKept'
    BY DEF TaskOK, Writing, Untouched, VoiceLast, Whole, Creating, Updating, PromisesKept, Reply
  <2> QED
    BY <2>1, <2>2
<1>2. CASE UNCHANGED hotelVars
  BY <1>2 DEF hotelVars, HotelInv, HotelTypeOK, TaskOK, Writing, Untouched, VoiceLast, Whole,
              Creating, Updating, PromisesKept, Reply
<1> QED
  BY <1>1, <1>2, AskKept, ClaimKept, RetryKept, OpenFileKept, WriteFileKept, InterruptKept
  DEF HotelNext, Work

\* The invariant that the promises to clients and the list of hotels rest on.
THEOREM HotelInvariant == HotelSpec => []HotelInv
BY HotelInitial, HotelInvStep, PTL DEF HotelSpec

\* The order of the files is what a listed hotel needs.
LEMMA InvLists == HotelInv => ListedLoads
<1> SUFFICES ASSUME HotelInv, NEW h \in Listed \ strays PROVE Loads(h)
  BY DEF ListedLoads
<1>1. h \in dirs /\ h \in Ids /\ file[h][voice] # Absent
  BY DEF Listed, HotelInv, HotelTypeOK
<1> QED
  BY <1>1 DEF HotelInv, VoiceLast, Whole, Loads

\* Whatever request is interrupted in whatever file, a hotel that is listed loads,
\* unless it came from a PUT of settings to an unknown id.
THEOREM ListedLoadsHolds == HotelSpec => []ListedLoads
BY InvLists, HotelInvariant, PTL

\* What clients were told of settings is what they read back, for all hashes of
\* names, so that a name never gets the directory of another.
THEOREM PromisesKeptHolds == HotelSpec => []PromisesKept
<1>1. HotelInv => PromisesKept
  BY DEF HotelInv
<1> QED
  BY <1>1, HotelInvariant, PTL
==============================================================================
