---------------------------- MODULE HotelConfig ----------------------------
(***************************************************************************)
(* HotelConfig: the hotels clients of the API list, create and configure,  *)
(* kept as a directory of four YAML files each.                            *)
(*                                                                         *)
(* The requests are handled one at a time (the endpoints never await), but *)
(* a write is several system calls, and any of them can be the last.       *)
(*                                                                         *)
(* api/hotel_config.py, shared/hotel_config, shared/context/loader.py.     *)
(***************************************************************************)
EXTENDS Naturals

CONSTANTS
  Names,    \* names of hotels
  Hash,     \* the digits of a name's MD5 that go into its hotel's id
  Settings, \* reply settings that clients save
  Attempts, \* max_retries
  MaxClock  \* bound on the milliseconds that pass

ASSUME HotelAssumption ==
  /\ Names # {}
  /\ Attempts \in Nat \ {0}
  /\ MaxClock \in Nat \ {0}

VARIABLES
  dirs,    \* the directories under resources/hotels
  file,    \* the contents of their files
  clock,   \* time.time(), in milliseconds
  task,    \* what the request under way is doing
  text,    \* the name it creates a hotel for, or the settings it saves
  target,  \* the hotel it is about
  at,      \* the file it writes
  open,    \* that file is open: truncated and not yet written
  attempt, \* timestamps it has tried
  \* history variables, read by the properties only
  told,    \* what the client was last told of a hotel's settings
  strays   \* hotels whose voice.yaml was brought by a PUT of settings

hotelVars == <<dirs, file, clock, task, text, target, at, open, attempt, told, strays>>

\* A hash, and a timestamp or 0.
Ids == {Hash[n] : n \in Names} \X (0..MaxClock)

Files == 1..4
metadata == 1
profile  == 2
policies == 3
voice    == 4

Absent == "absent"
Empty  == "empty"
Seed   == "seed"
Unsure == "unsure"

ASSUME MarkerAssumption == {Absent, Empty, Seed, Unsure} \cap (Names \cup Settings) = {}

Contents == Names \cup Settings \cup {Absent, Empty, Seed}

HotelInit ==
  /\ dirs = {}
  /\ file = [h \in Ids |-> [f \in Files |-> Absent]]
  /\ clock = 1
  /\ task = "idle"
  /\ text = Absent
  /\ target = CHOOSE h \in Ids : TRUE
  /\ at = metadata
  /\ open = FALSE
  /\ attempt = 0
  /\ told = [h \in Ids |-> Absent]
  /\ strays = {}
-----------------------------------------------------------------------------
(* What a reader of the directory makes of it *)

ListedAll == dirs

\* list_hotels: the directories with a voice.yaml.
Listed == {h \in dirs : file[h][voice] # Absent}

\* get_reply_settings: an empty file counts as one without settings.
Reply(h) == file[h][voice]

\* HotelContextLoader.load: an empty file lacks the keys it looks up; only
\* voice.yaml may be empty.
Loads(h) ==
  /\ h \in dirs
  /\ \A f \in Files \ {voice} : file[h][f] \notin {Absent, Empty}
  /\ file[h][voice] # Absent
-----------------------------------------------------------------------------
(* POST /api/hotels *)

\* The request ends, and its locals with it.
Answer == task' = "idle" /\ text' = Absent /\ at' = metadata /\ open' = FALSE /\ attempt' = 0

CreateHotel(n) ==
  /\ task = "idle"
  /\ task' = "claim"
  /\ text' = n
  /\ target' = <<Hash[n], 0>>
  /\ UNCHANGED <<dirs, file, clock, at, open, attempt, told, strays>>

TakenNever(h) == FALSE

Taken(h) == h \in dirs

\* is_dir and mkdir: the hotel is this request's from now on.
Claim ==
  /\ task = "claim" /\ ~Taken(target)
  /\ dirs' = dirs \cup {target}
  /\ task' = "create"
  /\ UNCHANGED <<file, clock, text, target, at, open, attempt, told, strays>>

TriesLeftOffByOne == attempt <= Attempts

TriesLeft == attempt < Attempts

\* HotelConfigAlreadyExists: the hash again, with the time, and at last 409.
Retry ==
  /\ task = "claim" /\ Taken(target)
  /\ IF TriesLeft
     THEN attempt' = attempt + 1 /\ target' = <<Hash[text], clock>> /\ UNCHANGED <<task, text, at, open>>
     ELSE Answer /\ UNCHANGED target
  /\ UNCHANGED <<dirs, file, clock, told, strays>>
-----------------------------------------------------------------------------
(* PUT /api/hotels/{hotel_id}/reply-settings *)

\* The directory is made if it is missing; what else a hotel consists of is not.
UpdateReplySettings(h, v) ==
  /\ task = "idle"
  /\ task' = "update"
  /\ target' = h
  /\ text' = v
  /\ dirs' = dirs \cup {h}
  /\ at' = voice
  /\ strays' = strays \cup {x \in {h} : file[h][voice] = Absent}
  /\ UNCHANGED <<file, clock, open, attempt, told>>
-----------------------------------------------------------------------------
(* Files *)

Writing == task \in {"create", "update"}

OpenFile ==
  /\ Writing /\ ~open
  /\ file' = [file EXCEPT ![target][at] = Empty]
  /\ open' = TRUE
  /\ UNCHANGED <<dirs, clock, task, text, target, at, attempt, told, strays>>

Content ==
  IF task = "update" \/ at \in {metadata, profile} THEN text ELSE Seed

\* The file is flushed when it is closed; all of them are short.
WriteFile ==
  /\ Writing /\ open
  /\ file' = [file EXCEPT ![target][at] = Content]
  /\ IF at < voice
     THEN at' = at + 1 /\ open' = FALSE /\ UNCHANGED <<task, text, attempt, told>>
     ELSE /\ Answer
          /\ told' = [told EXCEPT ![target] = Content]
  /\ UNCHANGED <<dirs, clock, target, strays>>

\* A system call fails or the server dies: the client gets no answer.
Interrupt ==
  /\ task # "idle"
  /\ Answer
  /\ told' = IF Writing THEN [told EXCEPT ![target] = Unsure] ELSE told
  /\ \/ UNCHANGED file
     \/ open /\ file' = [file EXCEPT ![target][at] = Content]
  /\ UNCHANGED <<dirs, clock, target, strays>>

Tick ==
  /\ clock < MaxClock
  /\ clock' = clock + 1
  /\ UNCHANGED <<dirs, file, task, text, target, at, open, attempt, told, strays>>
-----------------------------------------------------------------------------
(* Next *)

Ask ==
  \/ \E n \in Names : CreateHotel(n)
  \/ \E h \in Ids, v \in Settings : UpdateReplySettings(h, v)

Work == Claim \/ Retry \/ OpenFile \/ WriteFile

HotelNext == Ask \/ Work \/ Tick \/ Interrupt

HotelSpec == HotelInit /\ [][HotelNext]_hotelVars
-----------------------------------------------------------------------------
(* Properties *)

HotelTypeOK ==
  /\ dirs \in SUBSET Ids
  /\ file \in [Ids -> [Files -> Contents]]
  /\ clock \in 1..MaxClock
  /\ task \in {"idle", "claim", "create", "update"}
  /\ text \in Names \cup Settings \cup {Absent}
  /\ target \in Ids
  /\ at \in Files
  /\ open \in BOOLEAN
  /\ attempt \in 0..Attempts
  /\ told \in [Ids -> Settings \cup {Absent, Seed, Unsure}]
  /\ strays \in SUBSET Ids

\* voice.yaml is written last, and the list shows only hotels that have one:
\* so a hotel that can be chosen from it has a context that loads, even if the
\* server died while it created it.  The exception are the hotels that a PUT of
\* settings to an unknown id leaves behind.
ListedLoads == \A h \in Listed \ strays : task = "idle" => Loads(h)

\* What a client was last told of a hotel's settings is what is read back,
\* whatever other hotels are created, even under a name with the same hash, and
\* wherever a request about another hotel is interrupted.
PromisesKept ==
  \A h \in Ids :
    \/ told[h] = Unsure
    \/ Reply(h) = told[h]
    \/ target = h /\ (task = "update" \/ (task = "create" /\ told[h] = Absent))
=============================================================================
