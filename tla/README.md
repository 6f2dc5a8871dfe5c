# Verification of hotel-ai-agent

TLA+ models, TLC runs and TLAPS proofs for the program in `src/`: a FastAPI
backend that runs a LangGraph workflow per hotel review, stores and streams its
events, hands out invite codes and keeps hotels as YAML files; and a Chrome
extension whose service worker starts runs and follows the streams for the panel
of a tab.

## 1. Inventory

| Part | State it keeps | Operations | Talks to | Hard behaviour |
|---|---|---|---|---|
| workflow run (`api/sse.py`, `shared/workflow_events`, `shared/streaming/runner.py`) | row of `workflow_runs`, rows of `workflow_events`, Redis channel per run, task, runner flag, mapper counters | create, run in background, save and publish, cancel, poll for cancellation, close | PostgreSQL, Redis, LangGraph | every await lets cancel requests, the poller and failures in; the server may die |
| event stream (`api/sse.py`, `event_store.py`) | position of each open response | replay history, check status, subscribe, hand on, heartbeat | event table, channel | history and subscription are not atomic; numbers repeat; timeouts cancel a generator |
| history service (`history_service.py`) | none | detail, pages, statistics, range of events | PostgreSQL | every answer is put together from two queries, and runs go on in between |
| observer service (`observer_service.py`) | observers per run, in memory | join, leave, count | Redis | the announcement follows after the lock is given back, and may fail |
| extension service worker (`chrome-extension/src/background`) | sessions (memory and `chrome.storage.session`), a connection and a retry timer per run | generate, route events, retry, cancel, restore | backend over HTTP and SSE, tabs | handlers interleave; the browser kills the worker |
| panel and store (`content-script/index.ts`, `state/workflow-store.ts`) | view of the panel, what it was rendered for, the review that was found, reply text | generate, events, open, dismiss, edit | worker messages | messages of two runs mix; the idle view is rendered after an await; answers with an error are not looked at; a killed worker leaves the panel without a word |
| review graph (`capabilities/guest_experience`, `NodeEventEmitter`, `models.py`) | graph state and events of a run | load context, analyse, reply | LLM | errors inside nodes become events; what is stored must parse to what was sent |
| invitations, admin (`shared/invite`, `admin/app.py`) | `invite_requests`, `invite_codes`, rate counters | request, limit, validate, issue | PostgreSQL, Redis | check then insert; INCR then EXPIRE; a code changes after its check |
| hotel configuration (`shared/hotel_config`, `api/hotel_config.py`) | four YAML files per hotel | create, read, update | file system | several writes without a transaction |
| hotel configuration in the extension (`config/`, `storage/`, popup) | one storage key | list, save, delete, update | `chrome.storage.local` | none: only the popup writes, a click at a time |
| runtime, registries, LLM, prompts, adapters, launcher | wiring | lookups and calls | external services | none between actors |

What makes each part correct:

- *run*: statuses are true (cancelled only on request, completed only with an
  outcome), the close signal comes last and after the status, events are stored
  before they are announced, every run settles unless a call fails.
- *stream*: little is duplicated and what is lost is confined to a known gap,
  replay ends with the outcome, every stream ends.
- *history*: a completed detail shows its outcome, replays in parts miss nothing that
  was stored when they began, pages miss a run only for another one of the same
  time, statistics leave out no run.
- *observers*: those counted are those who listen; the announcements add up.
- *worker*: one stream per run, retries are bounded and lead to an end, stored
  sessions are true, and no stream is opened behind an event the tab lacks.
- *panel*: the view and the text agree with the run the user started, and the
  view "running" is left.
- *invitations*: no two rows of one telephone number, no address locked out, no run
  for a code that was never usable.
- *configuration*: a listed hotel can be loaded; what a client was told is kept.

## 2. Modules

| Module | Models | State and actions |
|---|---|---|
| `EventFeed` | what the event store promises those who listen | table `stored`, announcements `feed`; `Store`, `Announce`, `Shut` |
| `RunLifecycle` | what is stored of a run, as those who query may meet it | one record `run`; the sets of states that creating it, working on it and cancelling it lead to |
| `WorkflowRun` | a run in the backend | `status`, `canceled` are the row, `log` the event table, `channel` everything published; `pc` is the statement `_run_workflow_background` is at, with `current` and `after` for the event inside `save_and_publish`; one action per database or Redis call |
| `EventStream` | `WorkflowRun` plus the readers of the stream | `phase` is where `subscribe_with_history` is, `pending` the history rows fetched and not sent, `cursor` the position on the channel, `got` what the client received |
| `RunHistory` | the history service over a table of `RunLifecycle` runs | `table`, `created` are the database; `ask`, `got` a request and what each of its queries returned; `Query` is one query |
| `Observers` | the observer service and its `ObserverContext` | `observers`, `entries` are `_observers`; `place` is where a client is in `__aenter__`, its body, `__aexit__` |
| `RunReaders` | `RunHistory` and `Observers` in one process, which may die | |
| `SessionClient` | the extension's service worker | `mem` and `disk` are the session table in memory and in storage, `read` the table that a new worker has read and not taken over yet, `conn` the connections with their open EventSources and timers, `request` and `cancel` the two message handlers, `boot` and `resume` the start-up |
| `ReviewGraph` | the nodes of the review workflow and the events they make, what storing and parsing does to an event | `node`, `replied`, `emitted` |
| `ReviewPanel` | `ReviewGraph` plus the panel of a tab, `onGenerate`, and the stream between them, with deaths of the worker | `view` is `dataset.view`, `shown` what the HTML was rendered for, `idles` the calls of `renderIdle` that wait for the page's adapter, `call` where each click on "generate" is, `link` and `place` the worker's stream of each run, or what a dead worker left of it |
| `Invitations` | applications, codes and the checks of codes | `hits`, `ttl` are Redis, `rows`, `codes`, `expired` PostgreSQL, `step` and `stage` where each request is, or what it was answered |
| `HotelConfig` | hotels in YAML files | `dirs`, `file` are the directory; `task`, `target`, `at`, `open`, `attempt` the request under way; one action per system call that can be the last |
| `ApiServer` | `Invitations` and `HotelConfig` in one process | a request about hotels blocks the event loop until it is answered, one about invitations waits between any two steps; when the process dies both are cut off |
| `*Proofs` | theorems about the module they are named for (`WorkflowRunProofs`: also that it implements `EventFeed` and `RunLifecycle`; `RunReadersProofs`: about `RunHistory` and `Observers`, and that `RunReaders` implements `Observers`; `ReviewPanelProofs`: about `ReviewGraph` too; `ApiServerProofs`: about both of its parts as parts of it) | |
| `MC*` | bounds for TLC | |

How they fit together. `EventStream` extends `WorkflowRun`, so the steps of a run
fall between any two awaits of a stream. `WorkflowRun` implements two abstract
specifications, `EventFeed` (`FeedSpec`, for what is announced) and `RunLifecycle`
(`LifecycleSpec`, for what is stored). `RunHistory` takes the steps of its runs from
the second: what it shows of the history service holds over every run that
`RunLifecycle` allows, hence over those of `WorkflowRun`. `SessionClient` sees of
the backend what `EventStream` can send it: events with or without a number, one
final event if the run ended, and the end of the stream at any time (`StreamsEnd`
says it comes). `ReviewPanel` sees of the stream what `EventStream` and
`SessionClient` say of it: events in order, one of them twice or some tokens missing
where a connection breaks, and at last the final event or an error. Deaths of the
worker are carried over as well: `KillWorker` takes every stream with it and rejects
the calls that wait for an answer, and leaves of each run what may be in storage
(`lost`, or `stored` for a session that was made before its call was answered, or
that is over and whose last write was lost). `Resume` is `reconnectSession` of the
next worker: it opens the stream for the same tab, after any number that can have
got to storage, whatever the panel shows by then, and once more if that worker found
a session of its own. A resumed stream is not opened again when it breaks
(`maxRetry` 0). What `SessionClient` says is that this never goes on behind an event
the tab lacks (`NothingSkipped`), and `Resume` starts at or before what was shown,
for this reason.

Abstractions. Payloads, names and texts are left out; in the run an event is its row
number (for its uuid), its sequence and its kind, and business events are told apart
by how they are numbered; in `ReviewGraph` they have their kinds and fields, and a
text is the sequence of chunks it was made of. A failing call raises before it has
an effect, except where the model says otherwise (Redis, the insert of an
application, the announcement of an observer and the file that is closed may fail
after they took effect). In `SessionClient` a write to `chrome.storage.session`
takes effect in the step that issues it or not at all: it is not awaited where an
event is handled, and `_persist` swallows its failure. A later write carries the
whole table, so one that is late is one that was lost until then. Of the status of a
connection only "disconnected" is kept, the one value the code reads;
`reconnectCount`, the index by tab and messages to the tab other than completed and
failed decide nothing and are left out. Sockets and timers are counted, so that one
the code forgot to close would still be there. In `HotelConfig` a file holds whose
content it is, and `Empty` between `open(..., "w")` and its first write; in
`Invitations` a key that does not exist is a counter of 0.

History variables. `late` and `usable` (`Invitations`), `told` and `strays`
(`HotelConfig`), `seen` and `told` (`SessionClient`), `latest`, `edited`, `hasty`,
`overlapped`, `revived` and `ignored` (`ReviewPanel`), and what `ask` keeps as
`known` (`RunHistory`), are read by properties only and guard nothing.

## 3. Runs

| Run | Shows |
|---|---|
| `workflow_run` | With two cancel requests, graphs of up to two raw events and two failing calls, one of which may be the death of the server: cancelled only on request, completed only with an outcome and without a cancelled event, `__CLOSE__` after the final status and after the outcome, the outcome has the greatest number, the run implements `EventFeed` and `RunLifecycle`, and it settles. |
| `event_stream` | With a stream beside a run, a cancel request and one failure: at most one event twice, what a closed stream lacks was published before it subscribed and was not stored yet or not new, a replay of a finished run ends with its outcome, every stream ends. |
| `run_readers` | Two runs, one request for history and two observers: a detail that says completed has its outcome and no cancelled event, replay in two parts misses nothing that was there when it began and paging only what shares its time with another run, the statistics leave out no run, no entry without observers, no ghosts, and the announcements add up. |
| `session_client` | Two runs, two retries, a worker that lives: never two streams of a run or a timer left behind, a tab told of a failure only when earned, every session over in the end. |
| `session_recovery` | One run with two numbered events, two deaths of the worker at any point and two lost writes: never two streams of a run; what is stored, read and resumed is not ahead of what the tab was shown, so that a resumed stream can repeat events and not skip them; a session stored as completed is. |
| `review_panel` | Two clicks on "generate", one other gesture, one thing that goes wrong on the way, the death of the worker among them: the reply that is offered is what the graph generated, tokens of two runs mix only if the runs overlapped, and for that the user must not wait or a new worker must take up what another one left. |
| `one_review` | One run with two chunks, two things that go wrong one after the other and four gestures: the panel leaves "running". |
| `api_server` | Three requests of any kind, one failing call or death: one row per number and counters that expire as long as nothing fails, runs only for codes that were usable, listed hotels load, told settings are kept, counters go back to zero. |
| `cancel_lost`, `resume_gap`, `publish_fails`, `first_error` | The findings below. |

Bounds.

- `workflow_run`: two cancel requests race each other and the task; a third adds
  nothing, they do not know each other. Two raw events give equal numbers from the
  two counters. Two failures: the first one brings the task into the handler of
  errors, which a graph that ends in failure by itself does not enter, and the
  second one strikes what the handler calls.
- `event_stream`: one stream is enough because streams only read; one raw event
  beside the started event and the outcome puts events into history, gap and
  subscription.
- `run_readers`: `PageSize` 1 makes every run a page, so that a run created between
  two pages pushes another one; two runs are enough for that and for a number by
  status that changes between the two queries. Two `Times` let the runs be of one
  time, in which case each page may order them in its own way, or of two, and let a
  row that is written later be the older one. `MaxNumber` 2 lets two events and an
  outcome have equal and different numbers. `MaxSteps` 5 bounds what runs do and
  requests that come (queries are not counted): two creations, an event, an
  outcome and an end fit. Two observers may watch the same run or different ones.
  The runs and the observers are symmetric.
- `session_client`: two runs let the cancel loop be caught between two sessions.
- `session_recovery`: its properties compare the copies of one session, so one run
  will do. It may be asked for before a death or after one, where its handler races
  the restore. The second death catches the worker that resumed from an old number,
  and two lost writes let the table fall behind by both events. That the same holds
  of any number of runs is proved.
- `review_panel`: a token for each of two runs is enough for a text of both; a mishap
  is a lost call, a broken stream, a cancellation, a killed worker or a late restore.
- `one_review`: two chunks, so that one may be lost and the other come twice; two
  mishaps let a stream break and its worker die, or two workers die in turn; four
  gestures close and open the panel twice, or once and then open the editor and
  confirm. That the safety half of `PanelSettles` holds of two runs is proved.
- `publish_fails`: one failing call is all it takes.
- `api_server`: two applications with one number and one address, of which the
  second may come before the first is answered; `IpLimit` 1 makes the limit of the
  address bite as early as the one of the number. One code, one check: checks only
  read. Two names with the same hash and two attempts (the code has more) make a
  creation fall back on the time and give up; `MaxClock` 2 lets a retry meet the
  same millisecond or a new one. Three requests are two applications and a check,
  or two creations and an update, or any mix.

Distinct states: `workflow_run` 396,420, `event_stream` 520,306, `run_readers` 1,424,963,
`session_client` 198,527, `session_recovery` 964,454, `review_panel` 1,880,240,
`one_review` 210,622, `api_server` 785,632.

No run checks for deadlock: a run, a stream, a worker, a panel or a server without
work rightly stops.

Fairness. The background task and the generators are continued by asyncio, the graph
ends, and the heartbeat timer fires (weak fairness). In the worker the event loop
runs continuations and timers, `fetch` answers or raises, and an open stream brings
an event or ends. `PanelFairness`: the graphs end, and as long as the worker lives
it answers calls and brings to a tab that stays open what its open streams bring. It
does not say that the worker lives, that the next one is started or that one takes
up a stream (`KillWorker` and `Resume` have no fairness). `ApiFairness`: the event
loop runs what is ready, and Redis drops the keys whose time is up. No fairness for
cancel requests, polling, new requests, the user, failures, crashes or restarts.
`FairSpec` of `WorkflowRun` has nothing about the poller: a run ends with or without
it.

## 4. Findings

Each run shows the code do other than a line of the repository says.

- `AcceptedCancelHolds`: "Workflow cancelled" can be answered for a run that then
  ends as completed or failed, since the last update looks at nothing, and a run
  that completed after the check is turned into a cancelled one.
- `ResumeIsLossless`: an event stored after the history query and published
  before the subscription is lost to that stream.
- `SaveAndPublishIsAtomic`: `save_and_publish` calls itself atomic
  (`event_store.py:406`); it commits the row and then publishes, and where that
  fails the row stays and nobody announces it again. `EventFeed` says what is left
  of the promise.
- `FirstErrorReconnects`: a session restored after a restart of the worker is
  reported as failed at the first error of its stream, while the run goes on.

Four more statements of the repository do not agree with the code. They are facts of
the models, which follow the code, and no run is spent on them.

- `storage/schema.sql:48` calls the sequence monotonically increasing and makes it
  part of the primary key; deltas, pass-through, started and cancelled events all
  carry 0 and custom events have a counter of their own (`mapper.py:84-106`). The
  table the application creates has another key, so rows are accepted; under
  `schema.sql` the second such event fails the run (`UniqueSequence`).
- `tests/unit/test_sse_stream.py:86` asserts that an event published after a heartbeat
  arrives. `wait_for` cancels the generator it waits for (`sse.py:227`), so the
  response ends at the step after the first heartbeat (`AfterHeartbeat`).
- `tests/e2e/test_api_e2e.py:101` says that a PUT of settings to an unknown hotel gives
  404; lines 110-114 call it known, and left to be repaired, that the code answers 200
  instead. It makes a hotel of one file, which is listed and does not load
  (`strays` in `ListedLoads`).
- The comment at `content-script/index.ts:144` says that the completed event does not
  overwrite the text; the store it calls does (`workflow-store.ts:196-198`), and
  `ReplyIsTheGraphs` rests on it, because tokens may be lost or come twice.

The models also contain the following. We found no line of the repository that says
otherwise, so that no property calls it wrong; where one would fail because of it, it
names the exception.

- A run whose server died stays running for ever (`RunSettles` excludes it).
- A session restored after a restart is never marked when its stream fails
  (`GeneratedSettles` is checked without restarts). The cancel loop may mark a
  session cancelled that has just completed.
- An answer of the API without a run and without the code "failed" makes a session
  and a stream for a run without an id (`PostRun`). Restored streams go to the default
  address, whatever address is configured.
- A write to `chrome.storage.session` that fails is only logged, so that a new worker
  repeats events (`NothingSkipped` says that it skips none).
- Two runs created at one time have no fixed order in the list: one of them may come
  on two pages and the other one on none (`PagesMissOnlyTied`).
- An observer whose join could not be announced stays counted (`NoGhosts` is about
  runs of the service in which nothing goes wrong).
- A death of the server between INCR and EXPIRE leaves a counter that never goes
  back (`CountersExpire`, `CountersClear`). An application whose connection fails
  when it is closed is saved, and its client is told of an error.
- An update of settings that is cut off after the truncation leaves a file that is
  read back as blank settings (`Unsure` in `PromisesKept`).
- The panel does not look at an answer `{error}` of the worker and goes on to say
  "running" (`ignored` in `PanelSettles`). A worker that is killed while it streams
  sends nothing more, and nothing in the panel starts the next one: it goes on to
  say "running" as well (`Forsaken`).
- A new worker opens the streams of its sessions for the same tab, whatever is shown
  there by then. The error that the panel shows when a waiting call is rejected
  offers Retry, and the run of that click then gets the messages of the restored
  one too: tokens of both, and the reply of either (`revived` in
  `OverlapIsExplained`).
- The idle view is rendered after an await (`renderIdle`), over whatever is shown by
  then, and until then the old buttons stay: a second run can be started beside the
  first (`hasty` in `OverlapIsExplained`), and a user who presses Edit while the panel
  starts over may be offered an empty text.
- There is no handler for `WORKFLOW_CANCELLED`: the running view is left because
  `onError` is called for it as well. The publish button calls a function that is
  not defined.

## 5. Proofs

`WorkflowRunProofs` proves for every number of cancel requests, raw events and
failures, and for both table definitions, of which the runs use the one that the
application creates (the only assumption is `RunAssumption`):

- `TypeCorrect`: types, by induction over the actions.
- `CancelSound`: the runner's flag, an event `cancelled` in flight and the status
  all go back to the column `canceled` (`CancelInv`).
- `OutcomeNumbered`: rows and the event in flight are numbered at most `maxSeq`,
  the outcome `maxSeq + 1`, and there is one outcome, after which only events
  numbered 0 follow.
- `CompletedSound`: where the task is determines what is stored; the statuses
  completed and cancelled exclude each other's events.
- `CloseSettled`, `OutcomeAnnounced`: when no call failed the task reaches the
  close signal only after the status and the outcome.
- `RunImplementsFeed`: the refinement. Its invariant says that ids number the
  rows, that the event about to be published is the newest row and has not been
  published, and that nothing is published after the closing mark.
- `RunImplementsLifecycle`: under the mapping of `WorkflowRun` every step of a run
  is one that `RunLifecycle` allows, or none. Its invariant `LifeInv` adds to those
  above where the event on its way comes from and what it may be (`TransitInv`),
  that numbers stay within the raw events (`BoundsInv`), that there is a row from the
  POST on (`RowInv`), and what is and is not stored at each place of the task
  (`RecordInv`).
- `TaskAdvancesHolds`: `Remaining`, the statements the task still has before it on
  the longest way, drops with each of its steps and never rises, so that a task takes
  at most 18 + 3 * `MaxRaw` steps. `StoppedIsSettledHolds`: where it has stopped, the
  channel is closed and the status final, or a call failed; `SettledForGoodHolds`: it
  stays so. This is `RunSettles` without its fairness: what is left to TLC is that the
  task can take a step wherever it has not stopped.

`EventStreamProofs` proves all four invariants of `event_stream` for every number
of streams and every number they resume after (`StreamAssumption`). `StreamsInv`
extends the invariants of the run by the order of the channel (`ChannelInv`: ids
increase on it) and says of each stream how far it is and that it has skipped
nothing (`Progress`: rows fetched are delivered or pending, everything on the
channel behind `joined` is delivered, and is no older than the history), and that
what it delivered splits into rows, sorted and each one once, and messages, each
one once and none older than the newest row (`SplitAt`). From these,
`AtMostOneDuplicate`: only the newest row can be in both parts.

`SessionClientProofs` proves for every set of runs, retry limit and number of
events and restarts (the only assumption is `ClientAssumption`):

- `TypeCorrect`: types.
- `StreamsAreLone`: `OneStream`, from `LoneStreams`: only an active connection has
  an EventSource or a timer, and one of them at most. `Connect` and
  `_scheduleReconnect` close before they open, which is what each step needs.
- `NothingSkippedHolds`, `CompletedSessionsAreTrue`: from `Sessions`. What a session
  says of its run is backed by what the tab was shown and told (`Backed`), and so is
  every copy of it, the one in memory, the stored one and the one that a new worker
  has read and not taken over yet: a copy may be old, and what backs it stays. So it
  does not matter which writes are lost, or that handlers do not wait for the restore
  and may overwrite what is stored.
- `ReportedFailuresAreEarned`: from `FirstLife`. Until the first restart nothing is
  restored, so every connection has the full `MaxRetry`; after the last retry
  nothing is left that could reset the count.
- `NoneForgottenHolds`, the safety half of `GeneratedSettles`: while the worker lives,
  a session that is pending or running has a request under way, an open stream, a
  timer, or a cancel request about to close it. It needs that `handleCancel` is at one
  session at a time (`OneAtATime`).

`InvitationsProofs`, `HotelConfigProofs` and `ApiServerProofs` prove the six
invariants of `api_server`, for all applications, numbers, addresses, limits, codes,
names, hashes, settings and attempts (`InviteAssumption`, `HotelAssumption`,
`MarkerAssumption`, `RequestsAssumption`). The first two do it for each part:

- Applications: unless a key expired meanwhile or something failed, an application
  past the counter of its number is the only one whose turn it can be (`Serial`),
  so that looking up and inserting cannot be interleaved with another; a counter
  without a time to live belongs to an application at its EXPIRE.
- Codes: a check that passed found a code that was usable then, and `usable` never
  forgets.
- Hotels (`HotelInv`): a hotel without directory has no files (`Untouched`), one
  with a `voice.yaml` has the other three (`VoiceLast`), a creation has written the
  files before the one it is at (`Creating`), and an update is of a hotel that has a
  `voice.yaml` or of a stray (`Updating`).

`ServerImplementsParts` then shows that every step of the composition is a step of
each part or leaves it alone, from which the theorems of the server follow.

`RunReadersProofs` proves all eight invariants of `run_readers`, the three of the
observers for every number of runs, clients and mishaps, from where each client is and
what was announced of it (`ObserversInv`), and that `RunReaders` implements `Observers`;
the others for any runs, requests and events. `HistoryAssumption` says that the runs are
finitely many and a page holds at least one (20 in the code), `ReadersAssumption` that
the bounds of the run are numbers. `HistoryInv` says of the tables that each row is as
`RunLifecycle` leaves it, that an outcome has the greatest number, that a completed row
is over and has one (`TableInv`), and of each request:

- `DetailInv`: a status read as completed is of a row that is over, so that the events
  read after it are all there are.
- `ReplayInv`: each half has what was known and belongs to it.
- `StatisticsInv`: the total is at most the number of runs, which only grows, and the
  counts by status add up to that number when they are taken. There are five
  statuses, so the sum is written out and proved by counting disjoint sets.
- `PagesInv`: a run that was known, and of whose time none has been on a page yet, has
  as many younger ones as the pages read can hold; new runs only push it further, and
  when a page comes back empty nobody is that old. A page holds of each time as many
  runs as it has places for them (`PageHolds`), whichever they are.

`HistoryOnlyGrows`: no step takes a run, an event or the end of a run back. `RunHistory`
may stand on `RunLifecycle` in place of `WorkflowRun` because of
`RunImplementsLifecycle`: the rows of its table take the steps of `RunLifecycle` by
definition.

`ReviewPanelProofs` proves the three invariants of `review_panel`, for any number of
clicks, chunks, gestures and mishaps (`NullAssumption`: None is not a text).
`PanelInv` has these parts:

- `GraphInv`: a graph makes only the events of its kind, tokens only of its own reply,
  and tells of the reply only when that is whole. What the panel reads of a stored
  event is what the node made, whatever `model_dump` and the parsing do to the others
  (`ParsedToken`, `ParsedResult`), and the result of a run is its last state
  (`ResultIsLastState`).
- `CallInv`, `PlaceInv`: a stream is opened when its call was answered or cut off, and
  is never ahead of its run.
- `CalmInv`: as long as the user waits (`~hasty`) and no worker takes up what another
  one left (`~revived`), one run is under way at most, the panel says so, which hides
  the button, and no idle view is about to come over it; `OverlapIsExplained` follows.
- `LoneInv`, `TextInv`: unless runs overlapped only the latest one writes the text, it
  writes its own tokens, and a text is offered, by the view or by buttons left of it
  (`Offered`), only when the panel was told how that run ended; `OneRunsText` follows.
- `ViewInv`, `ReplyInv`: buttons that are not those of the view are about to be
  replaced; what is offered is the whole reply of a run that is over, or what the
  user made of it, or nothing where the panel starts over; `ReplyIsTheGraphs` follows.

`RunningIsAwaitedHolds` is the safety half of `PanelSettles`: a panel that says
running, unless it ignored an answer or the worker of some run died on it
(`Forsaken`), waits for the answer of a call, a graph at work, or a final event
still ahead of its open stream. It adds that the first and the last event of a run
are what they should be (`TellingInv`), and that running is said only as long as
there is more to hear of some run, from this worker or the next (`RunningInv`).
`RepliesOnlyGrow`: no token of a reply is taken back, and a reply that is whole
stays as it is.

None of the properties is inductive as checked: in a run each needs the position of
the task, in the worker what is on the way to reach a session or a connection, in
the stream what was skipped, in the server what the request under way has done so
far, in the history service how what was read stands to the tables now, in the panel
whose run may still write, and that is what the named invariants of the proof
modules add. TLC was used on these invariants, with the constants of the runs,
before they were proved.

Every invariant and every refinement of a passing run is stated by a theorem.
Model-checked only are the five liveness properties `RunSettles`, `StreamsEnd`,
`GeneratedSettles`, `CountersClear` and `PanelSettles`: they are about fairness, and the
prover has no ENABLED. For three of them the part that is safety is proved
(`StoppedIsSettledHolds` and `TaskAdvancesHolds`, `NoneForgottenHolds`,
`RunningIsAwaitedHolds`); for `CountersClear` it is `CountersExpire`. The definitions of
these theorems are in the proof modules and no run checks them; TLC was used on them as
well.

## 6. Not modelled

- *Hotel configuration in the extension*: one storage key, written by the popup a
  click at a time and read by the worker. There is no second writer.
- *Agent runtime, registries, context and conversation*: registries are filled once
  before requests are served; the runtime calls an LLM and waits. No state that two
  actors change.
- *LLM, prompts, knowledge, observability, logging*: adapters to external services.
  The answers of the LLM are any chunks or an error in `ReviewGraph`.
- *Other capabilities*: a prompt, a schema and one call each.
- *OTA page adapters and i18n, launcher, deployment, data*: selectors, texts,
  settings and samples, without behaviour between actors.
- Of the panel: the watcher of the page's selection, the language switch, copying
  and the reload of a tab; of the worker: the index by tab and functions that have
  no caller.
- No part counts on arithmetic of a given width: Python's integers have none, and
  the numbers of the extension stay small.

What could be added: a bound on the steps of a stream and of a connection, as
`TaskAdvancesHolds` has it for the task.
