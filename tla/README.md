# GT7 datalogger: a TLA+ model of its coordination

The datalogger is one Python process: it receives Gran Turismo 7's telemetry
over UDP, cuts it into sessions and laps, stores them in SQLite, shows them in
a browser, speaks to the driver, and sends them to a sync service if the user
has one. On a desktop it is the child of a small supervisor that also installs
its updates. Everything in the process runs on one asyncio event loop, so there
are no data races; what makes the code hard is that every `await` lets every
other task run, that tasks are cancelled where they wait, and that the process
may die between two writes. This directory models the parts whose correctness
depends on what happens in those gaps.

Paths below are under `src/backend/app/` unless they say otherwise.

## The system

| Part | State it keeps | Operations | Talks to |
|---|---|---|---|
| Telemetry sources (`telemetry/`) | socket, bounded packet queue | start, stop, restart, discover the console | recorder, one callback per packet |
| Recorder (`service.py`, `processing/laps.py`) | `session_id`, the lap processor, the session's best and its reference lap | one packet; a session opens; a lap ends; rulings, deletions, recording on/off, stop | repository, sync, engineer, browsers; all under `session_lock` |
| Repository (`storage/repository.py`, `storage/db.py`) | SQLite, the session gate | queries, one transaction each | everything |
| Sync client (`sync/client.py`) | capabilities, the bring-up task | apply, check, reset_connection, type_disabled, stop | its three adapters, the service |
| Sync adapters (`sync/sessions.py`, `tracks.py`, `live.py`) | what the service has had its say on, a worker each, a state file | a lap saved, a bundle written, a packet; sweep, halt, forget | client, repository, the service |
| Backup, restore, upgrades (`storage/`) | a prepared snapshot, an upload, the claim on the disk, the copies | prepare, stream, stage, apply, swap; copy and migrate at a start | gates, every writer |
| Re-judging (`rejudge.py`) | circuits due and when, a worker | changed, run_now, paused, stop | repository |
| Browser streams (`service.py`, `api/ws.py`) | an event queue and a frame slot per client | publish, send, drop | browsers |
| Race engineer (`race_engineer/`, `processing/live_events.py`) | lap history, detectors, reference, what was said | a packet, a lap, a chase, a ruling | recorder, browsers |
| Speech (`src/frontend/src/lib/speech.ts`) | the queue of callouts, a watchdog | enqueue, speak, cut short, give up | the browser's engine, the service |
| Surveys and track bundles (`processing/`) | files under one write lock | record, save, merge, import, export | re-judging, tracks adapter |
| Updates (`updates.py`, `self_update.py`) | the last answer, the download, files for the supervisor | check, fetch, offer | GitHub, the supervisor |
| Desktop (`src/desktop/gt7_desktop/`) | the server as a child, its exit codes, the instance lock | start, stop, restart, install, quit | the operating system |

A packet goes source -> recorder -> (repository, sync, engineer, browsers) under
`session_lock`; an HTTP handler runs beside it and takes the lock only where it
touches the recorder. The adapters are told of a lap by a plain call and do the
sending in tasks of their own, reading the database again when they send.
Settings change under everyone's feet. A restore replaces the database under the
running process. PROJECT.json lists every component and every hazard, each
hazard at its line with the properties that cover it.

## The modules

| Modules | What they model | Checked by | Proved in |
|---|---|---|---|
| SessionsSync | the sessions adapter, the client as it drives it, the service as its answers show it | MCSessionsSync | SyncProofs |
| TracksSync, LiveSync | the other two adapters | MCAdapters | SyncProofs (TracksSync) |
| DatabaseSwap, RecordingsInUse | a restored database replacing the recordings; what that promises | MCDatabaseSwap | DatabaseSwapProofs |
| Supervisor | the desktop around the server, quit and install | MCSupervisor | SupervisorProofs |
| ClientStreams, EventFeed | the streams to browsers and the voice claim; what a reader is promised | MCClientStreams | BrowserProofs |
| VoiceQueue | the speech queue of a tab | MCVoiceQueue | BrowserProofs |
| LapProcessor, SessionBests | packets to laps and sessions; which laps count | MCRecording | RecordingProofs (SessionBests) |
| Rejudge | the verdicts of stored laps | MCRejudge | RejudgeProofs |
| SurveyBundles | what a survey leaves, and how bundles meet | MCSurveyBundles | |
| Backups, Upgrades, UpdateOffer | the disk and its claim; the copy before a migration; the update on offer | MCUpkeep | UpkeepProofs |
| EngineerReference, PacketCalls, LapCalls, SectorTimes, CalloutGate | what the engineer compares with, asks for and says | MCEngineer | EngineerProofs (EngineerReference, PacketCalls, LapCalls, SectorTimes) |

An MC module that names several modules is a union: a behaviour is one of a
part (`part`), the others rest at an initial state. The parts share no state, so
each is checked as if alone; what it saves is repetition.

In every module an `await` is a step boundary, a call without one is part of
the step that makes it, and a coroutine is a variable that says where it
stands. A module's head says what is abstracted and what is left out; its last
section holds the properties, the last of them, under a comment, those the code
does not keep ("Deviations" below). A `\* Mutant of X` above a definition is a
plausible bug in it, which the property it is listed with in PROJECT.json
catches.

Bounds are two or three of everything: the hazards are about two actors and one
item between them, plus one earlier or later item to confuse it with.
Disturbances (`MaxChaos`, `MaxFaults`, `MaxEvents`, ...) are counted, one or two
to a behaviour, and may come at any step; the interleavings around them are not
bounded. All runs but `swap` say `CHECK_DEADLOCK FALSE`: a bounded model stops
when the drives are over and everyone is idle, and so does the program.

## The runs

| Run | Shows | States |
|---|---|---|
| `sync_safety` | `SyncedMeansHeld`: what a record says is synced is on the server. `NamedOrOwed`: a known circuit is on the server or owed. `CrashLosesNothing`: the state file is never behind the memory. `DriveInOrder`: the server is told each drive in order | 815 092 |
| `sync_delivery` | `Delivered`: what is queued is dealt with, or the type is off, with two workers alive | 122 000 |
| `adapters` | `SyncedIsTaken`: a bundle noted as synced was accepted by that server, or left for another (`astray`). `GoesUp`: one's own bundle goes up. `Streams`: a car on track is shown | 486 651 |
| `swap` | `FilesAlone`: nobody has the files open while they are renamed. `LapsKept`: no driven lap is lost. `OneProducer`: one source, in reach, and running after every way out. `SwapIsAtomic`: implements RecordingsInUse. `Resumes`: a restore ends with the gates open | 352 000 |
| `supervisor` | `QuitWaitsForInstall`, `OneInstaller`, `NothingStartedAfter` (once the instance lock is let go of), `QuitEnds` | 237 360 |
| `streams` | `FeedKept`: implements EventFeed. `Reaches`: what is accepted for a browser that reads reaches it or the socket ends | 381 449 |
| `voice` | `Answered`: what is spoken is acknowledged as it ended. `Moves`: the queue moves on whatever the engine does | 184 951 |
| `recording` | `RecordedAsDriven`, `SessionPerOuting`: laps are recorded as driven, once, in their session. `VerdictsHold`: the rows say what the processor says (`RowsFollow`), which is what most laps ran (`JudgedByMajority`) | 1 061 144 |
| `rejudge` | `VerdictsFollow`: at rest a stored verdict is the present bundle's, but for what was named or judged across a change or was cut off. `PassHeals`, `ComesRight` | 566 593 |
| `surveys` | `Census`: a bundle counts each run once, however often it travelled, and can be imported | 589 789 |
| `upkeep` | `OneFiller`, `FilesHaveOwners`, `EachEnds` (Backups); `WayBack` (Upgrades); `QuitInstallsTheOffer`, `GetsReady` (UpdateOffer) | 464 373 |
| `engineer` | `ReferenceSound` (EngineerReference); `CriticalIsHeard`, `RaceCallsInOrder` (PacketCalls); `PlanIsKnown`, `HistoryIsTold` (LapCalls); `SectorsAddUp` (SectorTimes) | 2 333 408 |

## Module by module

### SessionsSync

| Variable | In the code |
|---|---|
| `rows` | the `laps` table: lap id -> session, which lap, the ruling its verdict reflects |
| `opened`, `open`, `circuit` | the newest `sessions.id`, `TelemetryService.session_id`, `track_name` known |
| `ruled` | rulings committed by `update_lap` whose `lap_changed` still waits for `session_lock` |
| `rec`, `recUrl`, `disk` | `_sessions`, `_state_server`, `sync-sessions.json` |
| `hold` | `_not_before` is in the future |
| `task`, `job`, `cancelled` | `_task`; where each worker's coroutine stands; tasks cancelled and not unwound |
| `on`, `caps`, `url`, `resetting`, `bringUp` | the toggles, `capabilities`, `sync_url`, the window inside `_apply_sync`, `_bring_up_task` |
| `offers`, `remote` | the service: external, modelled by the answers `classify` tells apart |

A request is three steps: the worker sends it (`PushNext`, or `LapLoaded`,
`TotalsLoaded`, `AnalysisLoaded` after the database read), the service deals with
it (`ServiceTakes`, `ServiceDeclines`), the answer reaches the worker (`Accepted`,
`Refused`, `HeldBack`, `SwitchedOffByService`); anything may happen in between.
`job.own` says whether the record the coroutine holds is still the one in the
dict, as a Python reference outlives `pop`.

Coarser than the code: `LapSaved`, `SessionStarted` and `ClosePrevious` are one
step each, though awaits on the database lie inside (the session lock keeps the
recorder's own steps apart, but not the worker's and not a crash, so that a crash
between the row and the queue entry is a hazard no property covers); a bad token,
a timeout and an unreachable server are one backoff of no particular length;
`official_id` and `track_name` are one circuit. Finer: other actions may run
between a worker's answer and its next request, where the code goes straight on.

Bounds: `sync_safety` has two drives of two laps (an old record beside a new one,
a lap in flight while one waits), three sessions on the server (drives plus a
lost answer), one ruling, a queue of two, one finished record kept, one
disturbance, one worker, two addresses. `MaxLap` 3 passes too (5 937 435 states).
`sync_delivery` has one drive of one lap and two workers alive at once. What the
passing properties leave out is named in them: `OwnId` sets aside laps whose id
was another's, `SyncedMeansHeld` also laps the cap dropped and sessions the
server says are gone. Both speak of one worker, and of the sessions of all
servers at once: that the new server's session id may be noted under the old
address, in the await between the two (api/admin.py:361), is not theirs to find;
of the tracks adapter it is (`SyncedIsTaken`). `Delivered` assumes that the
service goes on listing the type: when it stops and starts again, `check` halts
the adapter and only the next lap or the push button starts it.

Fairness: a worker that can take a step takes it; a request ends, at the latest
with `UPLOAD_TIMEOUT_S`; the bring-up runs; `_apply_sync` goes on to its reset; the
backoff (at most 15 minutes) ends; a ruling that waits for the lock gets it. None
on laps, buttons, switches or the service's goodwill.

### TracksSync, LiveSync

TracksSync: `bundle` the documents on disk, `dirty` and `delay` the queue with
what each entry waits for (the settle time, the floor between uploads, the
backoff: one clock, `_not_before`), `records` and `stateFile` what the service has
had its say on and the server it is about, `runner`, `push`, `halted` `_task`, the
coroutines and the cancellations on their way, `resetting` the window inside
`_apply_sync`, `taken` and `refused` the servers, `astray` what left in that
window for a server the records are not about (history). Actions: `changed`,
`forget`, `sweep`, `clear_backoff`, `halt`, `reload_state`, the new address
(`Readdressed`) and the reset that follows it an await later (`Reconnected`), and
`_push` with every way out. Left out: the sector hint, the size limit, an
exception that ends a worker, a second change of the address before the first is
reset. LiveSync: `latest` and `stale` the frame, `meta` and `metaDirty` the
circuit and the car, `socket`, `live`, `conn` the socket, the task and where each
coroutine stands; the service keeps one stream per account. One bundle, two
servers, two coroutines, two upsets; LiveSync three moves of the car, one change
of `_meta`, two faults. TracksSync with two bundles and one upset passes (368 379
states with LiveSync's), LiveSync with three faults (196 729). Fairness: workers,
answers, delays that pass, the reset after a new address, the sweep, packets while
the console sends, a socket that opens, a replaced stream that is closed.

### DatabaseSwap

What can go wrong is an id read from one database and used on another, a file
renamed under an open connection, a file lost, or a process that comes out of it
without telemetry or with two sources. An id is therefore modelled by the
database it was read from, a database by a number that grows.

| Variable | In the code |
|---|---|
| `live`, `kept`, `newest` | the file at `db_path` (0 between the two renames of `install_database`), the `.before-restore-*` files, the databases made so far |
| `driven` | the databases a lap was saved into |
| `at`, `ids` | where each request and task is (in a database session, or between two), and the database its ids are from; for the recorder, `session_id` |
| `notes` | the database `sync-sessions.json` speaks of |
| `requestsShut`, `sessionsShut` | `service.requests` and `repo.gate`; those inside are read off `at` |
| `lock` | `session_lock` |
| `source`, `inst`, `feed` | `TelemetryService.source`, every source object ever put there and not yet off, and how far its consumer is in `_on_packet` |
| `swap`, `stop` | where `_swap_database` and `TelemetryService.stop` are |

`SwapBegins` to `SwapEnds` are the awaits of `_swap_database` and `_swap_files` in
order; `SwapGivesUp`, `SwapRefused` and `SwapPutsBack` are the ways out by an error,
which meet in `Unwound`, the code's `finally`. The tasks are the requests (some of
which restart the source), the tasks the swap cancels (`data`, `sync`, `rejudge`)
and a visitor, who stands for everybody who opens database sessions outside the
request gate and carries nothing between them. RecordingsInUse knows users, the
ids they hold and one database, which is replaced in one step that leaves nobody
an id; the old database stays in use until the step that resets the recorder and
the adapters (`Replacing` is the time before it).

Coarser: the tasks are cancelled, and the rejudge and backup locks taken, in one
step, since nobody is left who could start them in between (a cycle between those
two locks would therefore not show); `uninstall_database`'s two renames are one; a
held lap is flushed as the lock is taken. The sources are UDP listeners on a port
nobody else wants. A manual re-judging and a compaction are requests. One restore
and one crash, at any step; one request that carries ids and restarts the source
(with two the code does not keep `OneProducer`, see Deviations, so two requests
that switch at once are covered by no run); two of the three tasks, which the swap
treats alike. Fairness: the swap's, the stop's and a switch's own next steps; no
request and no visitor is assumed ever to finish, which is what the gates' time
limits are for.

### Supervisor

`sup`, `known`, `misses`, `crashes`, `phase` are the supervisor's thread (`_run`,
`_watch`, `on_update`), `child`, `code`, `flags`, `pipe` the server process and its
Control, `quit`, `userQuit`, `stopping`, `lock`, `updating`, `gone` the thread in
`DesktopApp.quit` and what it shares, `staged`, `request`, `onQuit`, `installers` the
updates folder. A timeout is a step that may happen where the code waits on
something that may never come. Three kinds of package, six kinds of fault, four
events (clicks, signals and faults together). Fairness: the threads, and a child
that comes up, reads its pipe, closes and ends; a fault owes nothing. `QuitEnds`
says that a quit ends and that the supervisor settles.

### ClientStreams

`tracked` is `_clients`, `client` each `_ClientStream` with its queue, frame slot and
sender, `endpoint` where `live()` stands, `link` the connection, `active` and `last`
the claim to the voice; `owed` is history. `_publish` has no await and is one step.
EventFeed is the promise: a reader gets the events it wants in order, or is cut
off when one that matters finds no room (survey events may be lost). Two sockets
of two pages, queues of one, two events, one fault. Fairness: a sender and an
endpoint that can go on do. Left out: the hello, errors and acknowledgements.

### VoiceQueue

`tab` is the VoiceQueue object with its watchdog and the engine's queue, its
posted and not yet dispatched events among it; the Web Speech API is external: it
may drop an utterance, never start it or never end it. Three callouts, a queue of
two, three arrivals, one fault. Fairness: the tab's loop dispatches, timers fire,
the list of voices comes. Left out: Test voice's retry timer and the forgetting
of ids.

### LapProcessor, SessionBests

LapProcessor's `proc` is the processor (`_current_lap`, the buffer, the salvage
held, the last and best times the last packet vouched for), `rows` and `row` what
the service makes of it; `game`, `drive`, `driven` are the console and the truth
the rows are measured against, `lookalikes` the laps given up that are as long as
a time GT7 reports, which the code takes for driven. The console is external, and
some of what it may do is assumed: it gives up a lap and sets out again in ways a
packet shows, a stop looks like another outing unless the salvage was released,
and not every packet of a stop is lost; a menu that blanks the last time does so
only where the best vouches for it. Four laps in two cars, one packet lost, one
refused session. SessionBests has the span guard, the rows, the session's best and
the reference with a step per await, rulings that wait for the lock, and a refused
write; laps of half the circuit, the circuit and half as long again, a longer one
never the faster, a window of three, four laps, two sessions. Left out: a lap
deleted while its session is driven.

### Rejudge

`bundle`, `label`, `rows` are the disk, `due`, `lock`, `pc`, `job`, `pass` the
worker and the request behind Re-check laps, `live` the lap the recorder is
saving, naming or re-judging the session of, `track` its `track_name`, `untold` a
change that `changed` has not been told of, `search` the request that names
history (`identify_sessions`); `late` and `cut` are history that says why a lap
may be stale. `RecorderCut` is the end of the recorder's step at any await, by a
stop or switch of the source or by an error that `_consume_loop` logs;
`RestorePauses` cuts it off too and then flushes; `SearchFails` is an error on a
later session than one already named. Whoever names a session by hand or by search
writes the row and tells the recorder in one step. One circuit, one write, two
laps, two sessions, two clicks (a circuit named by hand, a search, a re-check) and
one fault (a failed pass, a cut-off recorder or search, a restore, a restart).
With two faults it passes as well (1 334 508 states), with two writes and one
click (538 557), with two writes, one click and two faults (1 272 269), and with
two circuits, one lap and one session (834 570). Fairness: both runners, a settle
time that ends, a search, a restore and a lap that go on.

### SurveyBundles

`store` the bundles of each installation, `live` the survey in progress, `logs` what
is left of those that are over, `copy` a document on its way. Every write holds
`WRITE_LOCK` and is one step. A vote is [n, last]: how many runs of an installation
read a place, and the ordinal of the latest. `seen` and `flaws` are history: the
runs a document should know, and what has kept a count from following; a count is
exact where there are no flaws and never too high where documents have merely
grown apart. Also passed: three surveys with two events (536 933 states), two
surveys, one copy, two events (1 086 406), three surveys, one copy, one event
(1 534 577). Left out: geometry, authored corners, formats before version 4.

### Backups, Upgrades, UpdateOffer

Backups: `disk` and `lock` the claim on the disk and the backups' lock with those
who wait, `job` each request, `made`, `current`, `orphan` the snapshots, the one on
offer and the cancelled request whose copy goes on, `up`, `waiting`, `staged` the
uploads, the one that waits to be applied, the unpacked database. Four requests of
any kind, cancelled anywhere. Fairness: the locks pass to the next, a job's own
steps. Upgrades: `stage` how far a start has come, `db` the file, `copies` and
`partial` the folders under backups/, `rivals` the copies whose names come after the
last one made (history); three builds, one copy kept, kills and
failures anywhere. UpdateOffer: `result`, `next`, `asking` the checker (which
has the answer while `stored` and the other rows are still being written, and wakes
the updater only then: `Answered`, `CheckSaved`), `at`, `state`,
`tag` the updater, `onQuit`, `request`, `failed`, `folders` the files it shares with the
supervisor; two releases, one a candidate, three changes of settings, two
setbacks. Left out: the answer that a restored database brings with it. Fairness:
the checker and the updater, the supervisor taking a request, an installer, a day
that passes.

### EngineerReference, PacketCalls, LapCalls, SectorTimes

EngineerReference: `eng` the manager (mode, history, reference with its corners and
sector times, the chase), `lock` at which await the holder of `session_lock` stands,
`asked` and `task` the lap being looked up; the processor is an environment that may
revise verdicts with each lap. Larger instances passed: one car, three times, a
history of three (2 240 211 states); two cars, two laps, two picks, two events
(6 730 266). CalloutGate is `_emit`: category, cooldown, severity and dedupe key.
PacketCalls has the detectors that watch every packet, the watcher of positions
and the gate; a behaviour is about one detector (`topic`), since their keys are
apart, and a temperature or a fuel range is a level. LapCalls has what is said as
a lap ends, with the history the manager keeps; a lap is handed over before the
manager sees the next one's first packet, a salvaged one after; of its mistakes it
keeps how many it has at each of two places, and the detector counts them over the
last three laps and speaks of the place that has most. SectorTimes has
the tracker that times sectors and the replay of the reference through it, on a
line of cells. Left out: wording, corner-by-corner coaching, the formatter.

## Deviations found while modelling

Each is written as a property of its module, kept beside those that hold, and TLC
finds a behaviour that violates it with the constants given; no run states them.

| Property | What the code does | Instance |
|---|---|---|
| SessionsSync `RulingReachesServer` | `lap_changed` (sync/sessions.py:299) queues a lap again if it is synced and not queued; the lap in flight is queued and not synced | two drives, two laps, one ruling, queue 1 |
| `NoForeignLap` | `DELETE /api/laps/{id}` does not tell the adapter and the table reuses the id | two drives, two laps, one disturbance |
| `NotTakenIsTrue` | an unknown capability reads as "takes none" (sync/sessions.py:637) | the same |
| `SyncedMeansHeld`, two workers | a cancelled worker's `finally: self._task = None` (:485) clears its successor's | one drive, two laps, two workers |
| `Delivered`, full queue | `list.remove` of a lap the cap dropped ends the worker (:560) | one drive, two laps, queue 1 |
| TracksSync `NeverMidRun` | a change that meets a failing upload goes up before its settle time | one bundle, two upsets |
| `NotedWhereTaken` | `_apply_sync` sets the address, awaits its row and then resets (api/admin.py:361); what a worker posts to the new server meanwhile is noted as accepted by the old one (sync/tracks.py:328), in memory and in the file if its answer comes before the reset | as in the run; `astray`, set aside by name |
| LiveSync `MetaTold`, `OneStream`, `LastWord` | the address of a connection being opened carries the old circuit and nothing is marked for sending (sync/live.py:168) | as in the run |
| DatabaseSwap `ProducerInReach`, two switches | `switch_source` awaits between stop and the new object (service.py:503) | two switching requests, three sources |
| `HeldLapSaved` | `source.stop()` cancels the consumer while the lap it has just taken is judged or saved | as in the run |
| `RecordsOfThisDatabase` | a crash after the renames leaves the adapters' records of the old database (service.py:1626) | sync only, one crash |
| ClientStreams `ClaimKept` | a late `unregister` of a page's old socket takes the claim it has got back (service.py:1171) | one page, queue 2, three events, two faults |
| VoiceQueue `NeverWedged`, `SaidOnce` | the start of a superseded utterance replaces the watchdog of the next (speech.ts:326) | as in the run |
| SessionBests `RowsAlwaysFollow` | the change of a verdict is told once, with the lap that brought it; if that write fails the row keeps the old one (service.py:725) | three laps |
| LapProcessor `SessionPerOuting`, refused session | a `create_session` that raises leaves laps of the new outing in the old session (service.py:657) | three laps |
| LapProcessor `OnlyWhole` | a lap given up that is as long as the last or the best GT7 reports is salvaged as driven (`_salvage_candidates`, processing/laps.py:1003) | as in the run; `lookalikes`, set aside by name |
| Rejudge `late`, recorder and search cut off | a stop, switch or restore cancels the consumer, and `_consume_loop` swallows an error (telemetry/listener.py:239, :450), inside the naming or the backfill of a session (service.py:957): its laps stay unjudged and nothing is queued, or `track_name` is set and the session's row is not; `identify_sessions` queues only after its whole loop (api/tracks.py:463), so an error on a later session leaves those named before it unjudged | in the run, set aside by name |
| Rejudge `late`, `cut` | `POST /api/tracks` re-judges nothing; a lap judged by a bundle replaced meanwhile keeps that verdict; a pass that has listed a lap whose circuit `POST /api/tracks` then changes writes the old circuit's verdict (rejudge.py:198) | in the run but for the last, which takes two circuits; set aside by name |
| SurveyBundles `NeverInflated` | a reading discarded before it was saved leaves two ordinals, and the next autosave counts a run that never was (track_bundle.py:373) | as in the run |
| Backups `AppliesWhatIsThere`, `UnwantedGoes`, `AllIsJudged`, `NeverQueues`, `LinkDelivers` | a restore awaits between finding its upload and applying it; a delete during a failing restore is forgotten; an error after the data part leaves circuits un-judged; a claim refused "at once" may queue; a backup may be discarded between its link and the first chunk | five requests |
| Upgrades `AlwaysWayBack`, `EachItsOwn` | pruning goes by name, and a clock that went back makes the newest copy the oldest: the copy just made is pruned at once if as many as are kept are named later (`rivals`), and the migration runs with no copy of the database it changes | keep 1; keep 3 |
| UpdateOffer `QuitNeverLate` | the checker has its answer before four awaited writes and wakes the updater after them (updates.py:226): a Quit meanwhile installs the release that is no longer offered | as in the run |
| UpdateOffer `TriesTheNextDay` | a failed check may be put off by settings changed on the way (updates.py:10) | two changes |
| Supervisor | after Quit from the dashboard a slow start may start a child; a child that comes up does not reset the crash count (supervisor.py:291 "in a row"); with a Setup for one user both installers can run (`OneInstaller` excepts it); a wedged child that outlives the app on POSIX is killed by nobody | read from traces |
| EngineerReference `ReferenceCounts`, `pending` | `_reference_lap` numbers the lap that waits to replace the reference, not the one compared with (race_engineer/manager.py:496): with voice off a lap is ruled in, then the reference ruled out, and the excluded lap stays the reference, although "an excluded reference gives way to the fastest lap still counting" (:459) | three rulings; set aside by name |
| EngineerReference `missed`, `torn` | `_reflag` clears the reference and not the one to come; a verdict revised while voice is off is never told; a cancelled `refresh_reference` leaves the old corners | in the run, set aside by name |
| PacketCalls `HeardAtOnce`, `PositionIsKnown`, `FinalLapAlways` | a second alarm may wait out a warning's cooldown; a change of position and back leaves the driver with the wrong one; a race restarted while recording is off has no final lap | hold 1, no upsets |
| LapCalls, the second habit | only the place with the most mistakes is considered, and if it was raised a lap ago nothing is said (race_engineer/detectors/coaching.py:169): a second mistake that lasts as long is never told of while the first does | read from the code; `HabitIsTold` promises the one that stands out |
| LapCalls `ShortageIsReal`, `NoFalseSlump`, `SlumpOfThisSession` | the lap just ended is counted among those to come (fuel.py:115); a slump of laps ruled out with the very lap, or over a session not heard from its start | four steps; two upsets |

## Proofs

`SyncProofs` begins with `TypeCorrect == Spec => []TypeOK`. `TypeOK` is
inductive as it stands: it says that a queue holds no lap twice and that `_task`
names a worker that is alive and not cancelled, and both are needed by the steps
that preserve it (`Without` returns a queue with no doubles only from one with
none; a worker that ends clears `_task`). It first proves what the helpers
return, then one lemma per action, then the induction.

Its next theorem is `NothingLost == Spec => []CrashLosesNothing`. By
itself this is not inductive: `session_started` puts a fresh record into the dict
without writing the file, which is harmless only if the file holds nothing under
that id. The strengthening is `Fresh`: a session that has not been opened has no
record in memory or in the file, and no worker holds one for it. Each action
either writes the file with the records it leaves, or leaves records and file
alone (`Durable`), except `SessionStarted`, whose case uses `Fresh`, and the three
that read the file back.

Then come `SyncedIsHeld`, `CircuitIsNamed` and `OneByOne`, about
what the record believes the service holds. Neither property is inductive: a record
changes when an answer is taken in, long after the request was sent. The invariant
says of the records in memory and in the file that what they claim is so (`Sound`:
they name sessions of theirs, owe a circuit only once they have one, and queue and
note only laps there have been), and of a request on its way or answered that it is
still about what the record says (`Errand`: it is for the session the record names,
a lap's document bears the lap's number, the totals of an ending carry the circuit
exactly if the record has it, and what was answered with a success is held at its
target). What the service and the rows hold only grows, but for the deletions the
claims except (`Grows`), so each action has to answer only for the record and the
requests it touches. The first two theorems have a hypothesis, `[]OneAtWork`: at
most one worker that is not cancelled is at work. The code does not guarantee it.
A cancelled worker that unwinds clears `_task` (sessions.py:485) even when it names
the successor; the next kick then starts a second worker beside it, both open a
session, and the laps of one are noted as synced under the other (see Deviations).
`OneByOne` shows that this is the only way: if the unwinding of a cancelled worker
never changes `_task` (`UnwindsAlone`), `OneAtWork` holds. The run `sync_safety` has
one worker, where the hypothesis is trivially met.

`ToldInOrder` is `DriveInOrder`, under a hypothesis of its own, `[]OneUnderWay`: at
most one request is under way, those of cancelled workers included. Without it a
cancelled request may be taken in after its successor has sent what comes later:
the code drops a lap at the cap or on a refusal and goes on to the next, and nothing
calls back what is already on the wire. With the one worker of `sync_safety` the
hypothesis is trivially met. The invariant follows a lap from the row to the service:

- rows number the laps of a session upwards (`Ascending`), and what the service has
  of a drive was driven, its totals only once the drive is over (`Heard`);
- every record, in memory and in the file, is in order (`InLine`): a lap the service
  has not got is queued behind smaller ones only, and the service has none later and
  no totals; a lap noted as synced it has got; once the drive is over the totals are
  owed or have arrived. In the file too, because a crash sends on from there;
- a request under way is timely for both and its document says what the rows say,
  and one answered with a success has arrived (`Way`);
- while the file is still another server's, no record in memory names a session of
  the new one (`Afresh`): otherwise a crash could bring back a record the service is
  ahead of.

Every action but the service's own leaves the rows and the service as calm as those
facts need (`Calm`), so each answers only for the record and the request it touches.
TLC found the invariant kept with one worker, and with two under the hypothesis,
before it was proved.

The last theorem of `SyncProofs` is `NotedIsTaken`, the tracks adapter's
`SyncedIsTaken`. The invariant says it of the notes in memory and of those in the
file, each for the server it is about (`NotesSound`), and of each upload what it
has sent, where, and that an answer of success means the service took it
(`PushSound`). A coroutine that was cancelled, or whose record was replaced by a
reset, no longer owns what it writes to: after the reset the answer of one server is
never noted under the other. Before it, an upload that still owns its record went
where the records are about or is in `astray`, and its note, in memory and in the
file, is excepted with it. Here any number of workers may be alive at once.

`SupervisorProofs` ends in `TypeCorrect`, `QuitWaits`, `InstalledOnce` and
`StartsNothingAfter`. The invariant adds to the type what the three threads know
of each other: the install lock is held exactly by the one who is in it
(`LockHeld`), a stop has been told to the child that may be up (`Told`), the
supervisor's thread has come down before the app lets go of the instance lock
(`WoundDown`), and the two ways to install never both have their file (`NotBoth`).

`DatabaseSwapProofs` ends in `TypeCorrect`, `NobodyHasTheFiles`, `NoLapIsLost`,
`OneSource` and the refinement `SwapImplements == Spec => SwapIsAtomic`. The
invariant adds to the type what the swap has behind it at each phase (`Stilled`:
requests gone, then background tasks, then database sessions), that who is not at
work holds no id (`Forgetful`), and how the files stand between the renames
(`Staged`: no file under the name only between the two; the one to come is new to
everyone and not driven in until the recorder is reset; the one before is kept).
`LapsKept` needs `Staged`, or the put-back could take a name a lap was saved under;
the refinement needs all three. It maps what is in use to the file under the name,
or, from the first rename to the reset, to the one kept last: the renames are then
stutters, the reset and a crash between the renames are the abstract replacement,
at which `Stilled` and `Forgetful` leave nobody an id, and every other step learns
ids, drops some or stutters. `OneSource` has a hypothesis, that one request at a
time switches the source: with two at once a source may be left running out of
reach (see Deviations), and what holds then is not `OneProducer`.

`BrowserProofs` has `TypeCorrect`, `NothingSkipped` and the refinement
`StreamsImplement == Spec => FeedKept`. Nothing in `EventFeed` knows of queues: the
invariant `Kept` ties, socket by socket, the history `owed` to what the program
has (`owed = sending \o queue`), a client in `_clients` to an endpoint that
receives, and one that is out to an empty record that wants everything again. With
it the return of `send_text` is the abstract delivery of the first event owed, a
drop is the abstract cut, and every publication is one step for all sockets, since
`_publish` has no await; a publication while a socket leaves (`Left`) is one too,
because that socket is out by then. The events in flight at a lost link count as
delivered: the server cannot tell. For the tab it ends in
`WhatIsSpokenIsAnswered`: of every callout ever handed to the engine, it is the one
being spoken or among the answered (`Told`). Each operation of the queue is a
function of the tab, so there is one lemma for each (`CancelledTold`, `PumpedTold`,
`FinishedTold`, ...) and the actions combine them; the engine is free to do
anything, since only the tab's own steps answer.

`UpkeepProofs` has `TypeCorrect`, `NeverTwoFillers` and `NoFileIsLeft` of the
backups. `OneFiller` is not inductive: the invariant says of every request past
its wait that it holds the claim (`LocksHeld`), of the waiting upload that nobody
applies it unless a restore that has the disk does (`Uploads`), and of every
snapshot how it stands to the downloads that read it (`Fits`: their number is the
backup's count, and a snapshot nobody offers and somebody reads is marked to go
with the last of them). Nothing is needed of the order in which a lock serves its
queue, so the proofs say nothing of it: that every wait ends is `EachEnds`, for
TLC. The hypothesis `Nobody` is that 0, which stands for no request, is none. Of
the upgrades it has `MigrationHasAWayBack` (`WayBack`). Copies are ordered and
pruned by name, so the proof is about a finite set under a total order: what is
pruned has at least as many copies after it as are kept, so that the copy just
made is there unless so many were named later (`rivals`), whatever its contents.
That a name is free for the new folder is a pigeonhole: one more number than there
are folders of that second and revision. Of the update on offer it has
`QuitInstallsWhatIsOffered`: the invariant `OfferSound` says, place by place in
the updater's loop, what `state`, `on-quit.json` and the folders have to do with
each other, and that releases come out in the order of their versions, so that the
highest published is what the checker answers. While an answer is being saved
nothing is claimed of the offer, only of what on-quit.json names; the wake that
ends the save makes the updater look again before it rests.

`RecordingProofs` ends in `RowsSayTheVerdicts` (`VerdictsHold`), the lap saved, the
rulings and the awaits between them. A row need not say what the processor says
while rulings wait for the lock: it says what the last of those that are about this
session and this lap says, or the processor if there is none (`Said`), and this is
inductive (`BestsSound`) because the queue is served in order. The second half is
arithmetic and counting: the yardstick is the median of the recent spans, for
which the module proves what the k-th smallest of a finite set of numbers is
(`Smallest`, a least element, is the induction it needs), and that a span which
more than half of the window have is the median (`CircuitIsYardstick`). Two
assumptions on the spans come from there: at least two laps before the median
counts, and a short lap short by more than the guard's tolerance, since what lies
between is the guard's to decide and either answer is right. Writing the model so
that it could be proved replaced its sorted sequences by counts.

`EngineerProofs` begins with `ReferenceIsSound` (`ReferenceSound`). The manager is a
record and each of its operations a function of it, so the invariant is a
predicate of one manager, with the session, car, circuit and laps it is about
(`Sound`: its laps are the session's with their times and verdicts; a chase is of
a lap of another session or a stored one on this circuit and car; what is chased
is no slower than the floor and any lap that counts; what is numbered, what is to
come and what is compared with are the same lap, or the old one waits to be
replaced; splits and corners are the reference's), and there is one lemma for each
operation, proved once and used by every handler that calls it. In between, the
manager and the processor disagree: a lap is handed over at one await and its
verdict at the next. `EngineerSound` therefore says, for each place where the
holder of `session_lock` can stand, what is not yet so (`InStep`). The attempt
changed the property: TLC passed an instance too small to show that an excluded
lap stays the reference while voice is off (see Deviations).

Of what the engineer says it has `WhatIsCriticalIsHeard` (`CriticalIsHeard`),
`RaceIsCalledInOrder` (`RaceCallsInOrder`), `StrategyIsKnown` (`PlanIsKnown`) and
`SectorsAreTold` (`SectorsAddUp`). Each relates what a detector believes it said to
what the driver heard, through the gate, which may refuse any of it. The gate is a
fold over the requests of a packet, which are one or two, so the proofs unfold it
(`LapJudgedOne`, `LapJudgedTwo`, ...) and prove of it only that what it let through
is what it remembers. The invariants are `CallsSound` (what is critical was said,
or the gate's memory of it is younger than a cooldown; no race call is known that
was not due; a position run counts the readings since the last change),
`PlanSound` (what the fuel detector keeps is what the driver was told unless a call
was excused, and no open pit window is known untold) and `SectorsSound` (a tracker
that is of this lap is at the sector after the last one told and begins it where
that one ended; one set up in the middle may only lag behind, and what it finds
again is told already). The last needs that a car put elsewhere on the track is
farther away than the tracker accepts (`SectorsAssumption`): a jump shorter than
MAX_LIVE_SAMPLE_DISTANCE_M looks like driving.

`RejudgeProofs` ends in `NobodyForgotten` and `ReCheckFinishesIt`.
`VerdictsFollow` speaks of rest only; the invariant says at every step who is
going to see to each lap that has not its bundle's verdict (`Minds`): a pass asked
for or not yet at the bundle, one that read the bundle as it is and has the lap
before it with a verdict to correct, the recorder's backfill likewise, the search
that named its session and is to ask for a pass (`Named`), or, if the circuit was
given up (`cut`, or a restore that has not told its circuits yet), nobody, unless
a pass that is past the lap is under way. What a cut drops has to be in `late` by
that step: `Abandoned` and `Unheard` cover what only the recorder or the search
saw to. From a restore's pause no request is about, and from the pause's end no
lap (`Alone`). Two facts make it inductive. A pass by a bundle that has been
replaced is followed by another (`Outdated`), so what it writes wrong is written
again. And what was left behind before a pass has its verdict or is before it
(`Redone`): only the session being driven has another writer. From the same
invariant a pass that ends has healed what it listed. The attempt changed the
model: a lap whose session is given another circuit under a pass gets the old
circuit's verdict, which one circuit cannot show (see Deviations), and `late` now
notes it.

The theorems assume what the modules assume of their constants, which TLC checks
of the instances, and the hypotheses named above. The assumptions are natural
bounds (zero included, unless the code has no meaning for it: a queue of none, a
backup that keeps no copy), values that stand for nobody being nobody, versions
and revisions that are numbers, the home server among the servers, and for
`RecordingProofs` the spans as said. Sets of workers, requests, sockets, servers,
laps, kinds are any sets; TLC's symmetric or small ones are instances.

Only model-checked, and why:

- Liveness under fairness (`Delivered`, `GoesUp`, `Streams`, `Resumes`, `QuitEnds`,
  `Reaches`, `Moves`, `EachEnds`, `GetsReady`, `ComesRight`): the prover has no rule for
  it and no ENABLED.
- What folds over data of any length compute: `Census` (the bundles found twice and
  the corners counted) and `HistoryIsTold` (means over windows of selected laps).
- `RecordedAsDriven` and `SessionPerOuting`, about whole drives, which need the
  recorder, the processor and the rows in one invariant.

## Not modelled

Numbers and conversions: packet decryption and decoding, lap metrics, geometry
and the compiling of tracks, analysis, strategy, the simulator, connection
strings. Pure I/O: HTTP building, archives, mDNS, webhooks, the wire of the
update. The wording of callouts and corner-by-corner coaching. The frontend but
for the speech queue and the browser's end of the socket: it caches what the
server sends. Each is listed in PROJECT.json with its reason.
