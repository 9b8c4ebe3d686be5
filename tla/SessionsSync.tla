---------------------------- MODULE SessionsSync ----------------------------
(***************************************************************************)
(* The `sessions` adapter of the sync client (backend/app/sync/sessions.py *)
(* with the halves of sync/client.py and service.py it interacts with).    *)
(*                                                                         *)
(* Three parties share one event loop and a database:                      *)
(*   - the recorder, which opens and ends sessions, saves laps and takes   *)
(*     a person's rulings and deletions;                                   *)
(*   - the adapter's worker, a task that sends one request at a time and   *)
(*     reads the world again after every await;                            *)
(*   - the person (or the logger's start and stop) who switches sync on    *)
(*     and off, changes the connection and presses the buttons.            *)
(* The sync service itself is external: it is modelled by the answers the  *)
(* adapter's code sorts (sync/transport.py, classify).                     *)
(*                                                                         *)
(* An await is a step boundary.  A request is three steps: it leaves the   *)
(* worker, the service deals with it, its answer reaches the worker; any   *)
(* other action may happen in between.                                     *)
(***************************************************************************)
EXTENDS Integers, FiniteSets, SequencesExt

CONSTANTS
    MaxSession,   \* bound: local sessions opened (sessions.id, never reused)
    MaxLap,       \* bound: laps finished over all sessions
    MaxRemote,    \* bound: sessions the service opens
    MaxRulings,   \* bound: verdicts changed by hand
    MaxQueue,     \* MAX_QUEUED_LAPS
    KeepDone,     \* KEEP_DONE
    MaxChaos,     \* bound: disturbances of any kind in a behaviour
    Workers,      \* identities for worker tasks alive at once
    Urls,         \* service addresses a person may configure
    HomeUrl,      \* the one configured first
    ServerHints   \* what the service's capabilities name for `sessions`

ASSUME BoundsAssumption ==
    /\ MaxSession \in Nat /\ MaxLap \in Nat /\ MaxRemote \in Nat
    /\ MaxRulings \in Nat /\ MaxQueue \in Nat /\ KeepDone \in Nat
    /\ MaxChaos \in Nat
ASSUME ServiceAssumption ==
    /\ HomeUrl \in Urls
    /\ ServerHints \subseteq {"track_on_patch", "analysis_version"}
ASSUME WorkersAssumption == Workers # {} /\ 0 \notin Workers

VARIABLES
    \* the database and the recorder
    rows,      \* lap id -> the lap stored under it
    finished,  \* laps finished so far: the next lap is finished + 1
    rulings,   \* verdicts changed by hand so far
    ruled,     \* <<lap id, session>> ruled and committed, lap_changed still due
    opened,    \* sessions opened so far: the newest local id
    open,      \* TelemetryService.session_id, 0 for None
    circuit,   \* the open session's circuit has been identified
    \* the adapter
    rec,       \* _sessions: local id -> its record
    recUrl,    \* _state_server
    hold,      \* _not_before lies in the future
    task,      \* _task: a worker, or 0 for None
    job,       \* what each worker is doing
    cancelled, \* workers cancelled and not yet unwound
    disk,      \* data/sync-sessions.json
    \* the client
    on,        \* the type's toggle under the master switch
    caps,      \* capabilities: not known, listing the type, or without it
    url,       \* settings.sync_url
    resetting, \* the connection settings changed, reset_connection still due
    bringUp,   \* _bring_up: none, asking for capabilities, about to act
    \* the service
    offers,    \* it accepts the sessions type at the moment
    remote,    \* remote session id -> what the service holds
    \* history and bounds
    dropped,   \* laps the queue cap dropped
    chaos      \* disturbances so far

dbVars      == <<rows, finished, rulings, ruled, opened, open, circuit>>
workerVars  == <<task, job, cancelled>>
adapterVars == <<rec, recUrl, hold, workerVars, disk, dropped>>
clientVars  == <<on, caps, url, resetting, bringUp>>
serverVars  == <<offers, remote>>
vars == <<dbVars, adapterVars, clientVars, serverVars, chaos>>

Sessions  == 1..MaxSession
LapIds    == 1..MaxLap
RemoteIds == 1..MaxRemote

-----------------------------------------------------------------------------
(* Data.                                                                   *)

\* A lap as the database stores it and export_lap writes it: the session it
\* was driven in, which lap it is, and the ruling its verdict reflects.
Lap   == [session: Sessions, lap: 1..MaxLap, ver: 0..MaxRulings]
NoLap == [session |-> 0, lap |-> 0, ver |-> 0]

Verdicts == {"none", "synced", "rejected"}

\* A queue of lap ids, none of them twice.
Queues == {q \in Seq(LapIds) : IsInjective(q)}

\* SessionSync.  `held` is membership in the dict; the car and the times are
\* data no property reads; official_id and track_name are one circuit.
\* "not_taken" is analysis_status "skipped" with the reason that the server
\* takes no lap analysis.
Record == [held: BOOLEAN, remote: 0..MaxRemote, circuit: BOOLEAN,
           trackPending: BOOLEAN, trackError: BOOLEAN,
           queue: Queues, laps: [LapIds -> Verdicts],
           endPending: BOOLEAN, ended: BOOLEAN, analysisPending: BOOLEAN,
           analysis: {"", "synced", "rejected", "skipped", "not_taken"},
           closed: BOOLEAN]

NoRecord == [held |-> FALSE, remote |-> 0, circuit |-> FALSE,
             trackPending |-> FALSE, trackError |-> FALSE,
             queue |-> <<>>, laps |-> [l \in LapIds |-> "none"],
             endPending |-> FALSE, ended |-> FALSE, analysisPending |-> FALSE,
             analysis |-> "", closed |-> FALSE]
NewRecord == [NoRecord EXCEPT !.held = TRUE]

\* What a worker is doing.  `at` is where its coroutine stands: "new" was
\* spawned and has not run, "ready" is between requests (or waiting out the
\* backoff), "load" awaits the database, "sent" and "answered" await the
\* request.  `own` says the record it holds is still the one in the dict.
Kinds   == {"start", "name", "lap", "end", "analysis"}
Replies == {"ok", "refused", "gone", "type_disabled", "auth", "transient"}
JobFields == [at: {"off", "new", "ready", "load", "sent", "answered"},
              kind: Kinds, session: Sessions \cup {0}, own: BOOLEAN,
              lap: 0..MaxLap, target: 0..MaxRemote, url: Urls, names: BOOLEAN,
              doc: Lap \cup {NoLap}, ver: 0..MaxRulings, reply: Replies]
Job == {j \in JobFields : /\ j.own => j.session # 0
                          /\ j.kind = "lap" => j.lap # 0
                          /\ j.kind = "lap" /\ j.at # "load" => j.doc # NoLap}
NoJob == [at |-> "off", kind |-> "start", session |-> 0, own |-> FALSE,
          lap |-> 0, target |-> 0, url |-> HomeUrl,
          names |-> FALSE, doc |-> NoLap, ver |-> 0, reply |-> "ok"]
Spawned == [NoJob EXCEPT !.at = "new"]
Ready   == [NoJob EXCEPT !.at = "ready"]

\* What the service holds under a remote id.
RemoteSession == [url: Urls, drive: 0..MaxSession, circuit: BOOLEAN,
                  ended: BOOLEAN, laps: SUBSET Lap, analysis: -1..MaxRulings,
                  gone: BOOLEAN]
NoRemote == [url |-> HomeUrl, drive |-> 0, circuit |-> FALSE,
             ended |-> FALSE, laps |-> {}, analysis |-> -1, gone |-> FALSE]

Stored      == {l \in LapIds : rows[l] # NoLap}
StoredOf(s) == {l \in Stored : rows[l].session = s}
\* v is the newest ruling among a session's laps: what its analysis reflects.
Newest(v, s) == /\ \E l \in StoredOf(s) : rows[l].ver = v
                /\ \A l \in StoredOf(s) : rows[l].ver <= v

\* SQLite hands the laps table max(id) + 1: no AUTOINCREMENT on it.
NextLapId(l) == /\ \A k \in Stored : k < l
                /\ l = 1 \/ l - 1 \in Stored

\* list.remove of an element that is in the list once.
Without(q, l) == RemoveAt(q, CHOOSE i \in DOMAIN q : q[i] = l)

-----------------------------------------------------------------------------
(* The client's view of what is on.                                        *)

Active == on /\ caps # "absent"
Hints  == IF caps = "known" THEN ServerHints ELSE {}

Pending(r) == /\ ~r.closed
              /\ r.queue # <<>> \/ r.endPending \/ r.analysisPending

\* The circuit is owed and can go on its own, ahead of the totals.
NamesNow(r) == /\ r.trackPending /\ r.remote # 0
               /\ ~r.closed /\ ~r.endPending
               /\ "track_on_patch" \in Hints

Waiting == {s \in Sessions : rec[s].held /\ (Pending(rec[s]) \/ NamesNow(rec[s]))}
NextRec(s) == s \in Waiting /\ \A t \in Waiting : s <= t

\* _circuit: nothing once the service has refused it.
NamesCircuit(r) == r.circuit /\ ~r.trackError

Write(r) == disk' = [url |-> recUrl, recs |-> r]

\* _kick on the jobs `j`: spawn a worker unless `_task` holds one.
Kick(j) ==
    IF Active /\ task = 0
    THEN \E w \in Workers : /\ j[w].at = "off"
                            /\ task' = w
                            /\ job' = [j EXCEPT ![w] = Spawned]
                            /\ UNCHANGED cancelled
    ELSE job' = j /\ UNCHANGED <<task, cancelled>>

\* halt on the jobs `j`: the task is cancelled and forgotten at once; it
\* unwinds at a later turn of the loop.
Halt(j) == /\ job' = j
           /\ task' = 0
           /\ cancelled' = IF task = 0 THEN cancelled ELSE cancelled \cup {task}

\* The jobs once the dict no longer holds the records of the sessions S.
Disowned(S) == [w \in Workers |->
                  IF job[w].session \in S THEN [job[w] EXCEPT !.own = FALSE]
                                          ELSE job[w]]

Disturb == chaos < MaxChaos /\ chaos' = chaos + 1

Init ==
    /\ rows = [l \in LapIds |-> NoLap]
    /\ finished = 0 /\ rulings = 0 /\ ruled = {}
    /\ opened = 0 /\ open = 0 /\ circuit = FALSE
    /\ rec = [s \in Sessions |-> NoRecord]
    /\ recUrl = HomeUrl
    /\ hold = FALSE
    /\ task = 0 /\ job = [w \in Workers |-> NoJob] /\ cancelled = {}
    /\ disk = [url |-> HomeUrl, recs |-> [s \in Sessions |-> NoRecord]]
    /\ on \in BOOLEAN
    /\ caps = "unknown" /\ url = HomeUrl /\ resetting = FALSE
    /\ bringUp = IF on THEN "asking" ELSE "none"
    /\ offers = TRUE
    /\ remote = [r \in RemoteIds |-> NoRemote]
    /\ dropped = {} /\ chaos = 0

-----------------------------------------------------------------------------
(* The queue cap.                                                          *)

\* _trim_queue: the oldest queued laps go, session by session in id order,
\* until MaxQueue are left.  A place is dropped when at least MaxQueue
\* places lie behind it.
Places(rs)        == {p \in Sessions \X LapIds : p[2] <= Len(rs[p[1]].queue)}
Behind(rs, s, i)  == {p \in Places(rs) : p[1] > s \/ (p[1] = s /\ p[2] > i)}
Overflow(rs, s)   == {i \in DOMAIN rs[s].queue : Cardinality(Behind(rs, s, i)) >= MaxQueue}
TrimQueue(rs) ==
    [s \in Sessions |->
        [rs[s] EXCEPT !.queue = SubSeq(@, Cardinality(Overflow(rs, s)) + 1, Len(@))]]
Trimmed(rs) == UNION {{rs[s].queue[i] : i \in Overflow(rs, s)} : s \in Sessions}

-----------------------------------------------------------------------------
(* The recorder.  Each of these runs under session_lock.                   *)

\* SessionsAdapter.session_ended, on the record of s.
EndedRecord(r) == IF r.remote = 0 /\ r.queue = <<>>
                  THEN NoRecord
                  ELSE [r EXCEPT !.endPending = TRUE, !.analysisPending = TRUE,
                                 !.ended = TRUE]

\* _close_previous_session: an empty session is dropped and forgotten, one
\* with laps has its totals and its analysis queued.  The dict that is left.
ClosePrevious ==
    IF open = 0 \/ ~rec[open].held THEN rec
    ELSE IF StoredOf(open) = {} THEN [rec EXCEPT ![open] = NoRecord]
    ELSE IF rec[open].closed THEN rec
    ELSE [rec EXCEPT ![open] = EndedRecord(@)]

\* Whether closing it wrote the state file and kicked the worker.
ClosingWrites ==
    open # 0 /\ rec[open].held /\ (StoredOf(open) = {} \/ ~rec[open].closed)
ClosingKicks == ClosingWrites /\ StoredOf(open) # {}

\* _on_session: the previous session is closed, the next one gets a record.
\* session_started itself does not write the state file.
SessionStarted ==
    /\ opened < MaxSession
    /\ opened' = opened + 1 /\ open' = opened + 1 /\ circuit' = FALSE
    /\ rec' = [ClosePrevious EXCEPT ![opened + 1] = NewRecord]
    /\ IF ClosingWrites THEN Write(ClosePrevious) ELSE UNCHANGED disk
    /\ LET gone == {s \in Sessions : rec[s].held /\ ~ClosePrevious[s].held}
       IN  IF ClosingKicks THEN Kick(Disowned(gone))
                           ELSE job' = Disowned(gone) /\ UNCHANGED <<task, cancelled>>
    /\ UNCHANGED <<rows, finished, rulings, ruled, recUrl, hold, dropped,
                   clientVars, serverVars, chaos>>

\* Mutant of WithLap: the newest lap is sent first.
WithLapInFront(r, l, known) ==
    [r EXCEPT !.circuit = @ \/ known,
              !.queue = IF l \in ToSet(@) THEN @ ELSE <<l>> \o @]

\* lap_saved's bookkeeping on the record: the circuit goes on the summary
\* while there is one to come, and is owed once the summary went without it.
WithLap(r, l, known) ==
    LET late == r.remote # 0 /\ ~r.trackError /\ known /\ ~r.circuit
    IN  [r EXCEPT !.circuit = IF r.remote = 0 \/ late THEN @ \/ known ELSE @,
                  !.trackPending = @ \/ late,
                  !.queue = IF l \in ToSet(@) THEN @ ELSE Append(@, l)]

\* _on_lap: the row is saved, the circuit may be identified from it, the lap
\* is handed to the adapter, which writes its file before anything is sent.
LapSaved(l) ==
    /\ open # 0 /\ finished < MaxLap /\ NextLapId(l)
    /\ finished' = finished + 1
    /\ rows' = [rows EXCEPT ![l] = [session |-> open, lap |-> finished + 1, ver |-> 0]]
    /\ circuit' \in {circuit, TRUE}
    /\ LET held  == IF rec[open].held THEN rec[open] ELSE NewRecord
           taken == [rec EXCEPT ![open] = WithLap(held, l, circuit')]
       IN  IF rec[open].closed
           THEN UNCHANGED <<rec, dropped, disk, workerVars>>
           ELSE /\ rec' = TrimQueue(taken)
                /\ dropped' = dropped \cup Trimmed(taken)
                /\ Write(rec')
                /\ Kick(job)
    /\ UNCHANGED <<rulings, ruled, opened, open, recUrl, hold,
                   clientVars, serverVars, chaos>>

\* The lap's row is updated (set_lap_best_override) ...
RulingCommitted(l) ==
    /\ l \in Stored /\ rulings < MaxRulings
    /\ rulings' = rulings + 1
    /\ rows' = [rows EXCEPT ![l].ver = rulings + 1]
    /\ ruled' = ruled \cup {<<l, rows[l].session>>}
    /\ UNCHANGED <<finished, opened, open, circuit,
                   adapterVars, clientVars, serverVars, chaos>>

\* ... and once apply_best_override has the session lock, lap_changed: the
\* lap is queued again if the service was said to hold it.
LapChanged(l, s) ==
    /\ <<l, s>> \in ruled
    /\ ruled' = ruled \ {<<l, s>>}
    /\ LET r == rec[s]
           q == IF r.laps[l] = "synced" /\ l \notin ToSet(r.queue)
                THEN Append(r.queue, l) ELSE r.queue
           n == [r EXCEPT !.analysisPending = @ \/ (r.ended /\ ~r.endPending),
                          !.queue = q]
       IN  IF ~r.held \/ r.closed \/ r.remote = 0
           THEN UNCHANGED <<rec, disk, workerVars>>
           ELSE /\ rec' = [rec EXCEPT ![s] = n]
                /\ IF Pending(n) THEN Write(rec') /\ Kick(job)
                                 ELSE UNCHANGED <<disk, workerVars>>
    /\ UNCHANGED <<rows, finished, rulings, opened, open, circuit,
                   recUrl, hold, dropped, clientVars, serverVars, chaos>>

\* DELETE /api/laps/{id}: the adapter is not told.
LapDeleted(l) ==
    /\ l \in Stored /\ Disturb
    /\ rows' = [rows EXCEPT ![l] = NoLap]
    /\ UNCHANGED <<finished, rulings, ruled, opened, open, circuit,
                   adapterVars, clientVars, serverVars>>

\* delete_session: the open session only while recording is paused, and then
\* the recorder is reset.  The adapter forgets the record.
SessionDeleted(s) ==
    /\ s <= opened /\ (StoredOf(s) # {} \/ s = open) /\ Disturb
    /\ rows' = [l \in LapIds |-> IF rows[l].session = s THEN NoLap ELSE rows[l]]
    /\ IF rec[s].held THEN rec' = [rec EXCEPT ![s] = NoRecord] /\ Write(rec')
                      ELSE UNCHANGED <<rec, disk>>
    /\ job' = Disowned({s})
    /\ open' = IF s = open THEN 0 ELSE open
    /\ circuit' = IF s = open THEN FALSE ELSE circuit
    /\ UNCHANGED <<finished, rulings, ruled, opened, recUrl, hold, task,
                   cancelled, dropped, clientVars, serverVars>>

\* clear_all_sessions: every row and every record; the recorder starts over.
AllCleared ==
    /\ opened > 0 /\ Disturb
    /\ rows' = [l \in LapIds |-> NoLap]
    /\ IF \E s \in Sessions : rec[s].held
       THEN rec' = [s \in Sessions |-> NoRecord] /\ Write(rec')
       ELSE UNCHANGED <<rec, disk>>
    /\ job' = Disowned(Sessions)
    /\ open' = 0 /\ circuit' = FALSE
    /\ UNCHANGED <<finished, rulings, ruled, opened, recUrl, hold, task,
                   cancelled, dropped, clientVars, serverVars>>

-----------------------------------------------------------------------------
(* The worker: _run, one turn of its loop at a time.                       *)

\* The coroutine ends; its `finally` clears `_task`, whoever that names.
Ends(w) == job' = [job EXCEPT ![w] = NoJob] /\ task' = 0

Turn(w) == job[w].at \in {"new", "ready"} /\ w \notin cancelled

\* The loop's condition: the type is no longer active.
WorkerStops(w) ==
    /\ Turn(w) /\ ~Active
    /\ Ends(w)
    /\ UNCHANGED <<dbVars, rec, recUrl, hold, cancelled, disk, dropped,
                   clientVars, serverVars, chaos>>

\* Nothing waits: finished records beyond the last KeepDone are pruned.
Done == {s \in Sessions : rec[s].held /\ ~Pending(rec[s]) /\ s # open}
Pruned == [s \in Sessions |->
             IF s \in Done /\ Cardinality({t \in Done : t > s}) >= KeepDone
             THEN NoRecord ELSE rec[s]]
WorkerIdles(w) ==
    /\ Turn(w) /\ Active /\ Waiting = {}
    /\ rec' = Pruned /\ Write(Pruned)
    /\ LET out == {s \in Sessions : rec[s].held /\ ~Pruned[s].held}
       IN  job' = [Disowned(out) EXCEPT ![w] = NoJob]
    /\ task' = 0
    /\ UNCHANGED <<dbVars, recUrl, hold, cancelled, dropped,
                   clientVars, serverVars, chaos>>

Settled(r, status) == [r EXCEPT !.analysisPending = FALSE, !.analysis = status]

\* _push_next: the first record with something to send, and of what it has
\* the first of summary, circuit, laps, totals, analysis.  The summary and
\* the circuit leave at once; the others await the database first.
PushNext(w) ==
    /\ Turn(w) /\ Active /\ ~hold
    /\ \E s \in Sessions :
          /\ NextRec(s)
          /\ LET r == rec[s]
                 begin(at, kind, l) ==
                     /\ job' = [job EXCEPT ![w] =
                                   [Ready EXCEPT !.at = at, !.kind = kind, !.lap = l,
                                                 !.session = s, !.own = TRUE,
                                                 !.target = r.remote, !.url = url,
                                                 !.names = NamesCircuit(r)]]
                     /\ UNCHANGED <<rec, disk>>
             IN  IF r.remote = 0 THEN begin("sent", "start", 0)
                 ELSE IF NamesNow(r) THEN begin("sent", "name", 0)
                 ELSE IF r.queue # <<>> THEN begin("load", "lap", Head(r.queue))
                 ELSE IF r.endPending THEN begin("load", "end", 0)
                 ELSE IF "analysis_version" \in Hints THEN begin("load", "analysis", 0)
                 ELSE /\ rec' = [rec EXCEPT ![s] = Settled(@, "not_taken")]
                      /\ Write(rec')
                      /\ job' = [job EXCEPT ![w] = Ready]
    /\ UNCHANGED <<dbVars, recUrl, hold, task, cancelled, dropped,
                   clientVars, serverVars, chaos>>

Loading(w, kind) == job[w].at = "load" /\ job[w].kind = kind /\ w \notin cancelled
Send(w, j) == job' = [job EXCEPT ![w] = [j EXCEPT !.at = "sent", !.url = url]]

\* What the worker makes of lap l of its record: `verdict` is noted and the
\* lap leaves the queue.  list.remove of a lap the cap has dropped meanwhile
\* raises, and the exception ends the worker.
Resolves(w, l, verdict) ==
    LET s == job[w].session
        r == rec[s]
    IN  IF job[w].own /\ l \notin ToSet(r.queue)
        THEN Ends(w) /\ UNCHANGED <<rec, disk>>
        ELSE /\ rec' = IF job[w].own
                       THEN [rec EXCEPT ![s] = [r EXCEPT !.queue = Without(@, l),
                                                         !.laps[l] = verdict]]
                       ELSE rec
             /\ Write(rec')
             /\ job' = [job EXCEPT ![w] = Ready]
             /\ UNCHANGED task

\* _send_lap once load_lap returned: the document as the row is now, or
\* nothing if the row is gone, or a document over the service's size cap.
LapLoaded(w) ==
    /\ Loading(w, "lap")
    /\ \/ /\ rows[job[w].lap] # NoLap
          /\ Send(w, [job[w] EXCEPT !.doc = rows[job[w].lap]])
          /\ UNCHANGED <<rec, disk, task, chaos>>
       \/ /\ rows[job[w].lap] = NoLap
          /\ Resolves(w, job[w].lap, "none") /\ UNCHANGED chaos
       \/ /\ rows[job[w].lap] # NoLap /\ Disturb
          /\ Resolves(w, job[w].lap, "rejected")
    /\ UNCHANGED <<dbVars, recUrl, hold, cancelled, dropped,
                   clientVars, serverVars>>

\* _end once load_stats returned: the totals carry the circuit as it is now.
TotalsLoaded(w) ==
    /\ Loading(w, "end")
    /\ Send(w, [job[w] EXCEPT !.names = IF job[w].own
                                        THEN NamesCircuit(rec[job[w].session]) ELSE @])
    /\ UNCHANGED <<dbVars, rec, recUrl, hold, task, cancelled, disk, dropped,
                   clientVars, serverVars, chaos>>

\* _send_analysis once load_analysis returned: the document compiled from
\* the laps as they are now; no laps, or a document that cannot be compiled
\* or is too large, settles it.
AnalysisLoaded(w) ==
    /\ Loading(w, "analysis")
    /\ LET s == job[w].session
           settle(status) ==
               /\ rec' = IF job[w].own THEN [rec EXCEPT ![s] = Settled(@, status)] ELSE rec
               /\ Write(rec')
               /\ job' = [job EXCEPT ![w] = Ready]
       IN  \/ /\ \E v \in 0..MaxRulings :
                    Newest(v, s) /\ Send(w, [job[w] EXCEPT !.ver = v])
              /\ UNCHANGED <<rec, disk, chaos>>
           \/ StoredOf(s) = {} /\ settle("skipped") /\ UNCHANGED chaos
           \/ StoredOf(s) # {} /\ Disturb /\ settle("skipped")
           \/ StoredOf(s) # {} /\ Disturb /\ settle("rejected")
    /\ UNCHANGED <<dbVars, recUrl, hold, task, cancelled, dropped,
                   clientVars, serverVars>>

-----------------------------------------------------------------------------
(* The service, as far as the adapter's code can tell its answers apart.   *)

Answers(w, reply, target) ==
    job' = [job EXCEPT ![w].at = "answered", ![w].reply = reply, ![w].target = target]

\* It knows the session a request names.
Knows(j) == j.target # 0 /\ remote[j.target].url = j.url /\ ~remote[j.target].gone

\* A request it takes, and what it then holds; re-posting a lap replaces it,
\* a circuit fills only a session that has none.
Holding(j, r) ==
    CASE j.kind = "start" -> [NoRemote EXCEPT !.url = j.url, !.drive = j.session,
                                              !.circuit = j.names]
      [] j.kind = "name"  -> [r EXCEPT !.circuit = @ \/ j.names]
      [] j.kind = "lap"   -> [r EXCEPT !.laps = {d \in @ : d.lap # j.doc.lap} \cup {j.doc}]
      [] j.kind = "end"   -> [r EXCEPT !.ended = TRUE, !.circuit = @ \/ j.names]
      [] j.kind = "analysis" -> [r EXCEPT !.analysis = j.ver]

FreeRemotes == {r \in RemoteIds : remote[r].drive = 0}

\* The request is taken; the answer arrives, or is lost on its way back.
ServiceTakes(w) ==
    /\ job[w].at = "sent" /\ offers
    /\ \E t \in RemoteIds :
          /\ IF job[w].kind = "start"
             THEN t \in FreeRemotes /\ \A f \in FreeRemotes : t <= f
             ELSE t = job[w].target /\ Knows(job[w])
          /\ remote' = [remote EXCEPT ![t] = Holding(job[w], @)]
          /\ \/ Answers(w, "ok", t) /\ UNCHANGED chaos
             \/ Answers(w, "transient", job[w].target) /\ Disturb
    /\ UNCHANGED <<dbVars, rec, recUrl, hold, task, cancelled, disk, dropped,
                   clientVars, offers>>

\* The request is refused, turned away, or never gets there.
ServiceDeclines(w) ==
    /\ job[w].at = "sent"
    /\ \/ ~offers /\ Answers(w, "type_disabled", job[w].target) /\ UNCHANGED chaos
       \/ /\ job[w].kind # "start" /\ ~Knows(job[w])
          /\ Answers(w, "gone", job[w].target) /\ UNCHANGED chaos
       \/ \E reply \in {"refused", "auth", "transient"} :
             Answers(w, reply, job[w].target) /\ Disturb
    /\ UNCHANGED <<dbVars, rec, recUrl, hold, task, cancelled, disk, dropped,
                   clientVars, serverVars>>

\* The session is deleted in the portal, or past its retention.
SessionExpires(r) ==
    /\ remote[r].drive # 0 /\ ~remote[r].gone /\ Disturb
    /\ remote' = [remote EXCEPT ![r].gone = TRUE]
    /\ UNCHANGED <<dbVars, adapterVars, clientVars, offers>>

\* The service stops or starts accepting the type.
OfferChanges ==
    /\ Disturb
    /\ offers' = ~offers
    /\ UNCHANGED <<dbVars, adapterVars, clientVars, remote>>

-----------------------------------------------------------------------------
(* The answer reaches the worker: the rest of _start, _send_lap, _name,    *)
(* _end, _send_analysis, and _failed.                                      *)

Answered(w, replies) ==
    job[w].at = "answered" /\ w \notin cancelled /\ job[w].reply \in replies

\* Mutant of Records: the state file is left for the next write.
RecordsUnwritten(w, r) ==
    /\ rec' = IF job[w].own THEN [rec EXCEPT ![job[w].session] = r] ELSE rec
    /\ job' = [job EXCEPT ![w] = Ready]
    /\ UNCHANGED disk

\* The worker's record becomes r, if it is still the adapter's, and the
\* state file is written.
Records(w, r) ==
    /\ rec' = IF job[w].own THEN [rec EXCEPT ![job[w].session] = r] ELSE rec
    /\ Write(rec')
    /\ job' = [job EXCEPT ![w] = Ready]

\* Mutant of OpenedAs: nobody looks whether the circuit was named meanwhile.
OpenedBlind(r, remoteId, named) == [r EXCEPT !.remote = remoteId]

\* _start, answered: a lap that named the circuit while the summary was on
\* its way filled the record after the summary was written, so it is owed.
OpenedAs(r, remoteId, named) ==
    [r EXCEPT !.remote = remoteId, !.trackPending = @ \/ (r.circuit /\ ~named)]

Accepted(w) ==
    /\ Answered(w, {"ok"})
    /\ LET j == job[w]
           r == IF j.own THEN rec[j.session] ELSE NoRecord
       IN  CASE j.kind = "start" ->
                  Records(w, OpenedAs(r, j.target, j.names)) /\ UNCHANGED task
             [] j.kind = "name" ->
                  Records(w, [r EXCEPT !.trackPending = FALSE]) /\ UNCHANGED task
             [] j.kind = "lap" -> Resolves(w, j.lap, "synced")
             [] j.kind = "end" ->
                  Records(w, [r EXCEPT !.endPending = FALSE, !.trackPending = FALSE])
                  /\ UNCHANGED task
             [] j.kind = "analysis" ->
                  Records(w, Settled(r, "synced")) /\ UNCHANGED task
    /\ UNCHANGED <<dbVars, recUrl, hold, cancelled, dropped,
                   clientVars, serverVars, chaos>>

\* Mutant of Closed: the session is opened again, with what it is noted to hold.
ClosedReopens(r) == [r EXCEPT !.remote = 0]

\* Refused as a whole: the session is over on the service's side.
Closed(r) == [r EXCEPT !.closed = TRUE, !.queue = <<>>, !.endPending = FALSE]

\* A refusal is about the analysis alone, about the circuit when the request
\* named one and the session was not gone (404), about the lap, or about the
\* session as a whole.
Refused(w) ==
    /\ Answered(w, {"refused", "gone"})
    /\ LET j == job[w]
           r == IF j.own THEN rec[j.session] ELSE NoRecord
           gone == j.reply = "gone"
       IN  IF j.kind = "analysis" THEN Records(w, Settled(r, "rejected"))
           ELSE IF j.kind \in {"name", "end"} /\ j.names /\ ~gone
           THEN Records(w, [r EXCEPT !.trackPending = FALSE, !.trackError = TRUE])
           ELSE IF j.kind = "lap" /\ ~gone
           THEN Records(w, [r EXCEPT !.queue = IF j.lap \in ToSet(@)
                                               THEN Without(@, j.lap) ELSE @,
                                     !.laps[j.lap] = "rejected"])
           ELSE Records(w, Closed(r))
    /\ UNCHANGED <<dbVars, recUrl, hold, task, cancelled, dropped,
                   clientVars, serverVars, chaos>>

\* A bad token or an unreachable service: everything waits.
HeldBack(w) ==
    /\ Answered(w, {"auth", "transient"})
    /\ hold' = TRUE
    /\ job' = [job EXCEPT ![w] = Ready]
    /\ UNCHANGED <<dbVars, rec, recUrl, task, cancelled, disk, dropped,
                   clientVars, serverVars, chaos>>

\* 403 type_disabled: the toggle goes off.
SwitchedOffByService(w) ==
    /\ Answered(w, {"type_disabled"})
    /\ on' = FALSE
    /\ job' = [job EXCEPT ![w] = Ready]
    /\ UNCHANGED <<dbVars, rec, recUrl, hold, task, cancelled, disk, dropped,
                   caps, url, resetting, bringUp, serverVars, chaos>>

\* The cancellation reaches a halted worker: a coroutine that had started
\* runs its `finally`, one that had not never does.
Unwinds(w) ==
    /\ w \in cancelled
    /\ cancelled' = cancelled \ {w}
    /\ job' = [job EXCEPT ![w] = NoJob]
    /\ task' = IF job[w].at = "new" THEN task ELSE 0
    /\ UNCHANGED <<dbVars, rec, recUrl, hold, disk, dropped,
                   clientVars, serverVars, chaos>>

BackoffOver ==
    /\ hold
    /\ hold' = FALSE
    /\ UNCHANGED <<dbVars, rec, recUrl, workerVars, disk, dropped,
                   clientVars, serverVars, chaos>>

-----------------------------------------------------------------------------
(* The client: SyncClient and the Admin settings that drive it.            *)

\* apply, once sync is enabled: a fresh _bring_up, which first asks for the
\* capabilities if they are not known.
Apply(known) == bringUp' = IF known = "unknown" THEN "asking" ELSE "acting"

SwitchedOn ==
    /\ ~on
    /\ on' = TRUE /\ Apply(caps)
    /\ UNCHANGED <<dbVars, adapterVars, caps, url, resetting, serverVars, chaos>>

\* The master switch halts the adapters at once; the type's own toggle goes
\* through _bring_up.
SwitchedOff ==
    /\ on /\ Disturb
    /\ on' = FALSE
    /\ \/ Halt(job) /\ UNCHANGED bringUp
       \/ Apply(caps) /\ UNCHANGED workerVars
    /\ UNCHANGED <<dbVars, rec, recUrl, hold, disk, dropped,
                   caps, url, resetting, serverVars>>

\* check: what the service says it accepts; a type it no longer lists is
\* halted.
Learn(c) ==
    /\ caps' = c
    /\ IF on /\ c = "absent" THEN Halt(job) ELSE UNCHANGED workerVars
Offered == IF offers THEN "known" ELSE "absent"

BringUpAsks ==
    /\ bringUp = "asking"
    /\ \/ Learn(Offered) /\ UNCHANGED chaos
       \/ Disturb /\ UNCHANGED <<caps, workerVars>>  \* the service cannot be reached
    /\ bringUp' = "acting"
    /\ UNCHANGED <<dbVars, rec, recUrl, hold, disk, dropped,
                   on, url, resetting, serverVars>>

\* Mutant of BringUpActs: a sweep that clears the backoff and wakes nobody.
BringUpActsQuietly ==
    /\ bringUp = "acting"
    /\ bringUp' = "none"
    /\ hold' = FALSE
    /\ IF Active THEN UNCHANGED workerVars ELSE Halt(job)
    /\ UNCHANGED <<dbVars, rec, recUrl, disk, dropped,
                   on, caps, url, resetting, serverVars, chaos>>

\* sweep if the type is active, halt if it is not.
BringUpActs ==
    /\ bringUp = "acting"
    /\ bringUp' = "none"
    /\ IF Active THEN hold' = FALSE /\ Kick(job)
                 ELSE Halt(job) /\ UNCHANGED hold
    /\ UNCHANGED <<dbVars, rec, recUrl, disk, dropped,
                   on, caps, url, resetting, serverVars, chaos>>

\* The Test button, and the first half of the push button.
ConnectionTested ==
    /\ caps # Offered
    /\ Learn(Offered)
    /\ UNCHANGED <<dbVars, rec, recUrl, hold, disk, dropped,
                   on, url, resetting, bringUp, serverVars, chaos>>

\* The push button: clear_backoff and sweep.
PushPressed ==
    /\ Active /\ caps = Offered
    /\ hold' = FALSE
    /\ Kick(job)
    /\ UNCHANGED <<dbVars, rec, recUrl, disk, dropped,
                   clientVars, serverVars, chaos>>

\* _apply_sync: the settings hold the new server or token while their row is
\* still being written ...
ConnectionChanged(u) ==
    /\ ~resetting /\ Disturb
    /\ url' = u /\ resetting' = TRUE
    /\ UNCHANGED <<dbVars, adapterVars, on, caps, bringUp, serverVars>>

\* The records reload_state finds in the file f under the address u.
Reloaded(f, u) == IF f.url = u THEN f.recs ELSE [s \in Sessions |-> NoRecord]

\* ... and then reset_connection and apply: the worker is halted, the
\* capabilities are forgotten, the records are those of the file.
ConnectionReset ==
    /\ resetting
    /\ resetting' = FALSE
    /\ rec' = Reloaded(disk, url) /\ recUrl' = url
    /\ caps' = "unknown"
    /\ Halt(Disowned(Sessions))
    /\ IF on THEN Apply("unknown") ELSE UNCHANGED bringUp
    /\ UNCHANGED <<dbVars, hold, disk, dropped, on, url, serverVars, chaos>>

\* A new process over the state file f: the recorder has no session, the
\* adapter has the file, apply asks for the capabilities if sync is on.
Started(f) ==
    /\ open' = 0 /\ circuit' = FALSE /\ ruled' = {}
    /\ url' \in {url, recUrl} /\ resetting' = FALSE
    /\ disk' = f
    /\ rec' = Reloaded(f, url') /\ recUrl' = url'
    /\ hold' = FALSE
    /\ task' = 0 /\ job' = [w \in Workers |-> NoJob] /\ cancelled' = {}
    /\ caps' = "unknown"
    /\ bringUp' = IF on THEN "asking" ELSE "none"
    /\ UNCHANGED <<rows, finished, rulings, opened, dropped, on, serverVars>>

\* The logger is quit (stop closes the open session) and started again, or it
\* dies and is started again.
Restarted == Disturb /\ Started(IF ClosingWrites THEN [url |-> recUrl, recs |-> ClosePrevious]
                                                ELSE disk)
Crashed == Disturb /\ Started(disk)

-----------------------------------------------------------------------------

Recorder ==
    \/ SessionStarted \/ AllCleared
    \/ \E l \in LapIds : LapSaved(l) \/ RulingCommitted(l) \/ LapDeleted(l)
    \/ \E l \in LapIds, s \in Sessions : LapChanged(l, s)
    \/ \E s \in Sessions : SessionDeleted(s)

Worker(w) ==
    \/ WorkerStops(w) \/ WorkerIdles(w) \/ PushNext(w)
    \/ LapLoaded(w) \/ TotalsLoaded(w) \/ AnalysisLoaded(w)
    \/ Accepted(w) \/ Refused(w) \/ HeldBack(w) \/ SwitchedOffByService(w)
    \/ Unwinds(w)

Client ==
    \/ SwitchedOn \/ SwitchedOff
    \/ BringUpAsks \/ BringUpActs \/ ConnectionTested \/ PushPressed
    \/ \E u \in Urls : ConnectionChanged(u)
    \/ ConnectionReset \/ Restarted \/ Crashed

Service ==
    \/ \E w \in Workers : ServiceTakes(w) \/ ServiceDeclines(w)
    \/ \E r \in RemoteIds : SessionExpires(r)
    \/ OfferChanges

Next == Recorder \/ (\E w \in Workers : Worker(w)) \/ Client \/ Service \/ BackoffOver

Spec == Init /\ [][Next]_vars

\* The event loop runs every task that is ready, the database answers, a
\* request ends (UPLOAD_TIMEOUT_S at the latest), the backoff is finite.
Fairness ==
    /\ \A w \in Workers :
          /\ WF_vars(Worker(w))
          /\ WF_vars(ServiceTakes(w) \/ ServiceDeclines(w))
    /\ WF_vars(BringUpAsks) /\ WF_vars(BringUpActs)
    /\ WF_vars(ConnectionReset) /\ WF_vars(BackoffOver)
    /\ WF_vars(\E l \in LapIds, s \in Sessions : LapChanged(l, s))

FairSpec == Spec /\ Fairness

-----------------------------------------------------------------------------
(* Properties.                                                             *)

\* The shape of the state: every variable has its type (a queue holds no lap
\* twice), and `_task` names a worker that is alive and not cancelled.
DbTypeOK ==
    /\ rows \in [LapIds -> Lap \cup {NoLap}]
    /\ finished \in 0..MaxLap /\ rulings \in 0..MaxRulings
    /\ ruled \subseteq LapIds \X Sessions
    /\ opened \in 0..MaxSession /\ open \in 0..opened /\ circuit \in BOOLEAN
AdapterTypeOK ==
    /\ rec \in [Sessions -> Record] /\ recUrl \in Urls /\ hold \in BOOLEAN
    /\ disk \in [url: Urls, recs: [Sessions -> Record]]
    /\ dropped \subseteq LapIds
WorkerTypeOK ==
    /\ job \in [Workers -> Job] /\ cancelled \subseteq Workers
    /\ task \in Workers \cup {0}
    /\ task # 0 => job[task].at # "off" /\ task \notin cancelled
    /\ \A w \in cancelled : job[w].at # "off"
ClientTypeOK ==
    /\ on \in BOOLEAN /\ caps \in {"unknown", "known", "absent"}
    /\ url \in Urls /\ resetting \in BOOLEAN
    /\ bringUp \in {"none", "asking", "acting"}
    /\ chaos \in 0..MaxChaos
ServerTypeOK ==
    /\ offers \in BOOLEAN
    /\ remote \in [RemoteIds -> RemoteSession]
TypeOK == DbTypeOK /\ AdapterTypeOK /\ WorkerTypeOK /\ ClientTypeOK /\ ServerTypeOK

\* What a restart must find again: everything of a record but whether it is
\* there at all, which session_started leaves to the first lap.
Kept(r) == [r EXCEPT !.held = FALSE]

\* A crash loses nothing the adapter was handed: at every step boundary the
\* state file holds each record's remote id, queue, verdicts and debts as the
\* memory does, so a new process resumes where the old one stood.
CrashLosesNothing ==
    disk.url = recUrl => \A s \in Sessions : Kept(disk.recs[s]) = Kept(rec[s])

\* Lap l's id was never another lap's.  The laps table reuses the id of a
\* deleted newest lap; what follows from that is the run lap_id_reuse.
OwnId(l) == rows[l].lap = l

\* What the service holds for the record r, while it holds anything.
Reaches(r) == r.held /\ r.remote # 0 /\ ~r.closed /\ ~remote[r.remote].gone

\* "This file only remembers what has and has not reached the server": a lap
\* noted as synced, and neither queued again nor dropped by the cap, is held
\* by the remote session its record names.
SyncedMeansHeld ==
    \A s \in Sessions : Reaches(rec[s]) =>
        \A l \in StoredOf(s) :
            OwnId(l) /\ rec[s].laps[l] = "synced"
              /\ l \notin ToSet(rec[s].queue) \cup dropped =>
                \E d \in remote[rec[s].remote].laps : d.lap = rows[l].lap

\* A circuit the adapter knows is on the server or still owed to it, whenever
\* the lap that named it came: before the summary, while the summary was on
\* its way, or after; the only exception is a circuit the server refused.
NamedOrOwed ==
    \A s \in Sessions :
        Reaches(rec[s]) /\ NamesCircuit(rec[s]) =>
            remote[rec[s].remote].circuit \/ rec[s].trackPending

\* Laps of a drive the service holds in the session r.
OwnLaps(r) == {d.lap : d \in {x \in remote[r].laps : x.session = remote[r].drive}}

\* The service is told a drive in order: a lap of the drive it has not got
\* yet comes after every one it has and before the totals, the analysis after
\* the totals; whatever failed, was retried or was sent again in between.
DriveInOrder ==
    [][\A r \in RemoteIds :
         remote[r].drive # 0 /\ remote'[r].drive # 0 =>
           /\ \A l \in OwnLaps(r)' \ OwnLaps(r) : OwnId(l) =>
                 ~remote[r].ended /\ \A k \in OwnLaps(r) : k < l
           /\ remote'[r].analysis # remote[r].analysis => remote[r].ended]_vars

\* As long as the service lists the type, a record's laps, totals and
\* analysis are dealt with or the type is switched off: no interleaving of a
\* halt, a bring-up, a backoff, a restart and a kick leaves them without a
\* worker.
Delivered ==
    [](caps # "absent") =>
        \A s \in Sessions :
            (Pending(rec[s]) /\ Active) ~> (~Pending(rec[s]) \/ ~Active)

\* A ruling is sent: once lap_changed has been told of it, a lap noted as
\* synced and not queued again is on the server as the database has it.
\* (sessions.py, lap_changed: "send it again, replacing the copy the server
\* holds".)
RulingReachesServer ==
    \A s \in Sessions : Reaches(rec[s]) =>
        \A l \in StoredOf(s) :
            rec[s].laps[l] = "synced" /\ l \notin ToSet(rec[s].queue) \cup dropped
              /\ <<l, s>> \notin ruled =>
                rows[l] \in remote[rec[s].remote].laps

\* A session on the server holds only laps of its own drive.  (sessions.py,
\* session_started, on a reused id: it "would send the new drive's laps into
\* the old one's server session".)
NoForeignLap ==
    \A r \in RemoteIds : \A d \in remote[r].laps : d.session = remote[r].drive

\* The analysis is written off as one the server does not take only when the
\* server does not take it.  (sessions.py, _send_analysis: "Not an error and
\* not retried: this server has nowhere to put it".)
NotTakenIsTrue ==
    \A s \in Sessions :
        rec[s].analysis = "not_taken" => "analysis_version" \notin ServerHints
=============================================================================
