------------------------------- MODULE Rejudge -------------------------------
(***************************************************************************)
(* The surveyed-edge verdicts of stored laps: decided when a lap is saved  *)
(* (service.py, _judge_against_survey), again when its session's circuit   *)
(* becomes known (_backfill_survey_verdicts), and again by a pass over the *)
(* circuit's laps when its bundle changes (rejudge.py).                    *)
(*                                                                         *)
(* A bundle is the verdict it gives; Unknown is no bundle.  A circuit is a *)
(* slug.  Two runners pass over a circuit's laps, a step per await and in  *)
(* turns by _lock: SurveyRejudge's worker task, and the request behind     *)
(* Re-check laps.  The settle time is a step.                              *)
(*                                                                         *)
(* Who names a session, by hand or by search, writes its row and tells the *)
(* recorder in one step.                                                   *)
(*                                                                         *)
(* Left out: laps whose samples are gone and laps deleted meanwhile, which *)
(* a pass leaves alone; and a `changed` between a cancelled worker's end   *)
(* and the end of the stop that awaits it: a restore has stopped telemetry *)
(* and shut the request gate by then, so nobody is left to call it.        *)
(***************************************************************************)
EXTENDS Integers, Sequences

CONSTANTS
    Circuits,
    Roads,        \* bundles, by the verdict they give
    None,         \* no circuit, nobody
    MaxWrites,    \* bound: bundles written
    MaxLaps,      \* bound: laps saved
    MaxSessions,  \* bound
    MaxClicks,    \* bound: circuits named by hand, searches, and re-checks
    MaxFaults     \* bound: failed passes and requests, recorders cut, restores, restarts

Unknown == 0
Runners == {"worker", "manual"}

ASSUME BoundsAssumption ==
    /\ Roads \subseteq Nat \ {Unknown}
    /\ {MaxWrites, MaxLaps, MaxSessions, MaxClicks, MaxFaults} \subseteq Nat
ASSUME NoneAssumption == None \notin Circuits \cup Runners \cup {"restore"}

VARIABLES
    \* the disk
    bundle,  \* of each circuit
    label,   \* the circuit of each session
    rows,    \* laps: session and verdict
    \* SurveyRejudge
    due,     \* _due: settling or ready, "no" for a circuit not in it
    lock,    \* who holds _lock
    pc, job, \* where each runner stands, and on which circuit
    killed,  \* the worker has been cancelled
    pass,    \* the pass of whoever holds the lock
    \* the others
    live,    \* the lap being saved and judged by the recorder
    track,   \* track_name: the circuit the recorder knows of
    untold,  \* whose bundle a request has changed: `changed` is next
    search,  \* identify_sessions: sessions to look at, and those named so far
    restore, \* where a restore stands
    \* history
    late,    \* laps given the verdict of a bundle or a circuit replaced, or none,
             \* or left as they were by a backfill or a request cut short
    cut,     \* circuits whose pass was dropped, cut short or failed
    writes, clicks, faults

disk   == <<bundle, label, rows>>
judge  == <<due, lock, pc, job, killed, pass>>
others == <<live, track, untold, search, restore>>
past   == <<late, cut, writes, clicks, faults>>
vars   == <<disk, judge, others, past>>

NoPass  == [road |-> Unknown, rows |-> {}, all |-> {}, old |-> {}]
Driving == [at |-> "no", name |-> None, road |-> Unknown, rows |-> {}]
NoSearch == [todo |-> {}, named |-> {}]

Init ==
    /\ bundle \in [Circuits -> Roads \cup {Unknown}]
    /\ label = <<None>> /\ rows = <<>>
    /\ due = [c \in Circuits |-> "no"] /\ lock = None
    /\ pc = [r \in Runners |-> "none"] /\ job = [r \in Runners |-> None] /\ killed = FALSE
    /\ pass = NoPass
    /\ live = Driving /\ track = None /\ untold = None /\ search = NoSearch /\ restore = "no"
    /\ late = {} /\ cut = {} /\ writes = 0 /\ clicks = 0 /\ faults = 0

Happens == faults < MaxFaults /\ faults' = faults + 1

\* The request gate and the session lock, which a restore holds.
Open == restore \in {"no", "done"}

Now == Len(label)
LapsOf(s) == {n \in DOMAIN rows : rows[n].session = s}
LapsOn(c) == {n \in DOMAIN rows : label[rows[n].session] = c}

\* What a pass or a backfill holds of the laps it has listed, and goes through
\* newest first.
Listed(laps) == {[n |-> n, verdict |-> rows[n].verdict] : n \in laps}
Newest(listed) == {row \in listed : \A other \in listed : other.n <= row.n}

\* judge_row: written only if it differs from what was listed.
JudgedRow(r, road) == IF r.verdict = road THEN rows ELSE [rows EXCEPT ![r.n].verdict = road]

\* Those of the laps that have not the verdict of their circuit's bundle.
Stale(rs, ls, laps) ==
    {n \in laps : LET c == ls[rs[n].session] IN c # None /\ rs[n].verdict # bundle[c]}

\* Those a backfill leaves as they are, if it is cut short here, and those an
\* identification does.
Abandoned ==
    IF live.at \in {"asking", "listing", "rows"} THEN Stale(rows, label, LapsOf(Now)) ELSE {}
Unheard == Stale(rows, label, UNION {LapsOf(p[1]) : p \in search.named})

-----------------------------------------------------------------------------
(* changed, and what calls it.                                             *)

\* _kick: the worker is created unless it is at work.
Kicked == IF pc["worker"] = "none" THEN [pc EXCEPT !["worker"] = "loop"] ELSE pc

\* The bundle of a circuit is replaced.
Replaced(c) ==
    /\ writes < MaxWrites /\ writes' = writes + 1
    /\ \E road \in Roads \cup {Unknown} :
        road # bundle[c] /\ bundle' = [bundle EXCEPT ![c] = road]

\* A running survey saves: the clock starts over.
SurveySaved ==
    /\ Open
    /\ \E c \in Circuits : Replaced(c) /\ due' = [due EXCEPT ![c] = "settling"]
    /\ pc' = Kicked
    /\ UNCHANGED <<label, rows, lock, job, killed, pass, others, late, cut, clicks, faults>>

\* An import, a merge, a rename, a delete.
BundleEdited ==
    /\ Open /\ untold = None
    /\ \E c \in Circuits : Replaced(c) /\ untold' = c
    /\ UNCHANGED <<label, rows, judge, live, track, search, restore, late, cut, clicks, faults>>

\* Mutant of Edited: a circuit whose pass is under way is not queued again.
EditedOnce ==
    /\ untold # None /\ untold' = None
    /\ due' = IF \E r \in Runners : job[r] = untold THEN due
              ELSE [due EXCEPT ![untold] = "ready"]
    /\ pc' = Kicked
    /\ UNCHANGED <<disk, lock, job, killed, pass, live, track, search, restore, past>>

\* bundle_changed.
Edited ==
    /\ untold # None /\ untold' = None
    /\ due' = [due EXCEPT ![untold] = "ready"]
    /\ pc' = Kicked
    /\ UNCHANGED <<disk, lock, job, killed, pass, live, track, search, restore, past>>

Settled(c) ==
    /\ due[c] = "settling" /\ due' = [due EXCEPT ![c] = "ready"]
    /\ UNCHANGED <<disk, lock, pc, job, killed, pass, others, past>>

-----------------------------------------------------------------------------
(* run_now and _pass, for a worker and for Re-check laps.                  *)

At(r, from) == pc[r] = from /\ ~(killed /\ r = "worker")
Goes(r, to) == pc' = [pc EXCEPT ![r] = to]

\* run_now: whatever was queued for the circuit is covered.
RunsNow(r, c) ==
    /\ due' = [due EXCEPT ![c] = "no"]
    /\ job' = [job EXCEPT ![r] = c] /\ Goes(r, "lock")

\* _run: a circuit that is ready.  While none is, the worker waits for the
\* earliest, or for _wake.
WorkerTakes ==
    /\ At("worker", "loop")
    /\ \E c \in Circuits : due[c] = "ready" /\ RunsNow("worker", c)
    /\ UNCHANGED <<disk, lock, killed, pass, others, past>>

WorkerEnds ==
    /\ At("worker", "loop") /\ \A c \in Circuits : due[c] = "no"
    /\ Goes("worker", "none")
    /\ UNCHANGED <<disk, due, lock, job, killed, pass, others, past>>

\* POST /api/track-bundles/{slug}/rejudge.
Recheck ==
    /\ pc["manual"] = "none" /\ Open /\ clicks < MaxClicks /\ clicks' = clicks + 1
    /\ \E c \in Circuits : (LapsOn(c) # {} \/ due[c] # "no") /\ RunsNow("manual", c)
    /\ UNCHANGED <<disk, lock, killed, pass, others, late, cut, writes, faults>>

Locks(r) ==
    /\ At(r, "lock") /\ lock = None /\ lock' = r /\ Goes(r, "judge")
    /\ UNCHANGED <<disk, due, job, killed, pass, others, past>>

PassReads(r) ==
    /\ At(r, "judge") /\ Goes(r, "list")
    /\ pass' = [NoPass EXCEPT !.road = bundle[job[r]]]
    /\ cut' = cut \ {job[r]}
    /\ UNCHANGED <<disk, due, lock, job, killed, others, late, writes, clicks, faults>>

\* Mutant of Covered: the laps that have no verdict yet.
CoveredUnknown(c) == {n \in LapsOn(c) : rows[n].verdict = Unknown}

Covered(c) == LapsOn(c)

PassLists(r) ==
    /\ At(r, "list") /\ Goes(r, "rows")
    /\ pass' = [pass EXCEPT !.rows = Listed(Covered(job[r])),
                    !.all = LapsOn(job[r]),
                    !.old = (late \cap LapsOn(job[r])) \ LapsOf(Now)]
    /\ UNCHANGED <<disk, due, lock, job, killed, others, past>>

\* A lap whose session has been given another circuit meanwhile gets the old
\* one's verdict.
PassJudges(r) ==
    /\ At(r, "rows")
    /\ \E row \in Newest(pass.rows) :
          /\ rows' = JudgedRow(row, pass.road)
          /\ late' = IF label[rows[row.n].session] # job[r]
                     THEN late \cup Stale(rows', label, {row.n})
                     ELSE IF rows'[row.n].verdict = pass.road THEN late \ {row.n} ELSE late
          /\ pass' = [pass EXCEPT !.rows = @ \ {row}]
    /\ UNCHANGED <<bundle, label, due, lock, pc, job, killed, others, cut, writes, clicks, faults>>

\* Out of run_now, without the lock.
LetsGo(r, to) ==
    /\ Goes(r, to) /\ job' = [job EXCEPT ![r] = None]
    /\ IF lock = r THEN lock' = None /\ pass' = NoPass ELSE UNCHANGED <<lock, pass>>

Returned(r) == IF r = "manual" THEN "none" ELSE "loop"

PassEnds(r) ==
    /\ At(r, "rows") /\ pass.rows = {}
    /\ LetsGo(r, Returned(r))
    /\ UNCHANGED <<disk, due, killed, others, past>>

\* Mutant of Recovered: the exception ends the worker.
RecoveredNot(r) == "none"

Recovered(r) == Returned(r)

\* The database refuses: the worker logs it, the request answers 500.
PassFails(r) ==
    /\ At(r, "judge") \/ At(r, "list") \/ At(r, "rows")
    /\ Happens
    /\ cut' = cut \cup {job[r]}
    /\ LetsGo(r, Recovered(r))
    /\ UNCHANGED <<disk, due, killed, others, late, writes, clicks>>

\* The cancelled worker unwinds.
Unwinds ==
    /\ killed /\ killed' = FALSE
    /\ cut' = IF job["worker"] = None THEN cut ELSE cut \cup {job["worker"]}
    /\ LetsGo("worker", "none")
    /\ UNCHANGED <<disk, due, others, late, writes, clicks, faults>>

-----------------------------------------------------------------------------
(* The recorder, under session_lock.                                       *)

\* A lap on a known circuit is judged before it is saved.  A restore that
\* pauses the recorder saves the lap it holds (flush).
LapJudged ==
    /\ live = Driving /\ Len(rows) < MaxLaps
    /\ \/ Open /\ UNCHANGED restore
       \/ restore = "pausing" /\ restore' = "flushing"
    /\ live' = [Driving EXCEPT !.at = "saving",
                    !.road = IF track = None THEN Unknown ELSE bundle[track]]
    /\ UNCHANGED <<disk, judge, track, untold, search, past>>

\* save_lap.  The lap of a session without a circuit may identify it.
LapSaved ==
    /\ live.at = "saving"
    /\ rows' = Append(rows, [session |-> Now, verdict |-> live.road])
    /\ late' = late \cup Stale(rows', label, {Len(rows')})
    /\ \/ live' = Driving
       \/ track = None /\ live' = [Driving EXCEPT !.at = "naming"]
    /\ UNCHANGED <<bundle, label, judge, track, untold, search, restore, cut, writes, clicks,
                   faults>>

\* _identify_track: known to the recorder first, ...
TrackIdentified ==
    /\ live.at = "naming"
    /\ \E c \in Circuits :
          track' = c /\ live' = [live EXCEPT !.at = "labelling", !.name = c]
    /\ UNCHANGED <<disk, judge, untold, search, restore, past>>

\* ... and then written to the session.
TrackLabelled ==
    /\ live.at = "labelling"
    /\ label' = [label EXCEPT ![Now] = live.name]
    /\ live' = [Driving EXCEPT !.at = "asking"]
    /\ UNCHANGED <<bundle, rows, judge, track, untold, search, restore, past>>

\* _backfill_survey_verdicts.  With no bundle the laps stay as they are.
BackfillReads ==
    /\ live.at = "asking"
    /\ LET road == bundle[track]
       IN /\ live' = IF road = Unknown THEN Driving
                     ELSE [live EXCEPT !.at = "listing", !.road = road]
          /\ late' = IF road # Unknown /\ road = bundle[label[Now]] THEN late
                     ELSE late \cup Stale(rows, label, LapsOf(Now))
    /\ UNCHANGED <<disk, judge, track, untold, search, restore, cut, writes, clicks, faults>>

BackfillLists ==
    /\ live.at = "listing"
    /\ live' = [live EXCEPT !.at = "rows", !.rows = Listed(LapsOf(Now))]
    /\ UNCHANGED <<disk, judge, track, untold, search, restore, past>>

BackfillJudges ==
    /\ live.at = "rows"
    /\ \E row \in Newest(live.rows) :
          /\ rows' = JudgedRow(row, live.road)
          /\ late' = IF live.road = bundle[label[Now]] THEN late
                     ELSE late \cup Stale(rows', label, {row.n})
          /\ live' = [live EXCEPT !.rows = @ \ {row}]
    /\ UNCHANGED <<bundle, label, judge, track, untold, search, restore, cut, writes, clicks,
                   faults>>

BackfillEnds ==
    /\ live.at = "rows" /\ live.rows = {} /\ live' = Driving
    /\ UNCHANGED <<disk, judge, track, untold, search, restore, past>>

\* The consumer is cancelled where it stands (a switch of the source), or the
\* database refuses and the packet is given up: what was under way is gone.
\* A flush that fails is the end of its restore.
RecorderCut ==
    /\ live # Driving /\ Happens
    /\ live' = Driving /\ late' = late \cup Abandoned
    /\ restore' = IF restore = "flushing" THEN "no" ELSE restore
    /\ UNCHANGED <<disk, judge, track, untold, search, cut, writes, clicks>>

NewSession ==
    /\ live = Driving /\ Open /\ Now < MaxSessions /\ LapsOf(Now) # {}
    /\ label' = Append(label, None) /\ track' = None
    /\ UNCHANGED <<bundle, rows, judge, live, untold, search, restore, past>>

-----------------------------------------------------------------------------
(* POST /api/tracks/identify: history that has no circuit yet.             *)

SearchBegins ==
    /\ Open /\ search = NoSearch /\ clicks < MaxClicks /\ clicks' = clicks + 1
    /\ search' = [NoSearch EXCEPT !.todo = {s \in DOMAIN label : label[s] = None /\ LapsOf(s) # {}}]
    /\ UNCHANGED <<disk, judge, live, track, untold, restore, late, cut, writes, faults>>

\* A session that was listed gets the circuit its lap was driven on, whatever
\* it has been called meanwhile, ...
SearchNames ==
    /\ \E s \in search.todo, c \in Circuits :
        /\ label' = [label EXCEPT ![s] = c]
        /\ track' = IF s = Now THEN c ELSE track
        /\ search' = [todo |-> search.todo \ {s}, named |-> search.named \cup {<<s, c>>}]
    /\ UNCHANGED <<bundle, rows, judge, live, untold, restore, past>>

\* ... or has no match.
SearchSkips ==
    /\ \E s \in search.todo : search' = [search EXCEPT !.todo = @ \ {s}]
    /\ UNCHANGED <<disk, judge, live, track, untold, restore, past>>

\* Only now are their laps queued.
SearchEnds ==
    /\ search.todo = {} /\ search.named # {}
    /\ due' = [c \in Circuits |-> IF \E p \in search.named : p[2] = c THEN "ready" ELSE due[c]]
    /\ pc' = Kicked /\ search' = NoSearch
    /\ UNCHANGED <<disk, lock, job, killed, pass, live, track, untold, restore, past>>

\* The database refuses on a later one: those named before it stay unjudged.
SearchFails ==
    /\ search.todo # {} /\ Happens
    /\ search' = NoSearch /\ late' = late \cup Unheard
    /\ UNCHANGED <<disk, judge, live, track, untold, restore, cut, writes, clicks>>

\* POST /api/tracks: the circuit of one lap is named by hand, and nothing is
\* judged.
CircuitNamed ==
    /\ Open /\ clicks < MaxClicks /\ clicks' = clicks + 1
    /\ \E n \in DOMAIN rows, c \in Circuits :
        /\ label' = [label EXCEPT ![rows[n].session] = c]
        /\ track' = IF rows[n].session = Now THEN c ELSE track
        /\ late' = late \cup Stale(rows, label', LapsOf(rows[n].session))
    /\ UNCHANGED <<bundle, rows, judge, live, untold, search, restore, cut, writes, faults>>

-----------------------------------------------------------------------------
(* A restore that replaces the database, and a restart.                    *)

\* _swap_database: once the requests in progress are done the source is
\* stopped, wherever the recorder is.
RestorePauses ==
    /\ restore = "no" /\ untold = None /\ search = NoSearch /\ pc["manual"] = "none" /\ Happens
    /\ restore' = "pausing"
    /\ live' = Driving /\ late' = late \cup Abandoned
    /\ UNCHANGED <<disk, judge, track, untold, search, cut, writes, clicks>>

\* _swap_files, the lap the recorder held saved or none there: paused.
RestoreStops ==
    /\ restore \in {"pausing", "flushing"} /\ live = Driving
    /\ restore' = "stopping" /\ killed' = (pc["worker"] # "none")
    /\ UNCHANGED <<disk, due, lock, pc, job, pass, live, track, untold, search, past>>

\* The worker has unwound: the queue is dropped, and the lock is taken.
RestoreStopped ==
    /\ restore = "stopping" /\ ~killed /\ lock = None
    /\ restore' = "swapping" /\ lock' = "restore"
    /\ cut' = cut \cup {c \in Circuits : due[c] # "no"}
    /\ due' = [c \in Circuits |-> "no"]
    /\ UNCHANGED <<disk, pc, job, killed, pass, live, track, untold, search, late, writes, clicks,
                   faults>>

\* The recordings of a backup, with the verdicts of their time.
Swapped ==
    /\ restore = "swapping" /\ restore' = "done" /\ lock' = None
    /\ \E c \in Circuits, v \in Roads \cup {Unknown} :
        label' = <<c, None>> /\ rows' = <<[session |-> 1, verdict |-> v]>>
    /\ track' = None /\ late' = {} /\ cut' = {}
    /\ UNCHANGED <<bundle, due, pc, job, killed, pass, live, untold, search, writes, clicks,
                   faults>>

Refused ==
    /\ restore = "swapping" /\ restore' = "no" /\ lock' = None
    /\ UNCHANGED <<disk, due, pc, job, killed, pass, live, track, untold, search, past>>

\* session_track_labels.
Requeued == {c \in Circuits : LapsOn(c) # {}}

\* _apply: every circuit of the new recordings is queued.
RestoreTells ==
    /\ restore = "done" /\ restore' = "no"
    /\ due' = [c \in Circuits |-> IF c \in Requeued THEN "ready" ELSE due[c]]
    /\ pc' = Kicked
    /\ UNCHANGED <<disk, lock, job, killed, pass, live, track, untold, search, past>>

\* The process ends, one way or the other, and starts: the queue was in
\* memory only, and a session ends with its process.
Restarted ==
    /\ restore = "no" /\ Happens
    /\ cut' = cut \cup {c \in Circuits : \/ due[c] # "no" \/ untold = c
                                         \/ \E r \in Runners : job[r] = c}
    /\ late' = late \cup Abandoned \cup Unheard
    /\ due' = [c \in Circuits |-> "no"] /\ lock' = None
    /\ pc' = [r \in Runners |-> "none"] /\ job' = [r \in Runners |-> None] /\ killed' = FALSE
    /\ pass' = NoPass /\ live' = Driving /\ untold' = None /\ search' = NoSearch
    /\ label' = Append(label, None) /\ track' = None
    /\ UNCHANGED <<bundle, rows, restore, writes, clicks>>

-----------------------------------------------------------------------------
Passes(r) == Locks(r) \/ PassReads(r) \/ PassLists(r) \/ PassJudges(r) \/ PassEnds(r)

Works == WorkerTakes \/ WorkerEnds \/ Unwinds

Restores == RestoreStops \/ RestoreStopped \/ Swapped \/ Refused \/ RestoreTells

Records ==
    \/ LapJudged \/ LapSaved \/ TrackIdentified \/ TrackLabelled \/ BackfillReads
    \/ BackfillLists \/ BackfillJudges \/ BackfillEnds \/ NewSession

Searches == SearchNames \/ SearchSkips \/ SearchEnds

Next ==
    \/ SurveySaved \/ BundleEdited \/ Edited \/ CircuitNamed
    \/ SearchBegins \/ Searches \/ SearchFails
    \/ \E c \in Circuits : Settled(c)
    \/ \E r \in Runners : Passes(r) \/ PassFails(r)
    \/ Recheck \/ Works \/ Records \/ RecorderCut
    \/ RestorePauses \/ Restores \/ Restarted

\* The event loop runs what is ready, and the settle time passes.  Nobody
\* owes a lap, an edit, a click or a failure.
Fairness ==
    /\ WF_vars(Edited) /\ \A c \in Circuits : WF_vars(Settled(c))
    /\ \A r \in Runners : WF_vars(Passes(r))
    /\ WF_vars(Works) /\ WF_vars(Restores) /\ WF_vars(Searches)
    /\ WF_vars(Records /\ live # Driving)

Spec == Init /\ [][Next]_vars /\ Fairness

-----------------------------------------------------------------------------
(* Properties.                                                             *)

AllStale == Stale(rows, label, DOMAIN rows)

\* Every lap that has not its bundle's verdict, and why.
Accounted ==
    \A n \in AllStale : n \in late \/ label[rows[n].session] \in cut

AtRest ==
    /\ live = Driving /\ untold = None /\ search = NoSearch /\ restore = "no"
    /\ \A c \in Circuits : due[c] = "no"
    /\ \A r \in Runners : job[r] = None

\* When nothing is queued and nobody judges, each stored lap has the verdict
\* of its circuit's bundle as it is now (rejudge.py: "a lap must not keep a
\* verdict from geometry that no longer exists"), however the bundle, the
\* recorder, the requests, the two kinds of pass and a restore came together:
\* but for a lap that was judged by a bundle replaced, or for a circuit
\* renamed, while it was; for the laps a backfill had not come to when its
\* recorder was stopped or failed, and those of sessions named by a request
\* that failed on a later one, which nothing queues; and for a circuit whose
\* pass was cut short.
VerdictsFollow == AtRest => Accounted

Queued(c) == due[c] # "no" \/ untold = c \/ \E p \in search.named : p[2] = c

\* A pass that ends with nothing else in store for the circuit has put right
\* every lap the circuit had when it listed them, those a pass cut short or an
\* old bundle left behind among them ("Re-check laps finishes it").
PassHeals ==
    [][\A r \in Runners :
        (PassEnds(r) /\ live = Driving /\ ~Queued(job[r]) /\ \A q \in Runners \ {r} : job[q] # job[r]) =>
            pass.all \cap LapsOn(job[r]) \cap AllStale \subseteq late \ pass.old]_vars

\* The worker comes to every circuit that is queued, whatever fails on the
\* way: after the last change no verdict stays stale for want of a pass, and
\* no request for one unanswered.
ComesRight ==
    <>[](Accounted /\ pc["manual"] = "none" /\ \A c \in Circuits : ~Queued(c))

=============================================================================
