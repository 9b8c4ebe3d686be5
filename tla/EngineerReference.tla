-------------------------- MODULE EngineerReference --------------------------
(***************************************************************************)
(* What the race engineer compares a lap with: the coaching reference of   *)
(* race_engineer/manager.py, its corners and its sector times, and how the *)
(* recorder drives them (service.py: _on_lap, select_engineer_reference,   *)
(* apply_best_override, _on_session, _reset_recorder).                     *)
(*                                                                         *)
(* All of it happens under session_lock, but a lap is handed over only     *)
(* when voice is on, a lap to chase is looked up before the lock, and the  *)
(* preparing of a reference is two awaits at which its task can be         *)
(* cancelled: the source's consumer by a stop or a switch of the source,   *)
(* the request's by a restore.                                             *)
(*                                                                         *)
(* The processor is an environment: it may revise which laps are partial   *)
(* with each lap that completes, more freely than SessionBests lets it.    *)
(* Left out: what is said and when (_emit), the placing of laps on the     *)
(* reference's axis, laps without samples, a lap of this session chosen    *)
(* for a chase, a stored lap ruled out after it was chosen.                *)
(***************************************************************************)
EXTENDS Integers, FiniteSets, SequencesExt

CONSTANTS
    Roads, Cars,
    Unknown,      \* the circuit before it is identified
    StoredLaps,   \* laps of earlier outings
    StoredRoad,   \* their circuit
    StoredTime,
    Times,        \* lap times
    HistorySize,  \* MAX_LAP_HISTORY
    MaxLaps,      \* bound: laps of the first session, one fewer in each later one
    MaxSessions, MaxPicks, MaxEvents \* bounds; events: rulings, toggles, cuts

ASSUME SetsAssumption ==
    /\ Unknown \notin Roads /\ Times \subseteq Nat \ {0}
    /\ StoredRoad \in [StoredLaps -> Roads] /\ StoredTime \in [StoredLaps -> Nat \ {0}]
ASSUME BoundsAssumption ==
    {HistorySize, MaxLaps, MaxSessions, MaxPicks, MaxEvents} \subseteq Nat

\* The samples of a lap: of a session's lap, or of a stored one.
Nothing == <<>>
Driven(s, n) == <<"driven", s, n>>
Stored(l) == <<"stored", l>>

VARIABLES
    \* what is driven, and the processor
    road, car, session, \* session 0: none open
    laps,    \* time and ruling of each lap of the session
    partial,
    \* the service
    known,   \* whether the circuit is identified: track_name is the road's
    voice,   \* engineer_active
    lock,    \* who holds session_lock, at which await, and where it goes on
    asked,   \* _reference_request
    task,    \* _reference_task, and what it looked up
    \* the manager
    eng, coaching, \* coaching: its categories are on
    sessions, picks, events, \* counters of the bounds
    \* history
    missed,  \* verdicts the manager was not told of, or a reference to come
             \* that has stopped counting
    torn     \* a reference was being prepared when the task was cancelled

driving == <<road, car, session, laps, partial>>
service == <<known, voice, asked, task>>
counters == <<sessions, picks, events>>
vars == <<driving, service, lock, eng, coaching, counters, missed, torn>>

NoBase == [lap |-> Nothing, time |-> 0]
NoTask == [on |-> FALSE, lap |-> Nothing, road |-> Unknown]
Free == [by |-> "nobody", at |-> "no", then |-> "no", changed |-> FALSE]

\* A manager: its mode, history (this session's laps, newest first; those
\* before are for the fuel model), reference with its lap number
\* (0: not of this session), corners and sector times by the samples they are
\* of, the reference to come; and the chase, with where it belongs.
NewManager ==
    [chase |-> FALSE, hist |-> <<>>, session |-> 0, road |-> Unknown, car |-> 0,
     ref |-> Nothing, refLap |-> 0, corners |-> Nothing, splits |-> NoBase, pending |-> Nothing,
     base |-> NoBase, chased |-> NoBase, confirmed |-> FALSE, baseRoad |-> Unknown, baseCar |-> 0]

Happens == events < MaxEvents /\ events' = events + 1

TrackName == IF known THEN road ELSE Unknown

Init ==
    /\ road \in Roads /\ car \in Cars /\ session = 0 /\ laps = <<>> /\ partial = {}
    /\ known = FALSE /\ voice = TRUE /\ lock = Free /\ asked = Nothing /\ task = NoTask
    /\ eng = NewManager /\ coaching = TRUE
    /\ sessions = 0 /\ picks = 0 /\ events = 0
    /\ missed = FALSE /\ torn = FALSE

-----------------------------------------------------------------------------
(* The manager.                                                            *)

Samples(e, r) == Driven(e.session, r.n)

\* _session_fastest, the newest of equals.
Fastest(e) ==
    LET counting == {i \in DOMAIN e.hist : e.hist[i].counts}
    IN {e.hist[i] : i \in {j \in counting : \A k \in counting :
            e.hist[j].time < e.hist[k].time \/ (e.hist[j].time = e.hist[k].time /\ j <= k)}}

\* _invalidate_sector_reference.
Unsplit(e) == [e EXCEPT !.splits = NoBase]

\* _chase_adopt.
Adopted(e, base, n) ==
    LET now == [e EXCEPT !.chased = base, !.refLap = n]
    IN IF base.lap # e.chased.lap \/ e.ref = Nothing
       THEN [Unsplit(now) EXCEPT !.pending = base.lap]
       ELSE now

\* Mutant of Settled: the laps driven since are not looked at.
SettledOnTheFloor(e) ==
    IF e.base = NoBase \/ ~e.confirmed THEN e ELSE Adopted(e, e.base, 0)

\* _chase_settle.
Settled(e) ==
    IF e.base = NoBase \/ ~e.confirmed THEN e
    ELSE LET quicker == {r \in Fastest(e) : r.time < e.base.time}
         IN IF quicker = {} THEN Adopted(e, e.base, 0)
            ELSE LET r == CHOOSE q \in quicker : TRUE
                 IN Adopted(e, [lap |-> Samples(e, r), time |-> r.time], r.n)

\* _end_chase.
ChaseEnded(e) ==
    [e EXCEPT !.chase = FALSE, !.base = NoBase, !.chased = NoBase, !.confirmed = FALSE,
              !.baseRoad = Unknown, !.baseCar = 0]

Best(e, r) == [Unsplit(e) EXCEPT !.pending = Samples(e, r), !.refLap = r.n]

\* select_session_best_reference.
ChosenBest(e) ==
    LET now == Unsplit(ChaseEnded(e))
    IN IF Fastest(e) = {}
       THEN [now EXCEPT !.pending = Nothing, !.refLap = 0, !.ref = Nothing, !.corners = Nothing]
       ELSE Best(now, CHOOSE r \in Fastest(e) : TRUE)

\* select_chase_reference.
ChosenLap(e, l) ==
    Settled([Unsplit(e) EXCEPT
        !.chase = TRUE, !.base = [lap |-> Stored(l), time |-> StoredTime[l]], !.chased = NoBase,
        !.baseCar = e.car, !.baseRoad = e.road, !.confirmed = TRUE])

\* _reflag.
Reflagged(e, excluded) ==
    LET now == [e EXCEPT !.hist = [i \in DOMAIN @ |->
                    [@[i] EXCEPT !.counts = e.hist[i].n \notin excluded]]]
    IN IF e.refLap \in excluded
       THEN [now EXCEPT !.ref = Nothing, !.corners = Nothing, !.refLap = 0]
       ELSE now

\* on_session.
OnSession(e, s, c) ==
    LET now == [Unsplit(e) EXCEPT !.session = s, !.car = c, !.hist = <<>>, !.ref = Nothing, !.corners = Nothing,
                                  !.pending = Nothing, !.refLap = 0]
    IN IF ~e.chase THEN now
       ELSE IF c # e.baseCar THEN ChaseEnded(now)
       ELSE [now EXCEPT !.base = IF e.chased.lap # Nothing THEN e.chased ELSE @,
                        !.chased = NoBase, !.confirmed = FALSE]

\* on_track, up to the refresh it may ask for.
OnTrack(e, name) ==
    LET now == [e EXCEPT !.road = name]
    IN IF ~e.chase \/ e.confirmed \/ name = Unknown THEN now
       ELSE IF name # e.baseRoad THEN ChosenBest(now)
       ELSE Settled([now EXCEPT !.confirmed = TRUE])

Resumes(e, name) == e.chase /\ ~e.confirmed /\ name # Unknown /\ name = e.baseRoad

\* apply_best_override.
Overridden(e, excluded) ==
    LET now == Reflagged(e, excluded)
    IN IF e.chase THEN Settled(now)
       ELSE LET other == {r \in Fastest(now) : r.n # now.refLap}
            IN IF other = {} THEN now ELSE Best(now, CHOOSE r \in other : TRUE)

\* on_lap, after the lap has been told: n, time, the laps that do not count,
\* whether verdicts were revised, the best of the other laps (0: none).
OnLap(e, n, time, excluded, revised, before) ==
    LET record == [n |-> n, time |-> time, counts |-> n \notin excluded]
        told == [e EXCEPT !.hist = SubSeq(<<record>> \o @, 1, Min({Len(@) + 1, HistorySize}))]
        flagged == IF ~revised THEN told
                   ELSE IF e.chase THEN Settled(Reflagged(told, excluded))
                   ELSE Reflagged(told, excluded)
        others == {flagged.hist[i].time : i \in {j \in DOMAIN flagged.hist \ {1} : flagged.hist[j].counts}}
        best == IF before > 0 THEN before ELSE IF others = {} THEN time ELSE Min(others)
    IN IF ~record.counts THEN flagged
       ELSE IF ~e.chase THEN IF time <= best THEN Best(flagged, record) ELSE flagged
       ELSE IF flagged.confirmed /\ time < flagged.chased.time
            THEN Adopted(flagged, [lap |-> Samples(e, record), time |-> time], n)
            ELSE flagged

\* _sector_reference_time_ms.
SplitTime(e, lap) ==
    IF e.chase THEN IF lap = e.chased.lap THEN e.chased.time ELSE 0
    ELSE LET mine == {i \in DOMAIN e.hist : e.hist[i].n = e.refLap /\ Samples(e, e.hist[i]) = lap
                                            /\ e.hist[i].counts}
         IN IF mine = {} THEN 0 ELSE e.hist[CHOOSE i \in mine : TRUE].time

-----------------------------------------------------------------------------
(* refresh_reference, with session_lock held.                              *)

\* What it does before it first waits: eng becomes e, lock becomes after or
\* stands at an await of the refresh.
Refresh(e, by, then) ==
    LET begun == [Unsplit(e) EXCEPT !.ref = e.pending, !.pending = Nothing]
        done == IF then = "no" THEN Free ELSE [by EXCEPT !.at = then, !.then = "no"]
    IN IF e.pending = Nothing THEN eng' = e /\ lock' = done
       ELSE IF e.road # Unknown THEN eng' = begun /\ lock' = [by EXCEPT !.at = "sectors", !.then = then]
       ELSE IF coaching THEN eng' = begun /\ lock' = [by EXCEPT !.at = "corners", !.then = then]
       ELSE eng' = [begun EXCEPT !.corners = Nothing] /\ lock' = done

After == IF lock.then = "no" THEN Free ELSE [lock EXCEPT !.at = lock.then, !.then = "no"]

\* The sectors are timed, or the circuit has none.
SectorsReady ==
    /\ lock.at = "sectors"
    /\ \E timed \in BOOLEAN :
          LET time == SplitTime(eng, eng.ref)
              now == [eng EXCEPT !.splits = IF timed /\ time > 0 THEN [lap |-> eng.ref, time |-> time] ELSE @]
          IN IF coaching THEN eng' = now /\ lock' = [lock EXCEPT !.at = "corners"]
             ELSE eng' = [now EXCEPT !.corners = Nothing] /\ lock' = After
    /\ UNCHANGED <<driving, service, coaching, counters, missed, torn>>

\* The corners are found, or finding them failed.
CornersReady ==
    /\ lock.at = "corners"
    /\ \E found \in BOOLEAN : eng' = [eng EXCEPT !.corners = IF found THEN eng.ref ELSE Nothing]
    /\ lock' = After /\ torn' = FALSE
    /\ UNCHANGED <<driving, service, coaching, counters, missed>>

-----------------------------------------------------------------------------
(* The recorder.                                                           *)

Excluded(ls, part) ==
    {n \in DOMAIN ls : ls[n].ruling = "out" \/ (ls[n].ruling = "none" /\ n \in part)}

\* The reference to come is a lap that does not count (any more).
StillToCome(e, excluded) == e.pending \in {Driven(e.session, n) : n \in excluded}

\* _on_session: an outing begins, perhaps elsewhere or in another car.
SessionStarts ==
    /\ lock = Free /\ sessions < MaxSessions
    /\ road' \in Roads /\ car' \in Cars
    /\ sessions' = sessions + 1 /\ session' = sessions'
    /\ laps' = <<>> /\ partial' = {} /\ known' = FALSE /\ missed' = FALSE
    /\ eng' = OnSession(eng, session', car')
    /\ UNCHANGED <<voice, lock, asked, task, coaching, picks, events, torn>>

\* _on_lap, up to its first await: the processor has judged.
LapCompletes ==
    /\ lock = Free /\ session # 0 /\ Len(laps) + sessions <= MaxLaps
    /\ \E time \in Times : laps' = Append(laps, [time |-> time, ruling |-> "none"])
    /\ partial' \in SUBSET DOMAIN laps'
    /\ Len(laps') > 1 => partial' # DOMAIN laps'
    /\ lock' = [by |-> "lap", at |-> "saving", then |-> "no", changed |-> partial' # partial]
    /\ UNCHANGED <<road, car, session, service, eng, coaching, counters, missed, torn>>

\* The lap is saved and its circuit looked for; with voice on, on_track.
LapSaved ==
    /\ lock.at = "saving"
    /\ known' \in {known, TRUE}
    /\ IF ~voice
       THEN /\ lock' = Free /\ missed' = (missed \/ lock.changed)
            /\ UNCHANGED eng
       ELSE /\ LET e == OnTrack(eng, IF known' THEN road ELSE Unknown)
               IN IF Resumes(eng, IF known' THEN road ELSE Unknown)
                  THEN Refresh(e, lock, "placing")
                  ELSE eng' = e /\ lock' = [lock EXCEPT !.at = "placing"]
            /\ UNCHANGED missed
    /\ UNCHANGED <<driving, voice, asked, task, coaching, counters, torn>>

\* prepare_lap is over: on_lap, and the refresh.
LapPlaced ==
    /\ lock.at = "placing"
    /\ LET n == Len(laps)
           out == Excluded(laps, partial)
           before == {laps[m].time : m \in (DOMAIN laps \ {n}) \ out}
           e == OnLap(eng, n, laps[n].time, out, lock.changed, IF before = {} THEN 0 ELSE Min(before))
       IN Refresh(e, lock, "no") /\ missed' = (missed \/ StillToCome(e, out))
    /\ UNCHANGED <<driving, service, coaching, counters, torn>>

\* apply_best_override.
Rule ==
    /\ lock = Free /\ Happens
    /\ \E n \in DOMAIN laps, ruling \in {"none", "in", "out"} :
          LET ls == [laps EXCEPT ![n].ruling = ruling]
              e == Overridden(eng, Excluded(ls, partial))
          IN /\ ruling # laps[n].ruling
             /\ laps' = ls /\ missed' = (missed \/ StillToCome(e, Excluded(ls, partial)))
             /\ IF voice THEN Refresh(e, [lock EXCEPT !.by = "ruling"], "no")
                ELSE eng' = e /\ UNCHANGED lock
    /\ UNCHANGED <<road, car, session, partial, service, coaching, sessions, picks, torn>>

\* _reset_recorder: the recordings are deleted or replaced.
Reset ==
    /\ lock = Free /\ session # 0 /\ Happens
    /\ session' = 0 /\ laps' = <<>> /\ partial' = {} /\ known' = FALSE /\ missed' = FALSE
    /\ eng' = ChosenBest(OnSession(eng, 0, car))
    /\ UNCHANGED <<road, car, voice, lock, asked, task, coaching, sessions, picks, torn>>

\* create_track: the driver names the circuit.
CircuitNamed ==
    /\ session # 0 /\ laps # <<>> /\ known' = TRUE /\ ~known
    /\ UNCHANGED <<driving, voice, asked, task, lock, eng, coaching, counters, missed, torn>>

\* A page claims or leaves the voice, or the categories of coaching change.
Toggle ==
    /\ Happens
    /\ \/ voice' = ~voice /\ UNCHANGED coaching
       \/ coaching' = ~coaching /\ UNCHANGED voice
    /\ UNCHANGED <<driving, known, asked, task, lock, eng, sessions, picks, missed, torn>>

-----------------------------------------------------------------------------
(* A page asks for a reference.                                            *)

BestOfSession == <<"session_best">>

\* request_engineer_reference.
Ask ==
    /\ picks < MaxPicks /\ picks' = picks + 1
    /\ asked' \in {BestOfSession} \cup {Stored(l) : l \in StoredLaps}
    /\ UNCHANGED <<driving, known, voice, task, lock, eng, coaching, sessions, events, missed, torn>>

\* _apply_reference_requests, and select_engineer_reference up to the lock.
TaskTakes ==
    /\ ~task.on /\ asked # Nothing /\ asked' = Nothing
    /\ IF asked = BestOfSession \/ StoredRoad[asked[2]] = TrackName
       THEN task' = [on |-> TRUE, lap |-> asked, road |-> TrackName]
       ELSE UNCHANGED task
    /\ UNCHANGED <<driving, known, voice, lock, eng, coaching, counters, missed, torn>>

\* select_engineer_reference, with the lock.
TaskApplies ==
    /\ task.on /\ lock = Free
    /\ LET by == [Free EXCEPT !.by = "request"]
       IN IF task.lap = BestOfSession THEN Refresh(ChosenBest(eng), by, "no")
          ELSE IF task.road # TrackName THEN UNCHANGED <<eng, lock>>
          ELSE Refresh(ChosenLap([eng EXCEPT !.road = task.road], task.lap[2]), by, "no")
    /\ task' = NoTask
    /\ UNCHANGED <<driving, known, voice, asked, coaching, counters, missed, torn>>

\* A task is cancelled at its await.
CutOff ==
    /\ Happens
    /\ \/ /\ lock.by \in {"lap", "request"} /\ lock' = Free
          /\ missed' = (missed \/ (lock.changed /\ (lock.at \in {"saving", "placing"} \/ lock.then = "placing")))
          /\ torn' = (torn \/ lock.at \in {"sectors", "corners"})
          /\ UNCHANGED task
       \/ /\ task.on /\ task' = NoTask /\ UNCHANGED <<lock, missed, torn>>
    /\ UNCHANGED <<driving, known, voice, asked, eng, coaching, sessions, picks>>

-----------------------------------------------------------------------------
Drives == SessionStarts \/ LapCompletes \/ LapSaved \/ LapPlaced \/ SectorsReady \/ CornersReady

Asks == Ask \/ TaskTakes \/ TaskApplies \/ Rule \/ Reset \/ CircuitNamed \/ Toggle \/ CutOff

Next == Drives \/ Asks

Spec == Init /\ [][Next]_vars

-----------------------------------------------------------------------------
(* Properties.                                                             *)

\* The shape of the state.
TypeOK ==
    /\ road \in Roads /\ car \in Cars /\ partial \subseteq DOMAIN laps
    /\ lock.by \in {"nobody", "lap", "ruling", "request"}
    /\ lock.at \in {"no", "saving", "placing", "sectors", "corners"}
    /\ Len(eng.hist) <= HistorySize /\ (task.on => task.lap # Nothing)

OfThisSession == {Driven(session, n) : n \in DOMAIN laps}

Counting == {Driven(session, n) : n \in DOMAIN laps \ Excluded(laps, partial)}

\* The coaching reference is a lap that counts: a lap found partial, or ruled
\* out, is nobody's reference once the lap or the ruling has been dealt with
\* and no other lap is to replace it.
\* A chase is of the floor or of a lap of this session that counts, and no
\* lap of the history that counts is quicker, whatever has been ruled, revised,
\* restarted and chosen since.
ReferenceCounts ==
    /\ lock = Free /\ ~eng.chase /\ ~missed /\ eng.pending = Nothing =>
          eng.ref \in {Nothing} \cup Counting
    /\ lock = Free /\ eng.chase /\ eng.confirmed /\ ~missed =>
          LET counting == {i \in DOMAIN eng.hist : Samples(eng, eng.hist[i]) \in Counting}
          IN /\ eng.chased.lap \in {eng.base.lap} \cup Counting
             /\ eng.chased.time = Min({eng.base.time, eng.chased.time} \cup {eng.hist[i].time : i \in counting})
             /\ eng.pending = Nothing => eng.ref = eng.chased.lap

\* Nothing is compared with a lap of another circuit, nor with the corners or
\* the sector times of another lap: a chase does not outlive the circuit or
\* the car it was chosen with, no lap looked up on one circuit is adopted on
\* the next, and what is announced against a reference was made from it.
ReferenceWhole ==
    eng.ref # Nothing =>
        /\ eng.ref \notin OfThisSession =>
              eng.chase /\ eng.confirmed /\ eng.baseRoad = road /\ eng.baseCar = car
        /\ eng.ref[1] = "stored" => StoredRoad[eng.ref[2]] = road
        /\ eng.splits # NoBase => eng.splits.lap = eng.ref
        /\ lock = Free /\ ~torn => eng.corners \in {Nothing, eng.ref}

\* Both: a lap is compared with one that counts, and with all of it.
ReferenceSound == ReferenceCounts /\ ReferenceWhole

=============================================================================
