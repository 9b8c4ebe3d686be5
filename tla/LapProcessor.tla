----------------------------- MODULE LapProcessor -----------------------------
(***************************************************************************)
(* How laps and sessions are found in the console's stream:                *)
(* backend/app/processing/laps.py (LapProcessor.feed and what it calls),   *)
(* with the rows the service makes of them (service.py, _on_session and    *)
(* _on_lap).  feed runs under session_lock, so a packet is one step.       *)
(*                                                                         *)
(* The console is external: what it may do is what the code and            *)
(* tests/test_session_boundaries.py know of it.  Its laps are the truth    *)
(* the recorded ones are measured against.  A lap is as long as the ticks  *)
(* driven in it; that the integrated time of a buffer agrees with the time *)
(* GT7 reports (within SALVAGE_TOLERANCE_MS) is equality of ticks.  Left   *)
(* out: recording a replay, trimming what ran before or after the line,    *)
(* the lap clock, and the cap on lap 0.                                     *)
(***************************************************************************)
EXTENDS Integers, FiniteSets, SequencesExt

CONSTANTS
    Cars,
    MinTicks,    \* MIN_LAP_TICKS
    MaxTicks,    \* bound: the longest lap
    Races,       \* lengths of race, 0 for driving outside one
    MaxDrives,   \* bound: laps begun
    MaxLost,     \* bound: packets lost on the way
    MaxFailures  \* bound: sessions the database refuses to open

NoSession == 0
NoLap == [n |-> -1, time |-> 0, car |-> 0, of |-> {}]

VARIABLES
    game,      \* the console: car, race, lap, ticks of it, its last and best time, and where
               \* it stands
    drive,     \* which lap this is of all begun, and of which outing: ground truth
    driven,    \* the laps completed: ground truth
    lookalikes, \* the laps given up as long as a time GT7 reports: ground truth
    proc,      \* the LapProcessor
    rows,      \* the sessions in the database, each with its laps and results
    row,       \* service.session_id, 0 for none
    missed,    \* the last packet was lost on the way
    lost, failures

vars == <<game, drive, driven, lookalikes, proc, rows, row, missed, lost, failures>>

\* session: car and whether there is one; lap: _current_lap; of, ticks: the
\* buffer, as the laps its samples are from and its integrated time; held: the
\* salvage that waits; awaiting: _awaiting_salvage_continuation; times: what
\* _last_packet vouched for; finished: _race_finished.
Init ==
    /\ \E car \in Cars, lap \in {0, 1}, race \in Races :
          game = [car |-> car, race |-> race, lap |-> lap, ticks |-> 0, last |-> 0,
                  best |-> 0, at |-> "driving"]
    /\ drive = [id |-> 1, outing |-> 1]
    /\ driven = {} /\ lookalikes = {}
    /\ proc = [car |-> NoSession, lap |-> -1, of |-> {}, ticks |-> 0, held |-> NoLap,
               awaiting |-> FALSE, times |-> {}, finished |-> FALSE]
    /\ rows = <<>> /\ row = 0
    /\ missed = FALSE /\ lost = 0 /\ failures = 0

-----------------------------------------------------------------------------
(* The processor.  s is the processor with the rows its callbacks write:   *)
(* [p |-> proc, rows |-> rows, row |-> row].                               *)

\* total is total_laps, ticks the driving the packet adds to a buffer.
Packet(kind, car, lap, last, ticks) ==
    [kind |-> kind, car |-> car, total |-> game'.race, lap |-> lap, last |-> last,
     best |-> game'.best, ticks |-> ticks]

\* The lap times a packet reports.
Reported(k) == {k.last, k.best} \ {0}

\* _reset_lap_buffer.
Emptied(p) == [p EXCEPT !.of = {}, !.ticks = 0]

\* _on_lap: the lap is saved in the session the service has open.
Saved(s, lap) ==
    IF s.row = 0 THEN s ELSE [s EXCEPT !.rows[s.row].laps = Append(@, lap)]

\* _build_salvaged_lap: the buffer, if GT7 vouches for its time now or did in
\* the packet before.
Vouched(p, k) == p.ticks >= MinTicks /\ p.ticks \in Reported(k) \cup p.times

Salvaged(p) == [n |-> p.lap, time |-> p.ticks, car |-> p.car, of |-> p.of]

\* _hold_salvage.
Held(s, k) ==
    IF s.p.car # NoSession /\ s.p.held = NoLap /\ Vouched(s.p, k)
    THEN [s EXCEPT !.p.held = Salvaged(s.p)] ELSE s

\* _emit_salvaged.
Emitted(s, lap, check) ==
    LET saved == Saved([s EXCEPT !.p.awaiting = check], lap)
    IN IF check THEN saved ELSE [saved EXCEPT !.p.car = NoSession]

\* _emit_held_if_stale once the stop has lasted, and flush.
Released(s) ==
    IF s.p.held = NoLap \/ s.p.car = NoSession THEN s
    ELSE Emitted([s EXCEPT !.p = Emptied([@ EXCEPT !.held = NoLap])], s.p.held, TRUE)

\* Mutant of Resumes: a stop mid-lap is taken for the end of the lap.
ResumesNever(p, k) == FALSE

\* The same car on the same lap: the stop was one in mid-lap.
Resumes(p, k) == k.car = p.car /\ p.lap > 0 /\ k.lap = p.lap

\* _resolve_held.
Resolved(s, k) ==
    IF s.p.held = NoLap THEN s
    ELSE IF s.p.car = NoSession \/ Resumes(s.p, k) THEN [s EXCEPT !.p.held = NoLap]
    ELSE Released(s)

\* Mutant of Continues: a salvaged lap always ends its session.
ContinuesNever(p, k) == FALSE

Continues(p, k) == p.car = k.car /\ p.lap > 0 /\ k.lap = p.lap + 1

\* After a salvage: the next lap in the same car goes on in its session.
Continued(s, k) ==
    IF ~s.p.awaiting THEN s
    ELSE [s EXCEPT !.p.awaiting = FALSE,
                   !.p.car = IF Continues(s.p, k) THEN @ ELSE NoSession]

Resets(p, k) == p.lap > 0 /\ 0 <= k.lap /\ k.lap < p.lap

\* The session is about to be torn down with a lap in its buffer.
TornDown(s, k) ==
    IF s.p.car # NoSession /\ (k.car # s.p.car \/ Resets(s.p, k)) /\ Vouched(s.p, k)
    THEN Emitted([s EXCEPT !.p = Emptied(@)], Salvaged(s.p), FALSE)
    ELSE s

Opens(s, k) == s.p.car = NoSession \/ k.car # s.p.car \/ Resets(s.p, k)

\* create_session.
NewRow(car) == [car |-> car, laps |-> <<>>, results |-> <<>>, gone |-> FALSE]

\* _close_previous_session: a session that never got a lap is deleted.
Closed(s) ==
    IF s.row # 0 /\ s.rows[s.row].laps = <<>>
    THEN [s.rows EXCEPT ![s.row].gone = TRUE] ELSE s.rows

\* _on_session.  When the row is refused feed ends there, with the service
\* still at its old session, and the next packet finds nothing to open.
Opened(s, k, fails) ==
    LET parked == [s EXCEPT !.p.car = k.car, !.p.lap = -1, !.p.finished = FALSE,
                            !.rows = Closed(s)]
    IN IF fails THEN parked
       ELSE [parked EXCEPT !.rows = Append(@, NewRow(k.car)), !.row = Len(s.rows) + 1]

Completes(p, k) == p.lap > 0 /\ k.lap = p.lap + 1 /\ k.last > 0 /\ p.ticks >= MinTicks

\* _handle_lap_boundary.
Bounded(s, k) ==
    LET on == [s EXCEPT !.p = Emptied([@ EXCEPT !.lap = k.lap])]
    IN CASE k.lap = s.p.lap -> s
         [] k.lap # s.p.lap /\ Completes(s.p, k) ->
               Saved(on, [Salvaged(s.p) EXCEPT !.time = k.last])
         [] k.lap # s.p.lap /\ ~Completes(s.p, k) /\ s.p.lap >= 0 /\ Vouched(s.p, k) ->
               Emitted(on, Salvaged(s.p), FALSE)
         [] OTHER -> on

PastFinish(k) == 0 < k.total /\ k.total < k.lap

Finishes(p, k) == PastFinish(k) /\ ~p.finished

\* on_race_result.
Flagged(s, k) ==
    IF Finishes(s.p, k) /\ s.row # 0
    THEN [s EXCEPT !.p.finished = TRUE, !.rows[s.row].results = Append(@, k.total)]
    ELSE s

\* _append_sample, and _last_packet.
Sampled(s, k) ==
    LET sample == k.kind = "drive" /\ ~PastFinish(k)
    IN [s EXCEPT !.p.of = IF sample THEN @ \cup {drive'.id} ELSE @,
                 !.p.ticks = IF sample THEN @ + k.ticks ELSE @,
                 !.p.times = Reported(k)]

FinishBoundary(p, k) ==
    /\ p.car # NoSession /\ k.car = p.car /\ k.kind # "paused"
    /\ k.lap = p.lap + 1 /\ 0 < k.total /\ k.total = p.lap

Inactive(p, k) == (k.kind \in {"off", "paused"} \/ k.lap < 0) /\ ~FinishBoundary(p, k)

\* What feed does before it may open a session.
Judged(s, k) == TornDown(Continued(Resolved(s, k), k), k)

\* feed, for a packet that counts as driving.
Driven(s, k, fails) ==
    LET torn == Judged(s, k)
        open == IF Opens(torn, k) THEN Opened(torn, k, fails) ELSE torn
    IN IF Opens(torn, k) /\ fails THEN open ELSE Sampled(Flagged(Bounded(open, k), k), k)

\* feed, for one that does not: stale when the stop has outlasted
\* SALVAGE_WAIT_FRAMES, or the console has restarted its stream.
Idled(s, k, stale) ==
    LET stopped == k.kind = "loading" \/ k.car # s.p.car \/ k.lap # s.p.lap
        seen == IF s.p.car = NoSession \/ k.kind = "paused" THEN s
                ELSE IF stopped THEN Held(s, k) ELSE [s EXCEPT !.p.times = Reported(k)]
    IN IF stale THEN Released(seen) ELSE seen

Now == [p |-> proc, rows |-> rows, row |-> row]

Becomes(s) == proc' = s.p /\ rows' = s.rows /\ row' = s.row

\* One packet is fed, or lost on the way; an unseen tick is the next
\* sample's, which is why it does not shorten the lap.
Fed(k) ==
    \/ /\ missed' = FALSE /\ UNCHANGED <<lost, failures>>
       /\ IF k.kind = "loading" \/ Inactive(proc, k)
          THEN Becomes(Idled(Now, k, FALSE))
          ELSE Becomes(Driven(Now, k, FALSE))
    \/ /\ k.kind # "loading" /\ ~Inactive(proc, k) /\ failures < MaxFailures
       /\ Opens(Judged(Now, k), k)
       /\ Becomes(Driven(Now, k, TRUE))
       /\ failures' = failures + 1 /\ missed' = FALSE /\ UNCHANGED lost
    \/ /\ k.kind # "drive" /\ lost < MaxLost
       /\ lost' = lost + 1 /\ missed' = TRUE /\ UNCHANGED <<proc, rows, row, failures>>

-----------------------------------------------------------------------------
(* The console.                                                            *)

Began(outing) == [id |-> drive.id + 1, outing |-> outing]

ThisLap(time) ==
    [n |-> game.lap, time |-> time, car |-> game.car, id |-> drive.id, outing |-> drive.outing]

\* Lap 0 is the way to the line, and is no lap.
Ends ==
    /\ driven' = IF game.lap = 0 THEN driven ELSE driven \cup {ThisLap(game.ticks)}
    /\ UNCHANGED lookalikes

LastTime == IF game.lap = 0 THEN game.last ELSE game.ticks

BestTime == IF game.best = 0 THEN LastTime ELSE Min({game.best, LastTime} \ {0})

\* What was driven of this lap is given up: no lap, though it may be as long
\* as one of the times GT7 reports.
GivesUp ==
    lookalikes' = IF game.ticks \in {game.last, game.best} \ {0}
                  THEN lookalikes \cup {ThisLap(game.ticks)} ELSE lookalikes

\* On track, one tick on.
Drives ==
    /\ game.at = "driving" /\ game.ticks < MaxTicks
    /\ game' = [game EXCEPT !.ticks = @ + 1]
    /\ UNCHANGED <<drive, driven, lookalikes>>
    /\ Fed(Packet("drive", game.car, game.lap, game.last, 1))

\* Over the line, on track.
Crosses ==
    /\ game.at = "driving" /\ game.ticks >= MinTicks /\ drive.id < MaxDrives
    /\ game.race > 0 => game.lap < game.race
    /\ game' = [game EXCEPT !.lap = @ + 1, !.ticks = 1, !.last = LastTime, !.best = BestTime]
    /\ Ends /\ drive' = Began(drive.outing)
    /\ Fed(Packet("drive", game.car, game.lap + 1, LastTime, 1))

\* The chequered flag: the counter goes past the last lap, on track or not.
TakesFlag ==
    /\ game.at = "driving" /\ game.ticks >= MinTicks /\ 0 < game.race /\ game.lap = game.race
    /\ game' = [game EXCEPT !.lap = @ + 1, !.ticks = 0, !.last = LastTime, !.best = BestTime, !.at = "over"]
    /\ Ends /\ UNCHANGED drive
    /\ \E kind \in {"drive", "off"} : Fed(Packet(kind, game.car, game.lap + 1, LastTime, 0))

\* Into the pits, a pause, a loading screen: the counter may be blank.
Stops ==
    /\ game.at = "driving" /\ game.ticks > 0
    /\ game' = [game EXCEPT !.at = "stopped"]
    /\ UNCHANGED <<drive, driven, lookalikes>>
    /\ \E kind \in {"off", "loading", "paused"}, lap \in {-1, game.lap} :
          Fed(Packet(kind, game.car, lap, game.last, 0))

\* Into the pit lane on the line: the lap ends, the counter steps unseen.
PitsOnLine ==
    /\ game.at = "driving" /\ game.ticks >= MinTicks /\ game.lap > 0 /\ drive.id < MaxDrives
    /\ game.race > 0 => game.lap < game.race
    /\ game' = [game EXCEPT !.lap = @ + 1, !.ticks = 0, !.last = LastTime, !.best = BestTime, !.at = "stopped"]
    /\ Ends /\ drive' = Began(drive.outing)
    /\ \E kind \in {"off", "loading"}, lap \in {-1, game.lap + 1} :
          Fed(Packet(kind, game.car, lap, LastTime, 0))

\* More of the same while stopped, and for so long that no pit stop is meant.
Waits ==
    /\ game.at = "stopped"
    /\ UNCHANGED <<game, drive, driven, lookalikes>>
    /\ \E kind \in {"off", "loading"}, lap \in {-1, game.lap} :
          Fed(Packet(kind, game.car, lap, game.last, 0))

\* The lap goes on where it stopped, or begins behind the line.
Rejoins ==
    /\ game.at = "stopped" /\ game.ticks < MaxTicks
    /\ game' = [game EXCEPT !.at = "driving", !.ticks = @ + 1]
    /\ UNCHANGED <<drive, driven, lookalikes>>
    /\ Fed(Packet("drive", game.car, game.lap, game.last, 1))

\* The stream ends on the line, as a replay's does: the counter never steps,
\* and the time may come with the car still on track.  A menu may blank the
\* last time of a lap that is the best.
EndsOnLine ==
    /\ game.at = "driving" /\ game.ticks >= MinTicks /\ game.lap > 0
    /\ game' = [game EXCEPT !.ticks = 0, !.last = LastTime, !.best = BestTime, !.at = "over"]
    /\ Ends /\ UNCHANGED drive
    /\ \/ \E kind \in {"off", "loading"}, lap \in {-1, 0},
             last \in {LastTime} \cup (IF BestTime = game.ticks THEN {0} ELSE {}) :
             Fed(Packet(kind, game.car, lap, last, 0))
       \/ Fed(Packet("drive", game.car, game.lap, LastTime, 0))

\* The lap after the flag is no driving.
CoolsDown ==
    /\ game.at = "over" /\ 0 < game.race /\ game.race < game.lap
    /\ UNCHANGED <<game, drive, driven, lookalikes>>
    /\ Fed(Packet("drive", game.car, game.lap, game.last, 1))

\* The session is over: the stop has lasted, and the stream goes on idle.
Lasts ==
    /\ game.at \in {"stopped", "over"}
    /\ game' = [game EXCEPT !.at = "over"] /\ GivesUp
    /\ UNCHANGED <<drive, driven, missed, lost, failures>>
    /\ \E lap \in {-1, game.lap} :
          Becomes(Idled(Now, Packet("off", game.car, lap, game.last, 0), TRUE))

\* Another outing, in another car or visibly from an earlier lap.
SetsOut ==
    /\ ~missed
    /\ drive.id < MaxDrives
    /\ \E car \in Cars, lap \in {0, 1}, race \in Races :
          /\ car # game.car \/ lap < Min({game.lap, proc.lap}) \/ proc.awaiting
          /\ game' = [car |-> car, race |-> race, lap |-> lap, ticks |-> 1, last |-> 0,
                      best |-> 0, at |-> "driving"]
          /\ drive' = Began(drive.outing + 1)
          /\ GivesUp /\ UNCHANGED driven
          /\ Fed(Packet("drive", car, lap, 0, 1))

\* service.stop and switch_source: what is held is saved (flush).
Flushes ==
    /\ ~missed
    /\ Becomes(Released(Now))
    /\ game.at \in {"stopped", "over"}
    /\ game' = [game EXCEPT !.at = "over"] /\ GivesUp
    /\ UNCHANGED <<drive, driven, missed, lost, failures>>

-----------------------------------------------------------------------------
Next ==
    \/ Drives \/ Crosses \/ TakesFlag \/ Stops \/ PitsOnLine \/ Waits \/ Rejoins
    \/ EndsOnLine \/ CoolsDown \/ Lasts \/ SetsOut \/ Flushes

Spec == Init /\ [][Next]_vars

-----------------------------------------------------------------------------
(* Properties.                                                             *)

LapsOf(r) == ToSet(rows[r].laps)

AllLaps == UNION {LapsOf(r) : r \in DOMAIN rows}

\* The shape of the state.
TypeOK ==
    /\ game.lap \in 0 .. MaxDrives + 1 /\ game.ticks \in 0 .. MaxTicks
    /\ game.at \in {"driving", "stopped", "over"}
    /\ proc.car \in Cars \cup {NoSession} /\ proc.lap \in -1 .. MaxDrives + 1
    /\ proc.ticks \in Nat /\ (proc.ticks = 0) = (proc.of = {})
    /\ row \in 0 .. Len(rows)
    /\ \A r \in DOMAIN rows : rows[r].car \in Cars
    /\ row # 0 /\ failures = 0 => ~rows[row].gone

\* What is recorded was driven: each recorded lap is one lap of the console's,
\* with its number, its time and its car, and no lap is recorded twice; what
\* was given up is none but by the length of a lap GT7 reports.  The
\* one property that survives a session the database refused to open: the
\* laps that follow go to the one before it, see the README.  And what was
\* driven is recorded, by the time the next driving is seen (LapProcessor: "a
\* buffered lap the counter abandoned is salvaged").
RecordedAsDriven ==
    /\ \A lap \in AllLaps : \E d \in driven \cup lookalikes :
          lap = [n |-> d.n, time |-> d.time, car |-> d.car, of |-> {d.id}]
    /\ \A r \in DOMAIN rows : Len(rows[r].laps) = Cardinality(LapsOf(r))
    /\ \A q, r \in DOMAIN rows : q # r => LapsOf(q) \cap LapsOf(r) = {}
    /\ game.at = "driving" /\ failures = 0 =>
          \A d \in driven : \E lap \in AllLaps : lap.of = {d.id}

OutingOf(lap) == (CHOOSE d \in driven \cup lookalikes : lap.of = {d.id}).outing

\* A session holds the laps of one outing in one car, in the order they were
\* driven: a pit stop does not end it, and a new outing does (LapProcessor:
\* "a new session starts ... unless driving resumes in the same car on the
\* next lap"). Its race has one result, after the last lap is stored (feed:
\* "AFTER the boundary handler above has emitted the final lap").
SessionPerOuting ==
    failures = 0 =>
        /\ \A q, r \in DOMAIN rows : \A a \in LapsOf(q), b \in LapsOf(r) :
              (q = r) = (OutingOf(a) = OutingOf(b))
        /\ \A r \in DOMAIN rows :
              /\ LapsOf(r) # {} => ~rows[r].gone
              /\ \A lap \in LapsOf(r) : lap.car = rows[r].car
              /\ \A i, j \in DOMAIN rows[r].laps : i < j => rows[r].laps[i].n < rows[r].laps[j].n
              /\ Len(rows[r].results) <= 1
              /\ \A total \in ToSet(rows[r].results) : \E lap \in LapsOf(r) : lap.n = total

-----------------------------------------------------------------------------
(* What one would expect and the code does not do; no run checks it.       *)

\* A lap in the database was driven to its end: one given up that is as long
\* as the last lap or the best is taken for one (_salvage_candidates).
OnlyWhole == \A lap \in AllLaps : \E d \in driven : lap.of = {d.id}

=============================================================================
