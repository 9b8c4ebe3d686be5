----------------------------- MODULE SessionBests -----------------------------
(***************************************************************************)
(* Which laps of a session count, and what follows from it: the span guard *)
(* of processing/laps.py (_apply_span_guard and what it calls), the rows   *)
(* it flags and the live session best and delta reference it moves         *)
(* (service.py, _on_lap and apply_best_override), and the rulings made by  *)
(* hand over HTTP (api/routes.py, update_lap).                             *)
(*                                                                         *)
(* The verdicts live three times: in the processor, in the database and in *)
(* the service.  A lap's way through _on_lap is a step per await; it runs  *)
(* under session_lock, as apply_best_override does, but a ruling is in the *)
(* database before it waits for the lock.  The session of a ruling is read *)
(* with the lap; one about a session that is over changes nothing here.    *)
(* A lap has one number, as LapProcessor guarantees within a session.      *)
(* Left out: the lap deleted while its session is driven.                  *)
(***************************************************************************)
EXTENDS Integers, FiniteSets, SequencesExt

CONSTANTS
    Spans,          \* distances a lap may cover, Circuit the whole of it
    Circuit,
    Times,          \* the times a lap of each distance may take
    SpanWindow,     \* SPAN_WINDOW
    SpansForMedian, \* SPANS_FOR_MEDIAN
    MaxLaps,        \* bound: laps of the first session, two fewer in each later one
    MaxSessions,    \* bound
    MaxRulings,     \* bound: rulings by hand
    MaxFailures     \* bound: writes the database refuses

None == 0
Ruling == {"none", "in", "out"}

VARIABLES
    \* the processor
    laps,      \* _laps, by number: span, time, and whether it began off the line
    partial,   \* _partial
    overrides, \* _overrides, as a ruling for each lap
    best,      \* SessionInfo.best_lap_time_ms, None for -1
    \* the database: the rows of the session
    rows,
    \* the service
    shown,     \* _session_best_ms
    ref,       \* _best_ref_lap
    busy,      \* where the holder of session_lock stands
    lap,       \* the lap in _on_lap
    \* the requests, in the order they wait for session_lock
    asked,
    session, rulings, failures,
    torn       \* a write has failed since the rows were last brought in line

processor == <<laps, partial, overrides, best>>
service   == <<shown, ref, busy, lap>>
vars == <<processor, rows, service, asked, session, rulings, failures, torn>>

NoLap == [n |-> 0, changed |-> FALSE, excluded |-> {}, before |-> None]

Empty ==
    /\ laps = <<>> /\ partial = {} /\ overrides = <<>> /\ best = None
    /\ rows = <<>> /\ shown = None /\ ref = None /\ busy = "no" /\ lap = NoLap

Init == Empty /\ asked = <<>> /\ session = 1 /\ rulings = 0 /\ failures = 0 /\ torn = FALSE

-----------------------------------------------------------------------------
(* The span guard.                                                         *)

\* The laps that timed the circuit line to line.
Timed(ls) == {n \in DOMAIN ls : ~ls[n].offLine}

\* The last of them.
Window(ls) == {n \in Timed(ls) : Cardinality({m \in Timed(ls) : n < m}) < SpanWindow}

\* The k-th shortest span among some.
Nth(ls, w, k) ==
    CHOOSE v \in {ls[n].span : n \in w} :
        /\ Cardinality({n \in w : ls[n].span < v}) < k
        /\ k <= Cardinality({n \in w : ls[n].span <= v})

\* Mutant of TwiceReference: the longest lap is the yardstick.
TwiceLongest(ls) == 2 * Nth(ls, Window(ls), Cardinality(Window(ls)))

\* _reference_span, twice over, so that the median of an even number is whole.
TwiceReference(ls) ==
    LET w == Window(ls)
        c == Cardinality(w)
    IN IF c < SpansForMedian THEN 2 * Nth(ls, w, c)
       ELSE Nth(ls, w, (c + 1) \div 2) + Nth(ls, w, c \div 2 + 1)

\* FULL_LAP_SPAN_RATIO, PROVISIONAL_SPAN_RATIO.
Percent(ls) == IF Cardinality(Timed(ls)) >= SpansForMedian THEN 97 ELSE 93

\* The laps the guard condemns, of all the session has so far.
Partial(ls) ==
    LET short == {n \in Timed(ls) : 200 * ls[n].span < Percent(ls) * TwiceReference(ls)}
    IN (IF Cardinality(Timed(ls)) <= 1 THEN {} ELSE short) \cup {n \in DOMAIN ls : ls[n].offLine}

\* excluded_lap_numbers.
Excluded(ls, part, over) ==
    {n \in DOMAIN ls : over[n] = "out" \/ (over[n] = "none" /\ n \in part)}

\* _recompute_best, and session_best_before_ms.
Fastest(ls, numbers) ==
    IF numbers = {} THEN None ELSE Min({ls[n].time : n \in numbers})

\* A lap completes: the guard judges every lap anew before on_lap is called.
\* The first may be one begun on the grid, off the line, or raced.
LapCompletes ==
    /\ busy = "no" /\ Len(laps) + 2 * session < MaxLaps + 2
    /\ \E span \in Spans : \E time \in Times[span], offLine \in BOOLEAN, raced \in BOOLEAN :
          /\ raced \/ offLine => laps = <<>>
          /\ laps' = Append(laps, [span |-> span, time |-> time, offLine |-> offLine])
          /\ overrides' = Append(overrides, IF raced THEN "out" ELSE "none")
    /\ partial' = Partial(laps')
    /\ LET out == Excluded(laps', partial', overrides')
       IN /\ best' = Fastest(laps', DOMAIN laps' \ out)
          /\ lap' = [n |-> Len(laps'), changed |-> partial' # partial, excluded |-> out,
                     before |-> Fastest(laps', DOMAIN laps \ out)]
    /\ busy' = "saving"
    /\ UNCHANGED <<rows, shown, ref, asked, session, rulings, failures, torn>>

-----------------------------------------------------------------------------
(* _on_lap.                                                                *)

\* What follows the last await: a reference that stopped counting is dropped,
\* and a lap that beats the best before it becomes the reference.
Adopted ==
    /\ shown' = best /\ busy' = "no" /\ lap' = NoLap
    /\ ref' = IF lap.n \notin lap.excluded /\ (lap.before = None \/ laps[lap.n].time < lap.before)
              THEN lap.n
              ELSE IF lap.changed /\ ref \in lap.excluded THEN None ELSE ref

NewRow == [full |-> lap.n \notin partial, over |-> overrides[lap.n]]

\* save_lap.
LapSaved ==
    /\ busy = "saving"
    /\ rows' = Append(rows, NewRow)
    /\ IF lap.changed THEN busy' = "marking" /\ UNCHANGED <<shown, ref, lap>> ELSE Adopted
    /\ UNCHANGED <<processor, asked, session, rulings, failures, torn>>

\* save_lap raises: the lap is counted as lost, and that is all.
LapNotSaved ==
    /\ busy = "saving" /\ failures < MaxFailures
    /\ failures' = failures + 1 /\ torn' = TRUE
    /\ rows' = Append(rows, [full |-> FALSE, over |-> "lost"])
    /\ busy' = "no" /\ lap' = NoLap
    /\ UNCHANGED <<processor, shown, ref, asked, session, rulings>>

\* mark_session_laps_partial.
Marked(rs) == [n \in DOMAIN rs |-> [rs[n] EXCEPT !.full = n \notin partial]]

RowsMarked ==
    /\ busy = "marking"
    /\ rows' = Marked(rows) /\ torn' = FALSE
    /\ Adopted
    /\ UNCHANGED <<processor, asked, session, rulings, failures>>

\* It raises, and so does the packet.
RowsNotMarked ==
    /\ busy = "marking" /\ failures < MaxFailures
    /\ failures' = failures + 1 /\ torn' = TRUE /\ busy' = "no" /\ lap' = NoLap
    /\ UNCHANGED <<processor, rows, shown, ref, asked, session, rulings>>

-----------------------------------------------------------------------------
(* Rulings.                                                                *)

Stored == {n \in DOMAIN rows : rows[n].over # "lost"}

\* set_lap_best_override, and the lap as it is read back.
Rules ==
    /\ rulings < MaxRulings /\ rulings' = rulings + 1
    /\ \E n \in Stored, over \in Ruling :
        /\ rows[n].over # over
        /\ rows' = [rows EXCEPT ![n].over = over]
        /\ asked' = Append(asked, [n |-> n, over |-> over, session |-> session])
    /\ UNCHANGED <<processor, service, session, failures, torn>>

OfThisSession(r) == r.session = session

\* apply_best_override, to its first await: the ruling reaches the processor.
RulingApplied ==
    /\ busy = "no" /\ asked # <<>>
    /\ asked' = Tail(asked)
    /\ LET r == Head(asked)
           over == [overrides EXCEPT ![r.n] = r.over]
           out == Excluded(laps, partial, over)
       IN IF OfThisSession(r)
          THEN /\ overrides' = over /\ best' = Fastest(laps, DOMAIN laps \ out) /\ shown' = best'
               /\ busy' = "reloading"
               /\ UNCHANGED <<laps, partial>>
          ELSE UNCHANGED <<processor, shown, busy>>
    /\ UNCHANGED <<rows, ref, lap, session, rulings, failures, torn>>

Counts(row) == row.over = "in" \/ (row.over = "none" /\ row.full)

LastFastest(counting) == Max({n \in counting : laps[n].time = Fastest(laps, counting)})

\* _reload_best_ref: the newest of the fastest rows that count, list_laps
\* giving them newest first.
Reloaded ==
    LET counting == {n \in Stored : Counts(rows[n])}
    IN IF counting = {} THEN None ELSE LastFastest(counting)

RefReloaded ==
    /\ busy = "reloading" /\ busy' = "no"
    /\ ref' = Reloaded
    /\ UNCHANGED <<processor, rows, shown, lap, asked, session, rulings, failures, torn>>

ServiceCleared == shown' = None /\ ref' = None

\* _on_session.
NextSession ==
    /\ busy = "no" /\ session < MaxSessions
    /\ session' = session + 1
    /\ laps' = <<>> /\ partial' = {} /\ overrides' = <<>> /\ best' = None
    /\ rows' = <<>> /\ torn' = FALSE /\ ServiceCleared
    /\ UNCHANGED <<busy, lap, asked, rulings, failures>>

Next ==
    \/ LapCompletes \/ LapSaved \/ LapNotSaved \/ RowsMarked \/ RowsNotMarked
    \/ Rules \/ RulingApplied \/ RefReloaded \/ NextSession

Spec == Init /\ [][Next]_vars

-----------------------------------------------------------------------------
(* Properties.                                                             *)

\* The shape of the state.
TypeOK ==
    /\ Len(laps) <= MaxLaps
    /\ partial \subseteq DOMAIN laps /\ DOMAIN overrides = DOMAIN laps
    /\ Len(rows) = Len(laps) - (IF busy = "saving" THEN 1 ELSE 0)
    /\ {best, shown} \subseteq {None} \cup UNION Range(Times)
    /\ ref \in DOMAIN laps \cup {None}
    /\ busy \in {"no", "saving", "marking", "reloading"}
    /\ (lap = NoLap) = (busy \in {"no", "reloading"})

AtRest == busy = "no" /\ asked = <<>>

AllSaved == Stored = DOMAIN rows

\* The rows say what the processor says, of every lap and in both directions
\* (_on_lap: "Bring the rows back in line, or the DB aggregates ... keep the
\* old answer").  A refused write can only put it off until the next verdict
\* that changes.  The best the driver sees is then that of the laps the
\* database counts, and the live delta compares with a lap that counts.
RowsFollow ==
    AtRest /\ ~torn =>
        /\ \A n \in Stored : rows[n].full = (n \notin partial) /\ rows[n].over = overrides[n]
        /\ AllSaved => shown = Fastest(laps, {n \in Stored : Counts(rows[n])})
        /\ ref # None => ref \in Stored /\ Counts(rows[ref])

\* The same whatever the database refuses, which the code does not keep: the
\* change of a verdict is told once, with the lap that brought it.
RowsAlwaysFollow ==
    AtRest => \A n \in Stored : rows[n].full = (n \notin partial)

\* When most of the recent laps ran the circuit, every lap that ran it
\* counts as full and every shorter one does not, however long the longest
\* was (SPAN_WINDOW: "a single such lap would make every normal lap after it
\* look partial against a max-based yardstick").
JudgedByMajority ==
    LET timed == Timed(laps)
        recent == Window(laps)
        whole == {n \in recent : laps[n].span = Circuit}
    IN (Cardinality(timed) >= SpansForMedian /\ 2 * Cardinality(whole) > Cardinality(recent)) =>
           partial = {n \in timed : laps[n].span < Circuit} \cup {n \in DOMAIN laps : laps[n].offLine}

\* Both: what the rows say is what the laps were judged to be, rightly.
VerdictsHold == RowsFollow /\ JudgedByMajority

=============================================================================
