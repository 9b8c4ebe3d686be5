------------------------------ MODULE LapCalls ------------------------------
(* What the race engineer says as a lap ends: fuel for the distance and    *)
(* the pit window (detectors/fuel.py), a slump in the pace (pace.py), a    *)
(* personal best (lap.py) and a repeated mistake (coaching.py), over the   *)
(* history of laps manager.py on_lap keeps.                                *)
(*                                                                         *)
(* The lap processor hands a lap over while it takes in the first packet   *)
(* of the next one, which the manager sees only afterwards; a salvaged lap *)
(* comes later. Ranges are in quarters of a lap, times in tenths; which    *)
(* laps count is the processor's word, here the environment's. Left out:   *)
(* the range that is said every lap, a lap's coaching against the          *)
(* reference, and the keeping of the reference (EngineerReference).        *)
(***************************************************************************)
EXTENDS CalloutGate

CONSTANTS
    TotalLaps,   \* of the race
    Ranges,      \* what the tank may be good for, in quarters of a lap
    Times,       \* lap times
    Places,      \* a kind of mistake, a wheel and a stretch of the track, numbered
                 \* in the order a lap comes to them
    Mistakes,    \* what a lap may have of each place, in [Places -> Nat]
    HistorySize, \* MAX_LAP_HISTORY
    PaceWindow, PaceMinLaps, \* PACE_WINDOW_LAPS, PACE_MIN_LAPS
    ConfirmedAfter, \* laps of a session until its circuit's length is settled
    MaxDriven, MaxSessions, MaxUpsets \* bounds; upsets: toggles, verdicts

Margin == 1      \* FUEL_SHORTFALL_MARGIN_LAPS
Deeper == 2      \* FUEL_SHORTFALL_ESCALATION_LAPS
CoachWindow == 3 \* COACH_WINDOW_LAPS
CoachHits == 3   \* COACH_MIN_OCCURRENCES

Types == {"fuel_short", "pit_window_next", "pit_window_open", "lap_time",
          "personal_best", "pace_drop", "repeated"}

VARIABLES
    topic, voice, spoken,
    laps,    \* the session's laps so far: time, and whether it counts
    session, driven, upsets, \* counters of the bounds
    hist,    \* ctx.laps, newest first
    best,    \* ctx.best_lap_ms, 0: None
    seen,    \* current_lap of ctx.packet, 0: no packet yet
    det,     \* what the detectors keep
    gate,
    \* history
    told,    \* what the driver knows: the shortage, types said, slump, places
    due,     \* what the last lap handed over gave cause to say
    excused, \* a call was spent on a category that was off, or taken back
    deaf,    \* a lap of this session was not handed over
    wrong    \* calls that were not so

counters == <<session, driven, upsets>>
manager == <<hist, best, seen, det, gate>>
history == <<told, due, excused, wrong>>
vars == <<topic, voice, spoken, laps, counters, manager, history, deaf>>

\* Fuel: laps short in a row, the shortage last asked about, the pit window;
\* pace: in a slump, and which; coaching: the lap each place was last raised.
Fresh == [short |-> 0, last |-> 0, pit |-> "", dropped |-> FALSE, spell |-> 0,
          raised |-> [p \in Places |-> 0]]
Ignorant == [short |-> 0, types |-> {}, slump |-> 0, places |-> {}]
Nothing == [short |-> 0, open |-> FALSE, slump |-> 0, waits |-> 0]

Init ==
    /\ topic \in {"plan", "pace", "coach"} /\ voice = TRUE /\ spoken = TRUE
    /\ laps = <<>> /\ session = 1 /\ driven = 0 /\ upsets = 0
    /\ hist = <<>> /\ best = 0 /\ seen = 1 /\ det = Fresh /\ gate = NewGate
    /\ told = Ignorant /\ due = Nothing /\ excused = FALSE /\ deaf = FALSE
    /\ wrong = {}

-----------------------------------------------------------------------------
(* The detectors: each gives what it keeps and what it asks for.           *)

Quick(set) == IF set = {} THEN 0 ELSE Min(set)

\* Mutant of Shortage: a deeper one is not asked about.
ShortageOnce(d, lap, r) ==
    LET s == 4 * (TotalLaps - lap + 1) - r
        asks == d.short + 1 >= 2 /\ d.last = 0
    IN IF s <= Margin THEN [det |-> [d EXCEPT !.short = 0, !.last = 0], asks |-> <<>>]
       ELSE [det |-> [d EXCEPT !.short = Min({@ + 1, 2}), !.last = IF asks THEN s ELSE @],
             asks |-> IF asks THEN <<Request("fuel_short", <<"fuel_short", 0>>, s \div Deeper + 1)>>
                      ELSE <<>>]

\* FuelDetector._race_distance_calls, the shortage: with the range r.
Shortage(d, lap, r) ==
    LET s == 4 * (TotalLaps - lap + 1) - r
        asks == d.short + 1 >= 2 /\ (d.last = 0 \/ s - d.last >= Deeper)
    IN IF s <= Margin THEN [det |-> [d EXCEPT !.short = 0, !.last = 0], asks |-> <<>>]
       ELSE [det |-> [d EXCEPT !.short = Min({@ + 1, 2}), !.last = IF asks THEN s ELSE @],
             asks |-> IF asks THEN <<Request("fuel_short", <<"fuel_short", 0>>, s \div Deeper + 1)>>
                      ELSE <<>>]

\* FuelDetector._race_distance_calls, the pit window.
Window(lap, r) ==
    LET pit == lap + r \div 4
    IN IF pit >= TotalLaps THEN ""
       ELSE IF pit <= lap THEN "pit_window_open"
       ELSE IF pit = lap + 1 THEN "pit_window_next"
       ELSE ""

PitCall(d, lap, r) ==
    LET state == Window(lap, r)
    IN IF state \in {"", d.pit} THEN [det |-> d, asks |-> <<>>]
       ELSE [det |-> [d EXCEPT !.pit = state],
             asks |-> <<Request(state, <<state, lap + r \div 4>>, 0)>>]

\* FuelDetector.on_lap, with two laps of history.
Planned(d, h, lap, r) ==
    IF Len(h) < 2 \/ lap = 0 THEN [det |-> d, asks |-> <<>>]
    ELSE LET short == Shortage(d, lap, r)
             pit == PitCall(short.det, lap, r)
         IN [det |-> pit.det, asks |-> short.asks \o pit.asks]

Counting(h) == SelectSeq(h, LAMBDA x : x.counts)
Total(h) == FoldLeft(LAMBDA a, x : a + x.time, 0, h)

\* How far the last laps of h (newest first) are off the best, in tenths times
\* the window.
Slack(h, b) == Total(SubSeq(h, 1, PaceWindow)) - PaceWindow * b
OnPace(h, b) == \E i \in 1..PaceWindow : h[i].time - b < 4

\* Mutant of PaceOf: a recovery is not another spell.
PaceOfOneSpell(d, h, b) ==
    LET counted == Counting(h)
    IN IF Len(counted) < PaceMinLaps \/ b = 0 THEN [det |-> d, asks |-> <<>>]
       ELSE IF OnPace(counted, b) \/ Slack(counted, b) < 4 * PaceWindow
            THEN [det |-> [d EXCEPT !.dropped = FALSE], asks |-> <<>>]
       ELSE IF Slack(counted, b) < 8 * PaceWindow THEN [det |-> d, asks |-> <<>>]
       ELSE [det |-> [d EXCEPT !.dropped = TRUE],
             asks |-> <<Request("pace_drop", <<"pace", d.spell>>,
                                Slack(counted, b) \div (5 * PaceWindow))>>]

\* PaceDetector.on_lap for a lap that counts, against the best b.
PaceOf(d, h, b) ==
    LET counted == Counting(h)
    IN IF Len(counted) < PaceMinLaps \/ b = 0 THEN [det |-> d, asks |-> <<>>]
       ELSE IF OnPace(counted, b) \/ Slack(counted, b) < 4 * PaceWindow
            THEN [det |-> [d EXCEPT !.dropped = FALSE,
                                    !.spell = IF d.dropped THEN @ + 1 ELSE @],
                  asks |-> <<>>]
       ELSE IF Slack(counted, b) < 8 * PaceWindow THEN [det |-> d, asks |-> <<>>]
       ELSE [det |-> [d EXCEPT !.dropped = TRUE],
             asks |-> <<Request("pace_drop", <<"pace", d.spell>>,
                                Slack(counted, b) \div (5 * PaceWindow))>>]

\* LapDetector.on_lap.
LapCall(h, before) ==
    IF ~h[1].counts THEN <<>>
    ELSE LET type == IF before # 0 /\ h[1].time < before THEN "personal_best" ELSE "lap_time"
         IN <<Request(type, <<type, h[1].n>>, 0)>>

\* CoachingDetector._repeated_events: of the places where it went wrong often
\* enough in the last laps, whichever session they are of, only the one with the
\* most hits, the first the detector comes to on the way back from the newest.
On(h, i, p) == IF i <= Len(h) THEN h[i].mistakes[p] ELSE 0
Hits(h, p) == On(h, 1, p) + On(h, 2, p) + On(h, 3, p)
Lately(h, p) == Min({i \in 1..CoachWindow : On(h, i, p) > 0})
Habits(h) == {p \in Places : Hits(h, p) >= CoachHits}
Before(h, p, q) == Lately(h, p) < Lately(h, q) \/ (Lately(h, p) = Lately(h, q) /\ p < q)
Worst(h) ==
    CHOOSE p \in Habits(h) : \A q \in Habits(h) \ {p} :
        Hits(h, p) > Hits(h, q) \/ (Hits(h, p) = Hits(h, q) /\ Before(h, p, q))

Coached(d, h) ==
    IF Habits(h) = {} THEN [det |-> d, asks |-> <<>>]
    ELSE LET p == Worst(h)
         IN IF d.raised[p] # 0 /\ h[1].n - d.raised[p] < 2 THEN [det |-> d, asks |-> <<>>]
            ELSE [det |-> [d EXCEPT !.raised[p] = h[1].n],
                  asks |-> <<Request("repeated", <<"repeated", p>>, 0)>>]

-----------------------------------------------------------------------------
(* A lap ends.                                                             *)

\* A lap as the processor has it, and as the history does (LapRecord).
Lap(time, counts) == [time |-> time, counts |-> counts]
Record(lap, n, mistakes) ==
    [session |-> session, n |-> n, time |-> lap.time, counts |-> lap.counts,
     mistakes |-> mistakes]

\* _reflag: this session's laps in the history, by what the processor says.
Reflagged(h, now) ==
    [i \in DOMAIN h |-> IF h[i].session = session THEN [h[i] EXCEPT !.counts = now[h[i].n].counts]
                        ELSE h[i]]

BestOf(set) == Quick({x.time : x \in {y \in set : y.counts}})

\* What the detectors of the topic make of the newest lap of h.
Detected(h, before, range) ==
    CASE topic = "plan" -> Planned(det, h, seen, range)
      [] topic = "pace" ->
             LET b == IF best # 0 THEN best ELSE before
                 pace == IF h[1].counts THEN PaceOf(det, h, b) ELSE [det |-> det, asks |-> <<>>]
             IN [pace EXCEPT !.asks = LapCall(h, before) \o @]
      [] topic = "coach" ->
             IF h[1].counts /\ h[1].n >= ConfirmedAfter THEN Coached(det, h)
             ELSE [det |-> det, asks |-> <<>>]

\* What was true of the lap: the laps are off the pace; the range falls short.
Slumped(now) ==
    LET counted == Counting(Reverse(now))
        b == BestOf(Range(now))
    IN Len(counted) >= PaceMinLaps /\ ~OnPace(counted, b) /\ Slack(counted, b) >= 8 * PaceWindow
RunsShort(n, range) == range < 4 * (TotalLaps - n)

\* Why a call that was not so was made.
Causes(said, now, n, range, revised) ==
    {c \in {"slump", "revised", "deaf", "short"} :
        IF c = "short" THEN "fuel_short" \in said /\ ~RunsShort(n, range)
        ELSE /\ "pace_drop" \in said /\ ~Slumped(now)
             /\ c = (IF deaf THEN "deaf" ELSE IF revised THEN "revised" ELSE "slump")}

\* The pace has come back with the newest lap.
Recovered(h, before) ==
    LET counted == Counting(h)
        b == IF best # 0 THEN best ELSE before
    IN /\ topic = "pace" /\ h[1].counts /\ b # 0 /\ Len(counted) >= PaceMinLaps
       /\ OnPace(counted, b) \/ Slack(counted, b) < 4 * PaceWindow

\* What the lap gave cause to say, and how long the worst habit has been waiting.
DueNow(d, h, range, asks, places) ==
    LET slumps == {r \in Range(asks) : r.type = "pace_drop"}
        habits == topic = "coach" /\ h[1].counts /\ h[1].n >= ConfirmedAfter /\ Habits(h) # {}
    IN [short |-> IF topic = "plan" /\ d.short = 2 THEN 4 * (TotalLaps - seen + 1) - range ELSE 0,
        open |-> topic = "plan" /\ Len(h) >= 2 /\ Window(seen, range) = "pit_window_open",
        slump |-> IF slumps = {} THEN 0 ELSE (CHOOSE r \in slumps : TRUE).severity,
        waits |-> IF habits /\ spoken /\ Worst(h) \notin places
                  THEN Min({due.waits + 1, 3}) ELSE 0]

\* on_lap, before the manager sees the next lap's first packet.
HandedOver(h, before, now, n, range, revised) ==
    LET found == Detected(h, before, range)
        judged == Judged(gate, found.asks, n, IF spoken THEN Types ELSE {"lap_time"})
        said == Range(judged.said)
        types == {r.type : r \in said}
        places == told.places \cup {r.key[2] : r \in {q \in said : q.type = "repeated"}}
    IN /\ hist' = h
       /\ det' = found.det /\ gate' = judged.gate
       /\ best' = Quick({before, IF h[1].counts THEN h[1].time ELSE 0} \ {0})
       /\ told' = [short |-> IF "fuel_short" \in types THEN found.det.last ELSE told.short,
                   types |-> told.types \cup types,
                   slump |-> IF Recovered(h, before) THEN 0
                             ELSE Max({told.slump} \cup {r.severity :
                                      r \in {q \in said : q.type = "pace_drop"}}),
                   places |-> places]
       /\ due' = DueNow(found.det, h, range, found.asks, places)
       /\ excused' = (excused \/ (~spoken /\ found.asks # <<>>)
                              \/ (told.short # 0 /\ found.det.last = 0))
       /\ wrong' = wrong \cup Causes(types, now, n, range, revised)

If(t, values) == IF topic = t THEN values ELSE {Min(values)}
NoMistakes == [p \in Places |-> 0]

\* A lap ends, of this time and with these mistakes; the tank is good for
\* `range`. It may not count, and with it an earlier one (`out`) no longer.
\* What varies is what the topic is about.
LapEnds ==
    \E time \in If("pace", Times), range \in If("plan", Ranges),
       mistakes \in IF topic = "coach" THEN Mistakes ELSE {NoMistakes},
       counts \in IF topic = "pace" THEN BOOLEAN ELSE {TRUE},
       out \in IF topic = "pace" THEN 0..Len(laps) ELSE {0} :
        LET n == Len(laps) + 1
            now == Append([i \in DOMAIN laps |-> IF i = out THEN [laps[i] EXCEPT !.counts = FALSE]
                                                 ELSE laps[i]],
                          Lap(time, counts))
            h == <<Record(now[n], n, mistakes)>> \o hist
            kept == SubSeq(IF out = 0 THEN h ELSE Reflagged(h, now), 1,
                           Min({HistorySize, Len(h)}))
        IN /\ driven < MaxDriven /\ driven' = driven + 1
           /\ topic = "plan" => n <= TotalLaps
           /\ IF counts /\ out = 0 THEN upsets' = upsets
              ELSE upsets < MaxUpsets /\ upsets' = upsets + 1
           /\ out # 0 => laps[out].counts
           /\ laps' = now
           /\ IF voice
              THEN /\ HandedOver(kept, BestOf(Range(SubSeq(now, 1, n - 1))), now, n, range,
                                 out # 0)
                   /\ seen' = n + 1 /\ deaf' = deaf
              ELSE /\ deaf' = TRUE
                   /\ UNCHANGED <<manager, history>>
           /\ UNCHANGED <<topic, voice, spoken, session>>

\* A lap the processor salvaged is handed over when the manager has seen the
\* lap after it.
SeesNextLap ==
    /\ topic = "plan" /\ voice /\ seen = Len(laps) + 1
    /\ seen' = Len(laps) + 2
    /\ UNCHANGED <<topic, voice, spoken, laps, counters, hist, best, det, gate,
                   history, deaf>>

\* The detectors' reset.
Reset(d) == Fresh

\* on_session. The history of laps survives; the seen packet is the next one's.
NewSession ==
    /\ session < MaxSessions /\ session' = session + 1
    /\ laps' = <<>> /\ best' = 0 /\ det' = Reset(det) /\ gate' = NewGate
    /\ seen' = IF voice THEN 1 ELSE seen
    /\ told' = Ignorant /\ due' = Nothing /\ excused' = FALSE /\ deaf' = FALSE
    /\ UNCHANGED <<topic, voice, spoken, driven, upsets, hist, wrong>>

\* apply_best_override: a lap is ruled in or out by hand.
Ruling ==
    \E i \in DOMAIN laps :
        LET now == [laps EXCEPT ![i].counts = ~@] IN
        /\ topic = "pace" /\ upsets < MaxUpsets /\ upsets' = upsets + 1
        /\ laps' = now
        /\ hist' = Reflagged(hist, now)
        /\ best' = BestOf(Range(now))
        /\ due' = Nothing
        /\ UNCHANGED <<topic, voice, spoken, session, driven, seen, det, gate, told,
                       excused, deaf, wrong>>

Toggle ==
    /\ upsets < MaxUpsets /\ upsets' = upsets + 1
    /\ \/ /\ voice' = ~voice /\ UNCHANGED spoken
          /\ seen' = IF voice THEN seen ELSE Len(laps) + 1
       \/ spoken' = ~spoken /\ UNCHANGED <<voice, seen>>
    /\ due' = Nothing
    /\ UNCHANGED <<topic, laps, session, driven, hist, best, det, gate, told,
                   excused, deaf, wrong>>

Next == LapEnds \/ SeesNextLap \/ NewSession \/ Ruling \/ Toggle

Spec == Init /\ [][Next]_vars

-----------------------------------------------------------------------------
(* Properties.                                                             *)

\* The variables have their types; the history is capped and its laps of this
\* session are the session's.
TypeOK ==
    /\ topic \in {"plan", "pace", "coach"} /\ {voice, spoken, excused, deaf} \subseteq BOOLEAN
    /\ Len(hist) <= HistorySize /\ best \in Times \cup {0} /\ seen \in Nat
    /\ det.short \in 0..2 /\ det.last \in Nat /\ det.spell \in Nat

\* The strategy the driver has heard is that of the last lap handed over: a
\* shortage that lasts has been told to within half a lap, and an open pit
\* window has been announced, unless the category was off when they came up
\* or a shortage told of went away again (FuelDetector and the gate).
PlanIsKnown ==
    topic = "plan" /\ ~excused =>
        /\ due.short > Margin => told.short # 0 /\ due.short < told.short + Deeper
        /\ due.open => "pit_window_open" \in told.types

\* A slump of the last lap handed over has been told of since the pace last
\* recovered, and at least as bad: a second slump is said, and so is one that
\* gets worse, even when the category was off at first. And none is told of
\* unless the last laps of this session that count are off its best, though the
\* history spans sessions and laps are ruled in and out; a lap ruled out with
\* the very lap, and a session not heard from its start, excepted
\* (PaceDetector).
SlumpIsTold ==
    /\ topic = "pace" /\ spoken => due.slump <= told.slump
    /\ "slump" \notin wrong

\* Of the mistakes that the last laps repeat, the one that stands out has been
\* told of by the second lap in a row on which one does, in the first session and
\* after a restart, whichever was raised before, and in vain while the category
\* was off. One that lasts as long but is never the worst is not promised: it is
\* said only once the other is over (CoachingDetector).
HabitIsTold == due.waits <= 1

\* What the history of laps gives cause to say is said.
HistoryIsTold == SlumpIsTold /\ HabitIsTold

\* A shortage that is said is one: the tank does not last to the finish. The
\* detector counts the lap just ended among those to come (fuel.py:115).
ShortageIsReal == "short" \notin wrong

\* pace.py: no slump is said of a personal best; one is when a faster lap is
\* ruled out with it.
NoFalseSlump == {"slump", "revised"} \cap wrong = {}

\* state.py: laps of an earlier session may not even be of this circuit.
SlumpOfThisSession == {"slump", "deaf"} \cap wrong = {}

=============================================================================
