---------------------------- MODULE SectorTimes ----------------------------
(* The live sector times of race_engineer/sectors.py: LiveSectorTracker,   *)
(* which manager.py observe_sector and on_lap feed, and the replay of the  *)
(* reference lap through it.                                               *)
(*                                                                         *)
(* The lap is a line of cells, a sector ending at some of them. The car    *)
(* goes up to two cells forward in a frame of two units of time, stands,   *)
(* rolls back or is put elsewhere; a frame may leave no sample (paused,    *)
(* not recorded), which interrupts the tracker. The reference is prepared  *)
(* while the lap is driven, which sets the tracker up anew.                *)
(***************************************************************************)
EXTENDS Integers, SequencesExt, FiniteSetsExt, Functions

CONSTANTS
    Finish,    \* cells of a lap
    Boundaries, \* the cells where a sector ends, in order
    MaxStep,   \* MAX_LIVE_SAMPLE_DISTANCE_M, in cells
    MaxPause,  \* MAX_LIVE_SAMPLE_INTERVAL_S, in units
    MaxTime, MaxLaps, MaxMishaps \* bounds

VARIABLES
    lap, cell, time, \* the car, and the lap's clock
    passed,   \* when the car was at each boundary, going forward
    samples,  \* the lap's, as they are stored
    tracker,
    reported, \* what this lap's sectors were said to be
    splits,   \* _sector_reference_splits_ms
    anew,     \* the tracker began in the middle of this lap: history
    mishaps

vars == <<lap, cell, time, passed, samples, tracker, reported, splits, anew, mishaps>>

NoSample == [x |-> -1, t |-> -1]

\* LiveSectorTracker.reset and interrupt.
Cleared(n) == [lap |-> n, previous |-> NoSample, next |-> 1, last |-> 0]

Interrupted(k) == [k EXCEPT !.previous = NoSample]

NotPassed == [i \in DOMAIN Boundaries |-> {}]

Init ==
    /\ lap = 1 /\ cell = 0 /\ time = 0 /\ passed = NotPassed /\ samples = <<>>
    /\ tracker = Cleared(0) /\ reported = <<>> /\ splits = <<>>
    /\ anew = FALSE /\ mishaps = 0

-----------------------------------------------------------------------------
(* The tracker.                                                            *)

\* interpolated_boundary_crossing, of forward movement: the time, if any.
Crossing(a, b, boundary) ==
    IF a = NoSample \/ b.t <= a.t \/ b.t - a.t > MaxPause \/ b.x <= a.x \/ b.x - a.x > MaxStep
       \/ boundary \notin a.x..b.x
    THEN {}
    ELSE {a.t + ((boundary - a.x) * (b.t - a.t)) \div (b.x - a.x)}

Sector(k, at) == [sector |-> k.next, time |-> at - k.last, total |-> at]

\* Mutant of Observed: any boundary ahead may be the next.
ObservedAny(k, n, s) ==
    LET here == IF n = k.lap THEN k ELSE Cleared(n)
        ahead == {i \in here.next..Len(Boundaries) :
                      Crossing(here.previous, s, Boundaries[i]) # {}}
        at == IF ahead = {} THEN {} ELSE Crossing(here.previous, s, Boundaries[Min(ahead)])
    IN IF \A c \in at : c <= here.last
       THEN [tracker |-> [here EXCEPT !.previous = s], crossed |-> <<>>]
       ELSE LET c == CHOOSE c \in at : TRUE
            IN [tracker |-> [here EXCEPT !.previous = s, !.next = Min(ahead) + 1, !.last = c],
                crossed |-> <<[Sector(here, c) EXCEPT !.sector = Min(ahead)]>>]

\* observe: the tracker after a sample of lap n, and the sector it completes.
Observed(k, n, s) ==
    LET here == IF n = k.lap THEN k ELSE Cleared(n)
        at == IF here.next > Len(Boundaries) THEN {}
              ELSE Crossing(here.previous, s, Boundaries[here.next])
    IN IF \A c \in at : c <= here.last
       THEN [tracker |-> [here EXCEPT !.previous = s], crossed |-> <<>>]
       ELSE LET c == CHOOSE c \in at : TRUE
            IN [tracker |-> [here EXCEPT !.previous = s, !.next = @ + 1, !.last = c],
                crossed |-> <<Sector(here, c)>>]

\* complete: the last sector, if all the others were.
Completed(k, n, total) ==
    IF n = k.lap /\ k.next = Len(Boundaries) + 1 /\ total > k.last
    THEN <<Sector(k, total)>> ELSE <<>>

\* reference_sector_splits: the sectors of a lap's samples, or none.
Replayed(all, total) ==
    LET run == FoldLeft(LAMBDA a, s :
                            LET o == Observed(a.tracker, 1, s)
                            IN [tracker |-> o.tracker, crossed |-> a.crossed \o o.crossed],
                        [tracker |-> Cleared(0), crossed |-> <<>>], all)
        final == Completed(run.tracker, 1, total)
        sectors == run.crossed \o final
    IN IF final = <<>> THEN <<>> ELSE [i \in DOMAIN sectors |-> sectors[i].time]

-----------------------------------------------------------------------------
(* A lap.                                                                  *)

\* The boundaries the car is at or passes on its way from x to y, and when.
Passing(x, y) ==
    [i \in DOMAIN Boundaries |->
        IF x < y /\ Boundaries[i] \in x..y
        THEN {time + (2 * (Boundaries[i] - x)) \div (y - x)} ELSE {}]

\* sector_callout: the gate lets each sector of a lap through once.
Told(crossed) ==
    IF \E c \in Range(crossed), r \in Range(reported) : c.sector = r.sector THEN reported
    ELSE reported \o crossed

Mishap == mishaps < MaxMishaps /\ mishaps' = mishaps + 1

\* A frame in which the car gets to cell y, and which leaves a sample or not.
Frame(y, fresh) ==
    LET s == [x |-> y, t |-> time + 2]
        o == Observed(tracker, lap, s)
    IN /\ time + 2 <= MaxTime /\ time' = time + 2
       /\ cell' = y
       /\ IF fresh
          THEN /\ samples' = Append(samples, s)
               /\ tracker' = IF splits = <<>> THEN tracker ELSE o.tracker
               /\ reported' = IF splits = <<>> THEN reported ELSE Told(o.crossed)
          ELSE tracker' = Interrupted(tracker) /\ UNCHANGED <<samples, reported>>

Drive ==
    \E y \in cell..Min({cell + 2, Finish - 1}), fresh \in BOOLEAN :
        /\ Frame(y, fresh)
        /\ passed' = [i \in DOMAIN passed |-> passed[i] \cup Passing(cell, y)[i]]
        /\ IF fresh /\ y # cell THEN mishaps' = mishaps ELSE Mishap
        /\ UNCHANGED <<lap, splits, anew>>

\* The car rolls back, or is put elsewhere on the lap.
Displaced ==
    \E y \in 0..(Finish - 1) :
        /\ cell < Finish /\ (y = cell - 1 \/ y > cell + 2) /\ Mishap /\ Frame(y, TRUE)
        /\ UNCHANGED <<lap, passed, splits, anew>>

\* The line: on_lap completes the last sector of a lap that counts, which may
\* then become the reference; refresh_reference sets the tracker up for it.
Line ==
    \E counts, adopted \in BOOLEAN :
        /\ cell \in (Finish - 2)..(Finish - 1) /\ time + 2 <= MaxTime
        /\ adopted => counts
        /\ reported' = IF counts /\ splits # <<>>
                       THEN Told(Completed(tracker, lap, time + 2)) ELSE reported
        /\ splits' = IF adopted THEN Replayed(samples, time + 2) ELSE splits
        /\ tracker' = IF adopted THEN Cleared(0) ELSE tracker
        /\ time' = time + 2 /\ cell' = Finish
        /\ UNCHANGED <<lap, passed, samples, anew, mishaps>>

NextLap ==
    /\ cell = Finish /\ lap < MaxLaps /\ lap' = lap + 1
    /\ cell' = 0 /\ time' = 0 /\ passed' = NotPassed /\ samples' = <<>> /\ reported' = <<>>
    /\ anew' = FALSE
    /\ UNCHANGED <<tracker, splits, mishaps>>

\* refresh_reference in the middle of a lap, to a lap prepared elsewhere: its
\* sectors are some, and the tracker begins with this lap anew.
Refreshed ==
    /\ cell < Finish /\ Mishap
    /\ splits' = [i \in 1..(Len(Boundaries) + 1) |-> 2]
    /\ tracker' = Cleared(0) /\ anew' = TRUE
    /\ UNCHANGED <<lap, cell, time, passed, samples, reported>>

Next == Drive \/ Displaced \/ Line \/ NextLap \/ Refreshed

Spec == Init /\ [][Next]_vars

-----------------------------------------------------------------------------
(* Properties.                                                             *)

\* The variables have their types.
TypeOK ==
    /\ lap \in 1..MaxLaps /\ cell \in 0..Finish /\ time \in 0..MaxTime
    /\ tracker.next \in 1..(Len(Boundaries) + 1) /\ Len(splits) \in {0, Len(Boundaries) + 1}

\* What was told of the lap before sector i.
Before(i) == IF i = 1 THEN 0 ELSE reported[i - 1].total

\* The sectors a lap is told are its first ones, in order, each ending when the
\* car was really there, whatever was lost, rolled back or jumped over; with the
\* last one they add up to the lap's time, unless another reference came in the
\* middle of the lap (LiveSectorTracker: "in order, once per lap").
SectorsAddUp ==
    \A i \in DOMAIN reported :
        /\ reported[i].sector = i /\ reported[i].time > 0
        /\ anew \/ reported[i].total = Before(i) + reported[i].time
        /\ IF i <= Len(Boundaries) THEN reported[i].total \in passed[i]
           ELSE cell = Finish /\ reported[i].total = time

=============================================================================
