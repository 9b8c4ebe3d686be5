---------------------------- MODULE MCRecording ----------------------------
(* Model checking of LapProcessor and SessionBests, a lap's way into the   *)
(* database and its verdict there: a behaviour is one of either. Two cars  *)
(* and laps of two or three ticks; laps of half the circuit, the circuit,  *)
(* and half as long again.                                                 *)
EXTENDS Integers, FiniteSets, TLC

CONSTANTS
    Cars, MinTicks, MaxTicks, Races, MaxDrives, MaxLost, MaxFailures,
    Spans, Circuit, Times, SpanWindow, SpansForMedian, MaxLaps, MaxSessions,
    MaxRulings, MaxRefusals

\* Half the circuit takes less time than all of it, and more of it no less.
MCTimes == 50 :> {1} @@ 100 :> {1, 2} @@ 144 :> {2}

ASSUME TicksAssumption ==
    /\ {MinTicks, MaxTicks, MaxDrives, MaxLost, MaxFailures} \cup Races \subseteq Nat
    /\ 0 < MinTicks /\ MinTicks <= MaxTicks
ASSUME SpansAssumption ==
    /\ Spans \subseteq Nat \ {0} /\ Circuit \in Spans
    /\ Times \in [Spans -> SUBSET (Nat \ {0})]
    /\ {SpansForMedian, SpanWindow} \subseteq Nat \ {0, 1} /\ SpansForMedian <= SpanWindow
    \* What is shorter than the circuit is so by more than the guard allows.
    /\ \A span \in Spans : span < Circuit => 100 * span < 97 * Circuit
    /\ {MaxLaps, MaxSessions, MaxRulings, MaxRefusals} \subseteq Nat

VARIABLES
    part,
    game, drive, driven, lookalikes, proc, rows, row, missed, lost, failures,
    laps, partial, overrides, best, marks, shown, ref, busy, lap, asked,
    session, rulings, refusals, torn

ofLaps == <<game, drive, driven, lookalikes, proc, rows, row, missed, lost, failures>>
ofBests ==
    <<laps, partial, overrides, best, marks, shown, ref, busy, lap, asked,
      session, rulings, refusals, torn>>
vars == <<part, ofLaps, ofBests>>

Laps == INSTANCE LapProcessor
Bests == INSTANCE SessionBests WITH
    rows <- marks, failures <- refusals, MaxFailures <- MaxRefusals

\* A behaviour of the bests keeps the game at one of its states.
Init ==
    /\ part \in {"laps", "bests"} /\ Laps!Init /\ Bests!Init
    /\ part = "bests" => game.car = 1 /\ game.lap = 1 /\ game.race = 0

OfLaps(step) == part = "laps" /\ step /\ UNCHANGED <<part, ofBests>>
OfBests(step) == part = "bests" /\ step /\ UNCHANGED <<part, ofLaps>>

Next == OfLaps(Laps!Next) \/ OfBests(Bests!Next)

Spec == Init /\ [][Next]_vars

\* What each promises; a behaviour of the other owes it nothing.
RecordedAsDriven == Laps!RecordedAsDriven
SessionPerOuting == Laps!SessionPerOuting
VerdictsHold == Bests!VerdictsHold
=============================================================================
