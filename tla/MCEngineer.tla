------------------------------ MODULE MCEngineer ------------------------------
(* Model checking of the race engineer: EngineerReference, and what it     *)
(* says, PacketCalls, LapCalls and SectorTimes. They share no state here:  *)
(* a behaviour is one of the four. Two circuits and a lap stored at each.  *)
EXTENDS EngineerReference, TLC

CONSTANTS
    east, west, quick, slow,
    Retention, Crowd, Hold, PositionHold, RaceLaps, MaxPosition, MaxClock,
    MaxRestarts, MaxUpsets,
    Forgets, Few, DistanceLaps, Ranges, Paces, Places, Mistakes, Memory, PaceWindow, PaceMinLaps,
    ConfirmedAfter, MaxDriven, MaxChanges,
    Finish, SectorEnds, MaxStep, MaxPause, MaxTime, MaxRounds, MaxMishaps

MCStoredRoad == quick :> east @@ slow :> west
MCStoredTime == quick :> 1 @@ slow :> 3

\* SPECS, in ticks.
PacketCooldown ==
    [temp_high |-> 3, temp_critical |-> 3, fuel_low |-> 4, fuel_critical |-> 2,
     tire_high |-> 3, position |-> 5, final_lap |-> 0, race_halfway |-> 0]
LapCooldown ==
    [t \in {"fuel_short", "pit_window_next", "pit_window_open", "lap_time",
            "personal_best", "pace_drop", "repeated"} |-> 0]
MCSectorEnds == <<2, 5>>

\* Of one stretch or of both, and one of them twice.
MCMistakes == {<<0, 0>>, <<1, 0>>, <<1, 1>>, <<1, 2>>}

ASSUME LapsAssumption ==
    /\ {RaceLaps, DistanceLaps, Memory, PaceWindow, PaceMinLaps} \subseteq Nat \ {0}
    /\ PaceWindow <= PaceMinLaps /\ PaceMinLaps <= Memory

ASSUME PacketsAssumption == {Retention, PositionHold, Forgets} \subseteq Nat /\ Ranges \subseteq Nat

\* A car that is put elsewhere is farther away than one that drives there.
ASSUME SectorsAssumption ==
    SectorEnds \in Seq(Nat) /\ {Finish, MaxStep} \subseteq Nat /\ MaxStep <= 2

VARIABLES
    part,
    topic, on, spoken, now, warn, crit, average, lap, done, watcher, gate, restarts,
    upsets, told, spent, ripe, due, run, heard, odd, unseen,
    about, hearing, aloud, past, outing, driven, changes, hist, best, seen, det, passed,
    learnt, cause, excused, deaf, wrong,
    round, cell, time, when, samples, tracker, reported, splits, anew, mishaps

ofReference == <<driving, service, lock, eng, coaching, counters, missed, torn>>
ofPackets ==
    <<topic, on, spoken, now, warn, crit, average, lap, done, watcher, gate, restarts,
      upsets, told, spent, ripe, due, run, heard, odd, unseen>>
ofLaps ==
    <<about, hearing, aloud, past, outing, driven, changes, hist, best, seen, det, passed,
      learnt, cause, excused, deaf, wrong>>
ofSectors == <<round, cell, time, when, samples, tracker, reported, splits, anew, mishaps>>
all == <<part, ofReference, ofPackets, ofLaps, ofSectors>>

P == INSTANCE PacketCalls WITH
    Cooldown <- PacketCooldown, TotalLaps <- RaceLaps, MaxSessions <- MaxRestarts,
    voice <- on, sessions <- restarts
L == INSTANCE LapCalls WITH
    Cooldown <- LapCooldown, Retention <- Forgets, Crowd <- Few, TotalLaps <- DistanceLaps,
    Times <- Paces, HistorySize <- Memory, MaxSessions <- MaxRestarts, MaxUpsets <- MaxChanges,
    topic <- about, voice <- hearing, spoken <- aloud, laps <- past, session <- outing,
    upsets <- changes, gate <- passed, told <- learnt, due <- cause
S == INSTANCE SectorTimes WITH
    Boundaries <- SectorEnds, MaxLaps <- MaxRounds, lap <- round, passed <- when

\* A behaviour of another part keeps each at one of its states.
Begins ==
    /\ part \in {"reference", "packets", "laps", "sectors"}
    /\ Init /\ P!Init /\ L!Init /\ S!Init
    /\ part # "reference" => road = east /\ car = 1
    /\ part # "packets" => topic = "engine"
    /\ part # "laps" => about = "plan"

OfReference(step) ==
    part = "reference" /\ step /\ UNCHANGED <<part, ofPackets, ofLaps, ofSectors>>
OfPackets(step) ==
    part = "packets" /\ step /\ UNCHANGED <<part, ofReference, ofLaps, ofSectors>>
OfLaps(step) ==
    part = "laps" /\ step /\ UNCHANGED <<part, ofReference, ofPackets, ofSectors>>
OfSectors(step) ==
    part = "sectors" /\ step /\ UNCHANGED <<part, ofReference, ofPackets, ofLaps>>

Steps == OfReference(Next) \/ OfPackets(P!Next) \/ OfLaps(L!Next) \/ OfSectors(S!Next)

Behaves == Begins /\ [][Steps]_all

\* What the calls promise; a behaviour of another part owes it nothing.
CriticalIsHeard == part = "packets" => P!CriticalIsHeard
RaceCallsInOrder == part = "packets" => P!RaceCallsInOrder
PlanIsKnown == part = "laps" => L!PlanIsKnown
HistoryIsTold == part = "laps" => L!HistoryIsTold
SectorsAddUp == part = "sectors" => S!SectorsAddUp
=============================================================================
