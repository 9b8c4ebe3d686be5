---------------------------- MODULE PacketCalls ----------------------------
(* What the race engineer says between the lines: the detectors that watch *)
(* every packet (detectors/base.py, engine.py, fuel.py, tires.py, race.py),*)
(* the watcher of positions (processing/live_events.py) and the gate their *)
(* requests go through, as service.py _on_packet drives them.              *)
(*                                                                         *)
(* A behaviour is about one detector, its topic: what the others ask for   *)
(* has keys of its own. A temperature, a pressure or a fuel range is a     *)
(* level: 2 and above warn, until it falls to 0; 4 is critical, until it   *)
(* falls below 3. "tires" stands for the detectors with one threshold; oil *)
(* pressure without revs is not driving, nor is fuel without a tank.       *)
(***************************************************************************)
EXTENDS CalloutGate

CONSTANTS
    Hold,         \* packet-clock time a condition must last
    PositionHold, \* POSITION_HOLD_TICKS, in packets
    TotalLaps, MaxPosition,
    MaxClock, MaxSessions, MaxUpsets \* bounds; upsets: toggles, restarts unseen

Topics == {"engine", "fuel", "tires", "race", "position"}
Watched == {"engine", "fuel", "tires"}

High == [engine |-> "temp_high", fuel |-> "fuel_low", tires |-> "tire_high"]
Critical == [engine |-> "temp_critical", fuel |-> "fuel_critical"]
OneOff == {"final_lap", "race_halfway"}
Types == {High[t] : t \in Watched} \cup {Critical[t] : t \in {"engine", "fuel"}}
         \cup OneOff \cup {"position"}

VARIABLES
    topic,
    voice,   \* engineer_active
    spoken,  \* whether the topic's category is
    now,     \* PacketClock
    warn, crit, \* Sustained: since (-1: None) and active
    average, \* whether the fuel model has an average
    lap, done, \* done: the race calls asked for
    watcher, \* LiveEventWatcher: committed and candidate position, ticks
    gate, sessions, upsets,
    \* history of the session
    told,    \* when each type was last said, -1: never
    spent,   \* one-off calls asked for while their category was off
    ripe,    \* since when the driver should be hearing "critical", -1: no
    due,     \* one-off calls the last packet made due
    run,     \* the position last read, and how often in a row
    heard,   \* the position last called, 0: none
    odd,     \* a position was called that had not held, or a one-off again
    unseen   \* the race restarted while nothing was recorded

sensors == <<warn, crit, average>>
race == <<lap, done>>
history == <<told, spent, ripe, due, run, heard, odd>>
counters == <<sessions, upsets>>
vars == <<topic, voice, spoken, now, sensors, race, watcher, gate, counters,
          history, unseen>>

Rest == [since |-> -1, active |-> FALSE]
NoReading == [committed |-> 0, candidate |-> 0, ticks |-> 0]
NoRun == [position |-> 0, length |-> 0]
Never == [t \in Types |-> -1]

\* The driver's ears, for another race.
Forgotten ==
    told' = Never /\ spent' = {} /\ ripe' = -1 /\ due' = {} /\ run' = NoRun /\ heard' = 0

Init ==
    /\ topic \in Topics /\ voice = TRUE /\ spoken = TRUE /\ now = 0
    /\ warn = Rest /\ crit = Rest /\ average = FALSE
    /\ lap \in (IF topic = "race" THEN 1..TotalLaps ELSE {1})
    /\ done = {}
    /\ watcher = NoReading /\ gate = NewGate /\ sessions = 1 /\ upsets = 0
    /\ told = Never /\ spent = {} /\ ripe = -1 /\ due = {}
    /\ run = NoRun /\ heard = 0 /\ odd = FALSE /\ unseen = FALSE

-----------------------------------------------------------------------------
(* The detectors.                                                          *)

\* Sustained.update.
Updated(s, level, trigger, clear, time) ==
    IF s.active THEN (IF level < clear THEN Rest ELSE s)
    ELSE IF level < trigger THEN Rest
    ELSE LET since == IF s.since = -1 THEN time ELSE s.since
         IN [since |-> since, active |-> time - since >= Hold]

\* _temperature, and the fuel and tire detectors' on_packet.
Asked(hot, high) ==
    IF hot.active THEN <<Request(Critical[topic], topic, 2)>>
    ELSE IF high.active
         THEN <<Request(High[topic], topic, IF topic = "tires" THEN 0 ELSE 1)>>
    ELSE <<>>

\* Mutant of DueOn: joining on the final lap is past halfway too.
DueOnFinal(n) ==
    {t \in OneOff :
        \/ t = "final_lap" /\ n = TotalLaps
        \/ t = "race_halfway" /\ TotalLaps >= 4 /\ 2 * n > TotalLaps /\ n <= TotalLaps}

\* RaceDetector.on_packet: the calls its lap is the first to ask for.
DueOn(n) ==
    {t \in OneOff :
        \/ t = "final_lap" /\ n = TotalLaps
        \/ t = "race_halfway" /\ TotalLaps >= 4 /\ 2 * n > TotalLaps /\ n < TotalLaps}

RaceCalls == {t \in DueOn(lap) : t \notin done}

-----------------------------------------------------------------------------
(* The gate, and what the driver hears of it.                              *)

Said(requests, time) == Judged(gate, requests, time, IF spoken THEN Types ELSE {})

Says(judged, time) ==
    /\ gate' = judged.gate
    /\ told' = [t \in Types |->
                   IF \E r \in Range(judged.said) : r.type = t THEN time ELSE told[t]]

Tick(step) == now + step <= MaxClock /\ now' = now + step

\* Since when the driver has had to hear of what is critical.
Ripens(hot, time) ==
    ripe' = IF ~hot.active \/ ~spoken THEN -1 ELSE IF ripe = -1 THEN time ELSE ripe

-----------------------------------------------------------------------------
(* A packet, for each topic. The manager sees one only while voice is on;  *)
(* one that is loading moves its clock and nothing else.                   *)

Silent == ripe' = -1 /\ UNCHANGED <<gate, told>>

Watch(driven, loading, level, step) ==
    /\ topic \in Watched /\ voice /\ Tick(step)
    /\ IF loading \/ (topic = "fuel" /\ ~average)
       THEN Silent /\ UNCHANGED <<warn, crit>>
       ELSE IF ~driven
            THEN Silent /\ warn' = Rest /\ crit' = Rest
            ELSE /\ crit' = IF topic = "tires" THEN Rest
                            ELSE Updated(crit, level, 4, 3, now')
                 /\ warn' = Updated(warn, level, 2, 1, now')
                 /\ Says(Said(Asked(crit', warn'), now'), now')
                 /\ Ripens(crit', now')
    /\ UNCHANGED <<topic, voice, spoken, average, race, watcher, counters, spent,
                   due, run, heard, odd, unseen>>

WatchRace(driven, loading, step) ==
    /\ topic = "race" /\ voice /\ Tick(step)
    /\ IF driven /\ ~loading
       THEN LET requests == SetToSeq({Request(t, t, 0) : t \in RaceCalls})
                judged == Said(requests, now')
            IN /\ done' = done \cup RaceCalls
               /\ Says(judged, now')
               /\ spent' = IF spoken THEN spent ELSE spent \cup RaceCalls
               /\ due' = DueOn(lap)
               /\ odd' = (odd \/ \E r \in Range(judged.said) : told[r.type] # -1)
       ELSE due' = {} /\ UNCHANGED <<done, gate, told, spent, odd>>
    /\ UNCHANGED <<topic, voice, spoken, sensors, lap, watcher, counters, ripe,
                   run, heard, unseen>>

\* LiveEventWatcher._watch_position: what it is after a reading.
Watching(w, position) ==
    IF position = 0 THEN w
    ELSE IF w.committed = 0 THEN [w EXCEPT !.committed = position, !.candidate = position]
    ELSE IF position # w.candidate THEN [w EXCEPT !.candidate = position, !.ticks = 0]
    ELSE IF position = w.committed THEN w
    ELSE IF w.ticks + 1 < PositionHold THEN [w EXCEPT !.ticks = @ + 1]
    ELSE [w EXCEPT !.committed = position, !.ticks = 0]

\* The watcher hears every packet; its events go to the manager, which has
\* not seen the packet yet.
WatchPosition(driven, position, step) ==
    /\ topic = "position"
    /\ LET read == driven /\ position # 0
           after == IF driven THEN Watching(watcher, position) ELSE watcher
           event == watcher.committed # 0 /\ after.committed # watcher.committed
       IN /\ watcher' = after
          /\ run' = IF ~read THEN run
                    ELSE IF run.position = position
                         THEN [run EXCEPT !.length = Min({@ + 1, PositionHold + 1})]
                    ELSE [position |-> position, length |-> 1]
          /\ odd' = (odd \/ (event /\ run'.length <= PositionHold))
          /\ IF event /\ voice
             THEN LET judged == Said(<<Request("position", position, 0)>>, now)
                  IN /\ Says(judged, now)
                     /\ heard' = IF judged.said = <<>> THEN heard ELSE position
             ELSE UNCHANGED <<gate, told, heard>>
    /\ IF voice THEN Tick(step) ELSE now' = now
    /\ UNCHANGED <<topic, voice, spoken, sensors, race, counters, spent, ripe,
                   due, unseen>>

-----------------------------------------------------------------------------
(* What goes on around it.                                                 *)

\* The next lap: the first of the session with a fuel figure gives an average,
\* if the manager hears of it.
NextLap ==
    /\ topic \in {"race", "fuel"} /\ lap <= TotalLaps
    /\ lap' = lap + 1
    /\ average' = (average \/ (voice /\ topic = "fuel"))
    /\ due' = {}
    /\ UNCHANGED <<topic, voice, spoken, now, warn, crit, done, watcher, gate,
                   counters, told, spent, ripe, run, heard, odd, unseen>>

\* on_session, whether voice is on or not. The fuel average survives.
NewSession ==
    /\ sessions < MaxSessions /\ sessions' = sessions + 1
    /\ now' = 0 /\ warn' = Rest /\ crit' = Rest /\ lap' = 1 /\ done' = {}
    /\ watcher' = NoReading /\ gate' = NewGate
    /\ Forgotten /\ odd' = odd /\ unseen' = FALSE
    /\ UNCHANGED <<topic, voice, spoken, average, upsets>>

Upset == upsets < MaxUpsets /\ upsets' = upsets + 1

\* The last page that listens leaves or one comes; a category is toggled.
Toggle ==
    /\ Upset
    /\ \/ voice' = ~voice /\ UNCHANGED spoken
       \/ spoken' = ~spoken /\ UNCHANGED voice
    /\ ripe' = -1 /\ due' = {}
    /\ UNCHANGED <<topic, now, sensors, race, watcher, gate, sessions, told, spent,
                   run, heard, odd, unseen>>

\* The race is restarted while recording is off: no session begins.
RestartUnseen ==
    /\ topic = "race" /\ Upset
    /\ lap' = 1 /\ unseen' = TRUE /\ Forgotten
    /\ UNCHANGED <<topic, voice, spoken, now, sensors, done, watcher, gate,
                   sessions, odd>>

Packet ==
    \E driven \in BOOLEAN, step \in 1..2 :
        \/ \E loading \in BOOLEAN, level \in 0..4 : Watch(driven, loading, level, step)
        \/ \E loading \in BOOLEAN : WatchRace(driven, loading, step)
        \/ \E position \in 0..MaxPosition : WatchPosition(driven, position, step)

Next == Packet \/ NextLap \/ NewSession \/ Toggle \/ RestartUnseen

Spec == Init /\ [][Next]_vars

-----------------------------------------------------------------------------
(* Properties.                                                             *)

SustainedOK(s) == s.since \in -1..MaxClock /\ s.active \in BOOLEAN

\* The variables have their types; what is active has a beginning.
TypeOK ==
    /\ topic \in Topics /\ {voice, spoken, average, odd, unseen} \subseteq BOOLEAN
    /\ now \in 0..MaxClock /\ SustainedOK(warn) /\ SustainedOK(crit)
    /\ lap \in 1..(TotalLaps + 1) /\ done \subseteq OneOff /\ spent \subseteq OneOff
    /\ told \in [Types -> -1..MaxClock] /\ ripe \in -1..MaxClock

\* While an engine or a tank is critical and the driver can hear of it, it has
\* been called critical, and is called so again every cooldown: neither the
\* warning that shares its key nor an earlier alarm of the session keeps it
\* quiet for longer (EngineDetector, FuelDetector and the gate together).
CriticalIsHeard ==
    ripe # -1 =>
        LET type == Critical[topic]
        IN /\ told[type] # -1
           /\ now - ripe >= Cooldown[type] => now - told[type] < Cooldown[type]

\* The final lap and the halfway mark are called on the first packet driven
\* that calls for them and once a session, halfway before the final lap,
\* unless they came up while their category was off (RaceDetector). A position
\* is called when it has been read PositionHold times after the first, without
\* another in between (LiveEventWatcher).
RaceCallsInOrder ==
    /\ topic \in {"race", "position"} => ~odd
    /\ ~unseen => due \subseteq spent \cup {t \in OneOff : told[t] # -1}
    /\ told["final_lap"] # -1 => told["race_halfway"] < told["final_lap"]

\* docs/internals/race-engineer.md, "Escalation": what is critical is heard
\* immediately. After the first alarm of the session it may wait out the
\* cooldown of a later warning.
HeardAtOnce == ripe = now /\ crit.since + Hold = now => told[Critical[topic]] = now

\* The position last called is the car's: a change back and forth within the
\* cooldown leaves the driver with the wrong one.
PositionIsKnown == topic = "position" /\ heard # 0 => heard = watcher.committed

\* The final lap of a race restarted while recording is off is never called.
FinalLapAlways == due \subseteq spent \cup {t \in OneOff : told[t] # -1}

=============================================================================
