---------------------------- MODULE DatabaseSwap ----------------------------
(***************************************************************************)
(* A restored database takes the place of the recordings while the process *)
(* runs (backend/app/service.py, _swap_database), among everything it has  *)
(* to keep away meanwhile: the API requests, the tasks that go through     *)
(* stored laps, the recorder and its telemetry source, the service's own   *)
(* stop, a switch of the source, and a crash.                              *)
(*                                                                         *)
(* A database is a generation: a number that grows with every database     *)
(* made.  An id is abstracted to the generation it was read from; what can *)
(* go wrong is that it is used on another.                                 *)
(*                                                                         *)
(* Two gates (storage/repository.py, Gate).  The request gate is round     *)
(* every API request, the session gate round every database session.  A    *)
(* gate is its flag and the set of those inside; one who waits at a shut   *)
(* gate is one whose next step is not enabled.                             *)
(*                                                                         *)
(* The telemetry sources are UDP listeners.  create_datagram_endpoint      *)
(* binds the port at once and is then awaited, so a source is "opening"    *)
(* with the port taken before it runs, and its stop() finds nothing to     *)
(* stop until it does.                                                     *)
(***************************************************************************)
EXTENDS Integers, FiniteSets, SequencesExt

CONSTANTS
    Requests,    \* API requests inside the request gate
    Switchers,   \* those of them that switch or restart the source
    Background,  \* tasks the swap stops: "data", "sync", "rejudge"
    Instances,   \* telemetry source objects
    MaxRestores, \* bound: databases restored
    MaxCrashes   \* bound: crashes, or stops followed by a start

ASSUME TasksAssumption ==
    /\ Switchers \subseteq Requests
    /\ Background \subseteq {"data", "sync", "rejudge"}
    /\ Requests \cap {"data", "sync", "rejudge", "visitor", "recorder"} = {}
ASSUME InstancesAssumption == Instances # {}
ASSUME BoundsAssumption == MaxRestores \in Nat /\ MaxCrashes \in Nat

VARIABLES
    \* the files
    live,         \* the generation under the database's name, 0 for no file
    kept,         \* the generations kept beside it, in the order they were
    newest,       \* the newest generation made
    driven,       \* the generations a lap was saved into
    \* who uses the database
    at,           \* where each task is
    ids,          \* the generation each one, the recorder too, has ids of
    notes,        \* the generation sync-sessions.json speaks of
    requestsShut, \* service.requests
    sessionsShut, \* repo.gate
    \* the recorder
    lock,         \* session_lock
    source,       \* TelemetryService.source
    inst,         \* each source object: off, opening or running
    feed,         \* where each source's consumer is in _on_packet
    unsaved,      \* a lap was cut off between its end and its commit: history
    \* the two that stop things
    swap,         \* where _swap_database is
    stop,         \* where the service's stop is
    crashes

files    == <<live, kept, newest, driven>>
tasks    == <<at, ids, notes>>
gates    == <<requestsShut, sessionsShut>>
recorder == <<lock, source, inst, feed, unsaved>>
vars == <<files, tasks, gates, recorder, swap, stop, crashes>>

Tasks == Requests \cup Background \cup {"visitor"}
Users == Tasks \cup {"recorder"}

\* The swap has taken the database's name away from the old file, and not
\* yet told anyone about the new one.
Replacing == swap \in {"renamed", "installed"}

PortFree == \A i \in Instances : inst[i] = "off"

-----------------------------------------------------------------------------
(* A process that has just started, by hand or after a crash.              *)

AtStart   == [t \in Tasks |-> IF t \in {"data", "sync"} THEN "in" ELSE "away"]
NoIds     == [u \in Users |-> 0]
Only(s)   == [i \in Instances |-> IF i = s THEN "running" ELSE "off"]
NoPackets == [i \in Instances |-> "none"]

Init ==
    /\ live = 1 /\ kept = <<>> /\ newest = 1 /\ driven = {1}
    /\ at = AtStart /\ ids = NoIds /\ notes = 1
    /\ requestsShut = FALSE /\ sessionsShut = FALSE
    /\ lock = "free" /\ unsaved = FALSE
    /\ source \in Instances /\ inst = Only(source) /\ feed = NoPackets
    /\ swap = "off" /\ stop = "off" /\ crashes = 0

-----------------------------------------------------------------------------
(* Everyone who works with the database.                                   *)

\* DrainForRestore: a request waits while the gate is shut.
Enters(r) ==
    /\ r \in Requests /\ at[r] = "away" /\ ~requestsShut
    /\ at' = [at EXCEPT ![r] = "in"]
    /\ UNCHANGED <<files, ids, notes, gates, recorder, swap, stop, crashes>>

\* Work outside the request gate: a backup, a browser's socket, a task with
\* nothing to carry from one session to the next.
Visits ==
    /\ at["visitor"] = "away"
    /\ at' = [at EXCEPT !["visitor"] = "in"]
    /\ UNCHANGED <<files, ids, notes, gates, recorder, swap, stop, crashes>>

\* A worker is started by a request that gave it something to do, or the
\* sync worker by a lap (rejudge.changed, sessions.lap_saved).
Kicked(w) ==
    /\ w \in Background \ {"data"} /\ at[w] = "away"
    /\ \/ \E r \in Requests : at[r] = "in"
       \/ w = "sync" /\ \E i \in Instances : feed[i] = "telling"
    /\ at' = [at EXCEPT ![w] = "in"]
    /\ UNCHANGED <<files, ids, notes, gates, recorder, swap, stop, crashes>>

\* SessionGate.session: a database session waits while the gate is shut.
OpensSession(t) ==
    /\ at[t] = "in" /\ ~sessionsShut
    /\ at' = [at EXCEPT ![t] = "session"]
    /\ UNCHANGED <<files, ids, notes, gates, recorder, swap, stop, crashes>>

\* Out of the session, with the ids read in it.
EndsSession(t) ==
    /\ at[t] = "session"
    /\ at' = [at EXCEPT ![t] = "in"]
    /\ ids' = IF t = "visitor" THEN ids ELSE [ids EXCEPT ![t] = live]
    /\ UNCHANGED <<files, notes, gates, recorder, swap, stop, crashes>>

Leaves(t) ==
    /\ at[t] = "in"
    /\ at' = [at EXCEPT ![t] = "away"]
    /\ ids' = [ids EXCEPT ![t] = 0]
    /\ UNCHANGED <<files, notes, gates, recorder, swap, stop, crashes>>

-----------------------------------------------------------------------------
(* The recorder: one packet, under the session lock.                       *)

Fed(i, here) ==
    /\ feed' = [feed EXCEPT ![i] = here]
    /\ UNCHANGED <<source, inst>>

Packet(i) ==
    /\ inst[i] = "running" /\ feed[i] = "none"
    /\ Fed(i, "waiting")
    /\ UNCHANGED <<files, tasks, gates, lock, unsaved, swap, stop, crashes>>

FeedLocks(i) ==
    /\ feed[i] = "waiting" /\ lock = "free"
    /\ lock' = "recorder"
    /\ Fed(i, "recording")
    /\ UNCHANGED <<files, tasks, gates, unsaved, swap, stop, crashes>>

\* The packet opens a session: its row, and its id.
SessionOpens(i) ==
    /\ feed[i] = "recording" /\ ids["recorder"] = 0 /\ ~sessionsShut
    /\ ids' = [ids EXCEPT !["recorder"] = live]
    /\ UNCHANGED <<files, at, notes, gates, recorder, swap, stop, crashes>>

\* The packet ends a lap.  The processor has let go of it before on_lap is
\* awaited, so that from here on only this call knows it.
LapEnds(i) ==
    /\ feed[i] = "recording" /\ ids["recorder"] # 0
    /\ Fed(i, "saving")
    /\ UNCHANGED <<files, tasks, gates, lock, unsaved, swap, stop, crashes>>

LapCommitted(i) ==
    /\ feed[i] = "saving" /\ ~sessionsShut
    /\ driven' = driven \cup {live}
    /\ Fed(i, "telling")
    /\ UNCHANGED <<live, kept, newest, tasks, gates, lock, unsaved, swap, stop, crashes>>

\* save_lap raises: the lap is gone, and counted in save_errors.
LapNotSaved(i) ==
    /\ feed[i] = "saving" /\ ~sessionsShut
    /\ Fed(i, "recording")
    /\ UNCHANGED <<files, tasks, gates, lock, unsaved, swap, stop, crashes>>

PacketDone(i) ==
    /\ feed[i] \in {"recording", "telling"}
    /\ lock' = "free"
    /\ Fed(i, "none")
    /\ UNCHANGED <<files, tasks, gates, unsaved, swap, stop, crashes>>

\* UdpTelemetrySource.stop: the consumer is cancelled wherever it is, and
\* unwinds.  One that is still opening has no task and no socket to close.
StopsSource ==
    IF inst[source] = "opening" THEN UNCHANGED <<inst, feed, lock, unsaved>>
    ELSE /\ inst' = [inst EXCEPT ![source] = "off"]
         /\ feed' = [feed EXCEPT ![source] = "none"]
         /\ lock' = IF feed[source] \in {"recording", "saving", "telling"}
                    THEN "free" ELSE lock
         /\ unsaved' = (unsaved \/ feed[source] = "saving")

-----------------------------------------------------------------------------
(* switch_source, and restart_source, which is a switch to the same kind.  *)

SwitchStops(r) ==
    /\ r \in Switchers /\ at[r] = "in"
    /\ StopsSource
    /\ at' = [at EXCEPT ![r] = "stopped"]
    /\ UNCHANGED <<files, ids, notes, gates, source, swap, stop, crashes>>

\* A new object takes the attribute, and its start binds the port.  When the
\* port is taken another object takes the attribute, for the source there
\* was before, and its start finds the port taken too.
SwitchStarts(r) ==
    /\ at[r] = "stopped"
    /\ \E i \in Instances \ {source} :
        /\ inst[i] = "off"
        /\ source' = i
        /\ inst' = IF PortFree THEN [inst EXCEPT ![i] = "opening"] ELSE inst
    /\ at' = [at EXCEPT ![r] = IF PortFree THEN "opening" ELSE "in"]
    /\ UNCHANGED <<files, ids, notes, gates, lock, feed, unsaved, swap, stop, crashes>>

\* The endpoint is there.  The port admits one opening at a time, so that the
\* one who awaits it is the one who asked.
Opened ==
    \E i \in Instances :
        inst[i] = "opening" /\ inst' = [inst EXCEPT ![i] = "running"]

SwitchEnds(r) ==
    /\ at[r] = "opening"
    /\ Opened
    /\ at' = [at EXCEPT ![r] = "in"]
    /\ UNCHANGED <<files, ids, notes, gates, lock, source, feed, unsaved,
                   swap, stop, crashes>>

-----------------------------------------------------------------------------
(* _swap_database, from the API request that applies a restore.            *)

Moves(to) ==
    /\ swap' = to
    /\ UNCHANGED <<stop, crashes>>

\* The staged database is at this build's schema already.
SwapBegins ==
    /\ swap = "off" /\ stop = "off" /\ newest - 1 < MaxRestores
    /\ newest' = newest + 1
    /\ requestsShut' = TRUE
    /\ Moves("draining")
    /\ UNCHANGED <<live, kept, driven, tasks, sessionsShut, recorder>>

\* Mutant of SwapGivesUp: the gate opens only where the swap went through.
SwapGivesUpShut ==
    /\ swap = "draining"
    /\ Moves("off")
    /\ UNCHANGED <<files, tasks, gates, recorder>>

\* A request outlasts SWAP_WAIT_S: RestoreError, "try again in a minute".
SwapGivesUp ==
    /\ swap = "draining"
    /\ requestsShut' = FALSE
    /\ Moves("off")
    /\ UNCHANGED <<files, tasks, sessionsShut, recorder>>

Drained == \A r \in Requests : at[r] = "away"

SwapStopsSource ==
    /\ swap = "draining" /\ Drained
    /\ StopsSource
    /\ Moves("locking")
    /\ UNCHANGED <<files, tasks, gates, source>>

\* session_lock, and the flush of a lap the processor holds back.
SwapLocks ==
    /\ swap = "locking" /\ lock = "free"
    /\ lock' = "swap"
    /\ \/ UNCHANGED driven
       \/ ids["recorder"] # 0 /\ driven' = driven \cup {live}
    /\ Moves("quieting")
    /\ UNCHANGED <<live, kept, newest, tasks, gates, source, inst, feed, unsaved>>

\* Mutant of SwapQuiets: the recheck of stored laps is not in data_tasks.
SwapQuietsSome ==
    /\ swap = "quieting"
    /\ at' = [t \in Tasks |-> IF t \in Background \ {"data"} THEN "away" ELSE at[t]]
    /\ ids' = [u \in Users |-> IF u \in Background \ {"data"} THEN 0 ELSE ids[u]]
    /\ sessionsShut' = TRUE
    /\ Moves("gating")
    /\ UNCHANGED <<files, notes, requestsShut, recorder>>

\* Everything that goes through stored laps is cancelled and waited for;
\* then the session gate shuts.
SwapQuiets ==
    /\ swap = "quieting"
    /\ at' = [t \in Tasks |-> IF t \in Background THEN "away" ELSE at[t]]
    /\ ids' = [u \in Users |-> IF u \in Background THEN 0 ELSE ids[u]]
    /\ sessionsShut' = TRUE
    /\ Moves("gating")
    /\ UNCHANGED <<files, notes, requestsShut, recorder>>

\* Mutant of SwapAlone: the gate is shut, and nobody inside is waited for.
SwapHurries ==
    /\ swap = "gating"
    /\ Moves("copying")
    /\ UNCHANGED <<files, tasks, gates, recorder>>

SwapAlone ==
    /\ swap = "gating"
    /\ \A t \in Tasks : at[t] # "session"
    /\ Moves("copying")
    /\ UNCHANGED <<files, tasks, gates, recorder>>

\* The way out of _swap_files, whatever happened in it: the session gate
\* opens, the lock is given back, and the writers are started again.
Unwound(next) ==
    /\ sessionsShut' = FALSE
    /\ lock' = "free"
    /\ Moves(next)
    /\ UNCHANGED <<requestsShut, source, inst, feed, unsaved>>

\* A flush that fails, a session that outlasts SWAP_WAIT_S, an unfinished
\* transaction, a full disk: before either file is renamed.
SwapRefused ==
    /\ swap \in {"quieting", "gating", "copying"}
    /\ Unwound("restarting")
    /\ UNCHANGED <<files, tasks>>

\* install_database: live to kept, then staged to live.
SwapKeeps ==
    /\ swap = "copying"
    /\ kept' = Append(kept, live) /\ live' = 0
    /\ Moves("renamed")
    /\ UNCHANGED <<newest, driven, tasks, gates, recorder>>

SwapInstalls ==
    /\ swap = "renamed"
    /\ live' = newest
    /\ Moves("installed")
    /\ UNCHANGED <<kept, newest, driven, tasks, gates, recorder>>

\* Mutant of SwapPutsBack: the kept file is deleted, and the new one stays.
SwapPutsNothingBack ==
    /\ swap \in {"renamed", "installed"}
    /\ kept' = Front(kept) /\ UNCHANGED live
    /\ Unwound("restarting")
    /\ UNCHANGED <<newest, driven, tasks>>

\* The second rename fails, or init_db on the new file does
\* (uninstall_database): the kept file takes its name back.
SwapPutsBack ==
    /\ swap \in {"renamed", "installed"}
    /\ live' = Last(kept) /\ kept' = Front(kept)
    /\ Unwound("restarting")
    /\ UNCHANGED <<newest, driven, tasks>>

\* The session gate opens, and before anyone else has a turn everything
\* remembered by id is dropped: forget_all, _reset_recorder.
SwapResets ==
    /\ swap = "installed"
    /\ ids' = [ids EXCEPT !["recorder"] = 0]
    /\ notes' = live
    /\ Unwound("replacing")
    /\ UNCHANGED <<files, at>>

\* database_replaced: a new task rechecks the laps that came, unless it
\* fails before.
SwapReplaces ==
    /\ swap = "replacing"
    /\ \/ at' = [t \in Tasks |-> IF t = "data" THEN "in" ELSE at[t]]
       \/ at' = at
    /\ Moves("restarting")
    /\ UNCHANGED <<files, ids, notes, gates, recorder>>

\* Mutant of SwapRestarts: the request gate is held for the files only.
SwapRestartsOpen ==
    /\ swap = "restarting" /\ stop = "off"
    /\ at' = [t \in Tasks |-> IF t = "sync" THEN "in" ELSE at[t]]
    /\ requestsShut' = FALSE
    /\ Moves("starting")
    /\ UNCHANGED <<files, ids, notes, sessionsShut, recorder>>

\* sync.start, unless the service stopped meanwhile.
SwapRestarts ==
    /\ swap = "restarting" /\ stop = "off"
    /\ at' = [t \in Tasks |-> IF t = "sync" THEN "in" ELSE at[t]]
    /\ Moves("starting")
    /\ UNCHANGED <<files, ids, notes, gates, recorder>>

SwapStandsDown ==
    /\ swap = "restarting" /\ stop # "off"
    /\ requestsShut' = FALSE
    /\ Moves("off")
    /\ UNCHANGED <<files, tasks, sessionsShut, recorder>>

\* source.start.  A port that is taken is logged, and the swap ends.
SwapStarts ==
    /\ swap = "starting"
    /\ inst' = IF PortFree THEN [inst EXCEPT ![source] = "opening"] ELSE inst
    /\ requestsShut' = PortFree
    /\ Moves(IF PortFree THEN "binding" ELSE "off")
    /\ UNCHANGED <<files, tasks, sessionsShut, lock, source, feed, unsaved>>

SwapEnds ==
    /\ swap = "binding"
    /\ Opened
    /\ requestsShut' = FALSE
    /\ Moves("off")
    /\ UNCHANGED <<files, tasks, sessionsShut, lock, source, feed, unsaved>>

-----------------------------------------------------------------------------
(* TelemetryService.stop, in the lifespan's shut_down.                     *)

StopBegins ==
    /\ stop = "off"
    /\ stop' = "locking"
    /\ StopsSource
    /\ at' = [t \in Tasks |-> IF t = "data" THEN "away" ELSE at[t]]
    /\ ids' = [u \in Users |-> IF u = "data" THEN 0 ELSE ids[u]]
    /\ UNCHANGED <<files, notes, gates, source, swap, crashes>>

\* The open session is closed under the lock, then the workers go.
StopCloses ==
    /\ stop = "locking" /\ lock = "free"
    /\ stop' = "done"
    /\ at' = [t \in Tasks |-> IF t \in {"sync", "rejudge"} THEN "away" ELSE at[t]]
    /\ ids' = [u \in Users |->
                 IF u \in {"sync", "rejudge", "recorder"} THEN 0 ELSE ids[u]]
    /\ UNCHANGED <<files, notes, gates, recorder, swap, crashes>>

\* TEARDOWN_STEP_S is over: shut_down goes on without it.
StopCutOff ==
    /\ stop = "locking"
    /\ stop' = "done"
    /\ UNCHANGED <<files, tasks, gates, recorder, swap, crashes>>

\* The process dies and is started again.  SQLite makes a database where
\* there is none.
Crash ==
    /\ crashes < MaxCrashes
    /\ crashes' = crashes + 1
    /\ live' = IF live = 0 THEN newest + 1 ELSE live
    /\ newest' = IF live = 0 THEN newest + 1 ELSE newest
    /\ at' = AtStart /\ ids' = NoIds
    /\ requestsShut' = FALSE /\ sessionsShut' = FALSE
    /\ lock' = "free"
    /\ source' \in Instances /\ inst' = Only(source') /\ feed' = NoPackets
    /\ swap' = "off" /\ stop' = "off"
    /\ UNCHANGED <<kept, driven, notes, unsaved>>

-----------------------------------------------------------------------------
TaskStep ==
    \/ \E r \in Requests : Enters(r) \/ SwitchStops(r)
    \/ Visits
    \/ \E w \in Background : Kicked(w)
    \/ \E t \in Tasks : OpensSession(t) \/ EndsSession(t) \/ Leaves(t)

RecorderStep ==
    \E i \in Instances :
        \/ Packet(i) \/ FeedLocks(i) \/ SessionOpens(i)
        \/ LapEnds(i) \/ LapCommitted(i) \/ LapNotSaved(i) \/ PacketDone(i)

SwitchStep == \E r \in Switchers : SwitchStarts(r) \/ SwitchEnds(r)

SwapStep ==
    \/ SwapGivesUp \/ SwapStopsSource \/ SwapLocks \/ SwapQuiets \/ SwapAlone
    \/ SwapRefused \/ SwapKeeps \/ SwapInstalls \/ SwapPutsBack \/ SwapResets
    \/ SwapReplaces \/ SwapRestarts \/ SwapStandsDown \/ SwapStarts \/ SwapEnds

StopStep == StopCloses \/ StopCutOff

Next ==
    \/ TaskStep \/ RecorderStep \/ SwitchStep
    \/ SwapBegins \/ SwapStep
    \/ StopBegins \/ StopStep \/ Crash

Spec == Init /\ [][Next]_vars

\* What the event loop owes: a swap and a stop that can go on do, and both
\* have a time limit on what they wait for.  Nothing is owed by requests.
FairSpec == Spec /\ WF_vars(SwapStep) /\ WF_vars(StopStep) /\ WF_vars(SwitchStep)

-----------------------------------------------------------------------------
Generations == 0 .. newest

\* Past the wait for the requests; inside the session lock; behind the session
\* gate.
Draining == {"draining", "locking", "quieting", "gating", "copying", "renamed", "installed"}
Locked == {"quieting", "gating", "copying", "renamed", "installed"}
Gated == {"gating", "copying", "renamed", "installed"}
Phases == {"off", "replacing", "restarting", "starting", "binding"} \cup Draining

Busy(i) == feed[i] \in {"recording", "saving", "telling"}

FilesOK ==
    /\ newest \in Nat \ {0} /\ newest <= 1 + MaxRestores + crashes
    /\ live \in Generations /\ driven \subseteq 1 .. newest
    /\ kept \in Seq(1 .. newest)

TasksOK ==
    /\ at \in [Tasks -> {"away", "in", "session", "stopped", "opening"}]
    /\ ids \in [Users -> Generations] /\ notes \in 1 .. newest

RecorderOK ==
    /\ source \in Instances
    /\ inst \in [Instances -> {"off", "opening", "running"}]
    /\ feed \in [Instances -> {"none", "waiting", "recording", "saving", "telling"}]
    /\ lock \in {"free", "recorder", "swap"} /\ unsaved \in BOOLEAN

ControlOK ==
    /\ requestsShut \in BOOLEAN /\ sessionsShut \in BOOLEAN /\ swap \in Phases
    /\ stop \in {"off", "locking", "done"} /\ crashes \in 0 .. MaxCrashes

\* The variables have their types.
TypeOK == FilesOK /\ TasksOK /\ RecorderOK /\ ControlOK

\* The gates are shut exactly while the swap is behind them.
GatesHeld ==
    /\ requestsShut <=> swap # "off"
    /\ sessionsShut <=> swap \in Gated

\* The lock is held by whoever says so, and by one.
LockHeld ==
    /\ lock = IF swap \in Locked THEN "swap"
              ELSE IF \E i \in Instances : Busy(i) THEN "recorder" ELSE "free"
    /\ swap \in Locked => \A i \in Instances : ~Busy(i)
    /\ \A i, j \in Instances : Busy(i) /\ Busy(j) => i = j

\* install_database: "Only with nothing connected to `live`".
\* While the files are copied and renamed no database session is open and no
\* packet is in the recorder: SQLite finds its journal by the file's name.
FilesAlone ==
    swap \in {"copying", "renamed", "installed"} =>
        /\ \A t \in Tasks : at[t] # "session"
        /\ \A i \in Instances : feed[i] \in {"none", "waiting"}

\* Whichever step a restore or the process ends at, a database that holds
\* driven laps is in use or kept beside it.
LapsKept == driven \subseteq {live} \cup Range(kept)

\* What has the port is the source the service can stop: nothing feeds the
\* recorder out of its reach (_swap_database: "one of them out of reach to
\* stop").
ProducerInReach == \A i \in Instances : inst[i] # "off" => i = source

\* With nobody stopping or switching it telemetry runs: every way out of a
\* restore, done, refused or put back, has started it again.
Producing ==
    swap = "off" /\ stop = "off" /\ (\A r \in Requests : at[r] \notin {"stopped", "opening"})
        => inst[source] = "running"

\* Exactly one source feeds the recorder: never one too many, and none too few
\* once a restore is over.
OneProducer == ProducerInReach /\ Producing

\* For everyone who works with it the database is replaced in one step, with
\* nobody holding an id of the one before (RecordingsInUse).
InUse == INSTANCE RecordingsInUse WITH
    gen <- IF Replacing THEN Last(kept) ELSE live
SwapIsAtomic == InUse!Spec

\* A restore ends, done or refused, and both gates are open again, whatever
\* the requests and sessions it waits for do (_swap_database: the wait at
\* either gate has a time limit, and the way out is a finally).
Resumes == swap # "off" ~> swap = "off" /\ ~requestsShut /\ ~sessionsShut

\* service.py, _swap_database: when the restore stops the telemetry source,
\* "a lap it holds is saved, into the recordings being kept".
HeldLapSaved == stop = "off" => ~unsaved

\* service.py, _swap_files: what is remembered by id "was about the database
\* just replaced" and goes with it.
RecordsOfThisDatabase == ~Replacing => notes = live
=============================================================================
