------------------------------ MODULE LiveSync ------------------------------
(***************************************************************************)
(* The `live` adapter: sync/live.py, and what of sync/client.py turns it   *)
(* on, halts it and points it at another server.                           *)
(*                                                                         *)
(* A frame is whether it says the car is on track; the circuit and the car *)
(* are a version of the `_meta` dict.  The service keeps one stream per    *)
(* account and closes the older one (CLOSE_REPLACED).  Left out: the rate, *)
(* the messages that tune or count, and the capabilities.                  *)
(***************************************************************************)
EXTENDS Integers, FiniteSets

CONSTANTS
    Runs,                         \* coroutines of _run alive at a time
    MaxMoves, MaxMetas, MaxFaults \* bounds: the car's, of _meta, faults and buttons

VARIABLES
    driving,   \* the packets say the car is on track
    meta,      \* _meta
    streaming, \* the toggle
    latest,    \* _latest: none, or what it says
    stale,     \* it is older than STALE_S
    onTrack, metaDirty,
    hold,      \* _not_before is in the future
    socket,    \* _socket, by its coroutine
    live,      \* _task
    stopped,   \* cancelled, and the cancellation not delivered yet
    conn,      \* where each coroutine stands, and what the service was told
    moves, metas, faults

car == <<driving, meta, moves, metas>>
frame == <<latest, stale>>
handles == <<socket, live, stopped>>
liveVars == <<car, frame, streaming, onTrack, metaDirty, hold, handles, conn, faults>>

NoConn == [at |-> "off", url |-> 0, meta |-> 0, seen |-> "none", verdict |-> "none"]

Fault == faults < MaxFaults /\ faults' = faults + 1

Init ==
    /\ driving = FALSE /\ meta = 0 /\ streaming = TRUE
    /\ latest = "none" /\ stale = FALSE /\ onTrack = FALSE /\ metaDirty = FALSE
    /\ hold = FALSE /\ socket = 0 /\ live = 0 /\ stopped = {}
    /\ conn = [w \in Runs |-> NoConn]
    /\ moves = 0 /\ metas = 0 /\ faults = 0

\* _ensure.
Ensure ==
    IF streaming /\ live = 0
    THEN \E w \in {v \in Runs : conn[v].at = "off" /\ v \notin stopped} :
            live' = w /\ conn' = [conn EXCEPT ![w] = [NoConn EXCEPT !.at = "new"]]
    ELSE UNCHANGED <<live, conn>>

-----------------------------------------------------------------------------
(* The car.                                                                *)

\* It leaves the track, pauses, or comes back.
Moves ==
    /\ moves < MaxMoves /\ moves' = moves + 1 /\ driving' = ~driving
    /\ UNCHANGED <<meta, metas, frame, streaming, onTrack, metaDirty, hold, handles, conn, faults>>

\* Mutant of Packet: a frame is offered when what it says is new.
PacketOfChange ==
    /\ streaming /\ driving # onTrack
    /\ onTrack' = driving
    /\ latest' = (IF driving THEN "on" ELSE "off") /\ stale' = FALSE
    /\ Ensure
    /\ UNCHANGED <<car, streaming, metaDirty, hold, socket, stopped, faults>>

\* on_packet: a frame of a car on track, or the one that says it has gone.
Packet ==
    /\ streaming /\ (driving \/ onTrack)
    /\ onTrack' = driving
    /\ latest' = (IF driving THEN "on" ELSE "off") /\ stale' = FALSE
    /\ Ensure
    /\ UNCHANGED <<car, streaming, metaDirty, hold, socket, stopped, faults>>

\* set_meta.
MetaChanges ==
    /\ metas < MaxMetas /\ metas' = metas + 1 /\ meta' = metas'
    /\ metaDirty' = (metaDirty \/ socket # 0)
    /\ UNCHANGED <<driving, moves, frame, streaming, onTrack, hold, handles, conn, faults>>

\* STALE_S pass while nobody takes the frame; a car on track offers newer
\* ones meanwhile, unless its packets stop.
Ages ==
    /\ latest # "none" /\ ~stale /\ stale' = TRUE
    /\ \/ ~driving /\ UNCHANGED faults
       \/ Fault
    /\ UNCHANGED <<car, latest, streaming, onTrack, metaDirty, hold, handles, conn>>

-----------------------------------------------------------------------------
(* The connection.                                                         *)

Turn(w) == conn[w].at \in {"new", "again"} /\ w \notin stopped
Up(w) == conn[w].at = "up" /\ w \notin stopped

\* _run's finally.
Ends(w) == conn' = [conn EXCEPT ![w] = NoConn] /\ live' = 0 /\ socket' = 0

RunStops(w) ==
    /\ Turn(w) /\ ~streaming /\ Ends(w)
    /\ UNCHANGED <<car, frame, streaming, onTrack, metaDirty, hold, stopped, faults>>

\* _session: the address carries the circuit and the car.
Connects(w) ==
    /\ Turn(w) /\ streaming /\ ~hold
    /\ conn' = [conn EXCEPT ![w] = [NoConn EXCEPT !.at = "connecting", !.url = meta]]
    /\ UNCHANGED <<car, frame, streaming, onTrack, metaDirty, hold, handles, faults>>

\* The upgrade is answered; the service lets go of an older stream.
Opened(w) ==
    /\ conn[w].at = "connecting" /\ w \notin stopped
    /\ conn' = [v \in Runs |->
           IF v = w THEN [NoConn EXCEPT !.at = "up", !.meta = conn[w].url]
           ELSE IF conn[v].at = "up" THEN [conn[v] EXCEPT !.verdict = "replaced"] ELSE conn[v]]
    /\ socket' = w /\ metaDirty' = FALSE
    /\ UNCHANGED <<car, frame, streaming, onTrack, hold, live, stopped, faults>>

\* _refused: the type is off, or everything waits.
Refused(w) ==
    /\ conn[w].at = "connecting" /\ w \notin stopped /\ Fault
    /\ conn' = [conn EXCEPT ![w] = [NoConn EXCEPT !.at = "again"]]
    /\ \/ streaming' = FALSE /\ UNCHANGED hold
       \/ hold' = TRUE /\ UNCHANGED streaming
    /\ UNCHANGED <<car, frame, onTrack, metaDirty, handles>>

\* _write: a changed circuit or car goes first.
WritesMeta(w) ==
    /\ Up(w) /\ metaDirty /\ metaDirty' = FALSE
    /\ conn' = [conn EXCEPT ![w].meta = meta]
    /\ UNCHANGED <<car, frame, streaming, onTrack, hold, handles, faults>>

\* _write: the newest frame, unless it is too old to say anything.
WritesFrame(w) ==
    /\ Up(w) /\ ~metaDirty /\ latest # "none"
    /\ latest' = "none" /\ stale' = FALSE
    /\ conn' = [conn EXCEPT ![w].seen = IF stale THEN @ ELSE latest]
    /\ UNCHANGED <<car, streaming, onTrack, metaDirty, hold, handles, faults>>

\* _write: IDLE_CLOSE_S without a frame; _session lets go of the socket.
Idles(w) ==
    /\ Up(w) /\ ~metaDirty /\ latest = "none" /\ ~driving
    /\ conn' = [conn EXCEPT ![w].at = "closing", ![w].verdict = "idle"] /\ socket' = 0
    /\ UNCHANGED <<car, frame, streaming, onTrack, metaDirty, hold, live, stopped, faults>>

\* _closed: the service's verdict, or a dropped connection; both wait.
Dropped(w) ==
    /\ Up(w)
    /\ \/ conn[w].verdict = "replaced" /\ UNCHANGED faults
       \/ Fault
    /\ hold' = TRUE /\ socket' = 0
    /\ conn' = [conn EXCEPT ![w].at = "closing", ![w].verdict = "none"]
    /\ UNCHANGED <<car, frame, streaming, onTrack, metaDirty, live, stopped>>

\* socket.close is over.
Closed(w) ==
    /\ conn[w].at = "closing" /\ w \notin stopped
    /\ IF conn[w].verdict = "idle"
       THEN Ends(w) /\ onTrack' = FALSE /\ latest' = "none" /\ stale' = FALSE
       ELSE conn' = [conn EXCEPT ![w] = [NoConn EXCEPT !.at = "again"]] /\ UNCHANGED <<live, socket, onTrack, frame>>
    /\ UNCHANGED <<car, streaming, metaDirty, hold, stopped, faults>>

\* The cancellation reaches a halted coroutine: it first closes its socket;
\* one that has not begun has no finally to run.
Unwinds(w) ==
    /\ w \in stopped
    /\ IF conn[w].at = "up"
       THEN conn' = [conn EXCEPT ![w].at = "leaving"] /\ socket' = 0 /\ UNCHANGED <<live, stopped>>
       ELSE /\ stopped' = stopped \ {w}
            /\ IF conn[w].at = "new" THEN conn' = [conn EXCEPT ![w] = NoConn] /\ UNCHANGED <<live, socket>>
               ELSE Ends(w)
    /\ UNCHANGED <<car, frame, streaming, onTrack, metaDirty, hold, faults>>

\* The hold passes: seconds or minutes, in which whoever is connected has
\* shown a car that stays on track.
HoldOver ==
    /\ hold /\ hold' = FALSE
    /\ driving /\ streaming =>
          \A w \in Runs : Up(w) /\ conn[w].verdict = "none" => conn[w].seen = "on"
    /\ UNCHANGED <<car, frame, streaming, onTrack, metaDirty, handles, conn, faults>>

-----------------------------------------------------------------------------
(* The client.                                                             *)

Halt ==
    /\ stopped' = IF live = 0 THEN stopped ELSE stopped \cup {live}
    /\ live' = 0 /\ socket' = 0
    /\ onTrack' = FALSE /\ latest' = "none" /\ stale' = FALSE

\* The toggle; or another server or token, and the bring-up that follows:
\* nothing is left to stream until the next packet.
Toggled ==
    /\ Fault /\ streaming' = ~streaming
    /\ IF streaming THEN Halt /\ UNCHANGED hold
       ELSE hold' = FALSE /\ UNCHANGED <<handles, onTrack, frame>>
    /\ UNCHANGED <<car, metaDirty, conn>>

Reconnected ==
    /\ Fault /\ Halt
    /\ hold' = IF streaming THEN FALSE ELSE hold
    /\ UNCHANGED <<car, streaming, metaDirty, conn>>

-----------------------------------------------------------------------------
Run(w) ==
    \/ RunStops(w) \/ Connects(w) \/ WritesMeta(w) \/ WritesFrame(w)
    \/ Closed(w) \/ Unwinds(w)

Next ==
    \/ Moves \/ Packet \/ MetaChanges \/ Ages \/ HoldOver \/ Toggled \/ Reconnected
    \/ \E w \in Runs : Run(w) \/ Opened(w) \/ Refused(w) \/ Idles(w) \/ Dropped(w)

Spec == Init /\ [][Next]_liveVars

\* Packets come, the event loop runs every task that can run, a handshake
\* ends, the service closes what it replaced, a hold passes.
Fairness ==
    /\ WF_liveVars(Packet) /\ WF_liveVars(HoldOver)
    /\ \A w \in Runs :
          /\ WF_liveVars(Run(w)) /\ WF_liveVars(Opened(w))
          /\ WF_liveVars(conn[w].verdict = "replaced" /\ Dropped(w))

FairSpec == Spec /\ Fairness

-----------------------------------------------------------------------------
(* Properties.                                                             *)

\* The shape of the state.
TypeOK ==
    /\ latest \in {"none", "on", "off"} /\ (stale => latest # "none")
    /\ {socket, live} \subseteq Runs \cup {0} /\ stopped \subseteq Runs
    /\ live # 0 => conn[live].at # "off"

Shown == \E w \in Runs : Up(w) /\ conn[w].seen = "on" /\ conn[w].verdict = "none"

\* A car that stays on track is shown, whatever was dropped, refused, halted
\* or replaced before: no task, socket or hold left over stands in the way.
Streams == <>[](driving /\ streaming) => []<>Shown

\* What a stream said last is not that the car is on track when it has gone
\* ("one last frame says so and then the stream goes quiet").
LastWord ==
    \A w \in Runs :
        Up(w) /\ live = w /\ ~onTrack /\ latest = "none" => conn[w].seen # "on"

\* live.py: the circuit and the car are "sent on connect and again as a
\* `meta` message whenever they change mid-stream".
MetaTold == \A w \in Runs : Up(w) /\ socket = w /\ ~metaDirty => conn[w].meta = meta

\* live.py: "One WebSocket to the service's /v1/live".
OneStream == \A v, w \in Runs : Up(v) /\ Up(w) => v = w

=============================================================================
