----------------------------- MODULE MCAdapters -----------------------------
(* Model checking of TracksSync and LiveSync, the two adapters that share  *)
(* the client and nothing else: a behaviour is one of either.              *)
EXTENDS Integers, FiniteSets, TLC

CONSTANTS
    w1, w2, east, west,
    Bundles, Servers, Home, Uploads, MaxWrites, MaxUpsets,
    Runs, MaxMoves, MaxMetas, MaxFaults

ASSUME NobodyAssumption == 0 \notin Uploads \cup Runs
ASSUME HomeAssumption == Home \in Servers

VARIABLES
    adapter,
    bundle, settling, wanted, server, addressing, sweeping, records, recordsOf, stateFile,
    dirty, delay, recent, runner, push, halted, taken, refused, astray, writes, upsets,
    driving, meta, streaming, latest, stale, onTrack, metaDirty, pause, socket,
    live, stopped, conn, moves, metas, faults

ofTracks ==
    <<bundle, settling, wanted, server, addressing, sweeping, records, recordsOf, stateFile,
      dirty, delay, recent, runner, push, halted, taken, refused, astray, writes, upsets>>
ofLive ==
    <<driving, meta, streaming, latest, stale, onTrack, metaDirty, pause, socket,
      live, stopped, conn, moves, metas, faults>>
adapterStates == <<adapter, ofTracks, ofLive>>

Tracks == INSTANCE TracksSync WITH Workers <- Uploads, resetting <- addressing
Live == INSTANCE LiveSync WITH hold <- pause

Begins == adapter \in {"tracks", "live"} /\ Tracks!Init /\ Live!Init

OfTracks(A) == adapter = "tracks" /\ A /\ UNCHANGED <<adapter, ofLive>>
OfLive(A) == adapter = "live" /\ A /\ UNCHANGED <<adapter, ofTracks>>

Steps == OfTracks(Tracks!Next) \/ OfLive(Live!Next)

\* The fairness of either, about the behaviours that are its own.
Scheduling ==
    /\ \A w \in Uploads :
          /\ WF_adapterStates(OfTracks(Tracks!Worker(w)))
          /\ WF_adapterStates(OfTracks(Tracks!ServiceTakes(w) \/ Tracks!ServiceDeclines(w)))
    /\ \A b \in Bundles : WF_adapterStates(OfTracks(Tracks!Passes(b)))
    /\ WF_adapterStates(OfTracks(Tracks!Sweeps)) /\ WF_adapterStates(OfTracks(Tracks!Reconnected))
    /\ WF_adapterStates(OfLive(Live!Packet)) /\ WF_adapterStates(OfLive(Live!HoldOver))
    /\ \A w \in Runs :
          /\ WF_adapterStates(OfLive(Live!Run(w))) /\ WF_adapterStates(OfLive(Live!Opened(w)))
          /\ WF_adapterStates(OfLive(conn[w].verdict = "replaced" /\ Live!Dropped(w)))

Behaves == Begins /\ [][Steps]_adapterStates /\ Scheduling

\* What each promises; a behaviour of the other owes it nothing.
SyncedIsTaken == Tracks!SyncedIsTaken
GoesUp == Tracks!GoesUp
Streams == Live!Streams
=============================================================================
