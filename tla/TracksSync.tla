----------------------------- MODULE TracksSync -----------------------------
(***************************************************************************)
(* The `tracks` adapter: sync/tracks.py, and what of sync/client.py turns  *)
(* it on, halts it and points it at another server.                        *)
(*                                                                         *)
(* A bundle is the circuit, whether its layout is confirmed and a version  *)
(* of what is sent of it (own_evidence): a write may leave that as it is.  *)
(* Time is the three delays of `_not_before`: the settle time, the floor   *)
(* between uploads and the backoff.  Left out: the hint about sector       *)
(* boundaries, the size limit, an exception that ends a worker, the        *)
(* capabilities (the server lists the type; SessionsSync has them), and a  *)
(* second change of the address before the first has been applied.         *)
(***************************************************************************)
EXTENDS Integers, FiniteSets

CONSTANTS
    Bundles, Servers, Home,
    Workers,              \* coroutines of _run alive at a time
    MaxWrites, MaxUpsets  \* bounds; upsets: everything but writes and answers

VARIABLES
    bundle,    \* the documents on disk
    settling,  \* history: changed less than SETTLE_S ago
    wanted, server, \* the toggle, settings.sync_url
    resetting, \* its row is being written, reset_connection still due
    sweeping,  \* a bring-up or a Sync now is about to queue everything
    records,   \* _records, of the server recordsOf
    recordsOf,
    stateFile, \* data/sync-state.json
    dirty,
    delay,     \* _not_before, while it is in the future: what is waited for
    recent,    \* _last_upload less than MIN_INTERVAL_S ago
    runner,    \* _task
    push,      \* where each coroutine stands
    halted,    \* cancelled, and the cancellation not delivered yet
    taken,     \* the versions each server has accepted,
    refused,   \* and refused
    astray,    \* history: <<s, b, doc>> left for another server than s, whose
               \* records were the adapter's
    writes, upsets

documents == <<bundle, settling, writes>>
client == <<wanted, server, resetting, sweeping>>
memory == <<records, recordsOf, stateFile>>
queue == <<dirty, delay, recent>>
coroutines == <<runner, push, halted>>
service == <<taken, refused>>
tracksVars == <<documents, client, memory, queue, coroutines, service, astray, upsets>>

NoRecord == [held |-> FALSE, status |-> "queued", digest |-> 0]
NoPush == [at |-> "off", batch |-> {}, of |-> 0, doc |-> 0, own |-> FALSE, to |-> Home, reply |-> "none"]
Idle(batch) == [NoPush EXCEPT !.at = "ready", !.batch = batch]

Settled == {"synced", "rejected"}

Upset == upsets < MaxUpsets /\ upsets' = upsets + 1

Due == {b \in dirty : delay[b] = "none"}

Init ==
    /\ bundle = [b \in Bundles |-> [here |-> FALSE, layout |-> FALSE, own |-> 0]]
    /\ settling = {} /\ wanted = TRUE /\ server = Home /\ resetting = FALSE /\ sweeping = TRUE
    /\ records = [b \in Bundles |-> NoRecord] /\ recordsOf = Home
    /\ stateFile = [of |-> Home, records |-> records]
    /\ dirty = {} /\ delay = [b \in Bundles |-> "none"] /\ recent = {}
    /\ runner = 0 /\ push = [w \in Workers |-> NoPush] /\ halted = {}
    /\ taken = [s \in Servers |-> {}] /\ refused = taken /\ astray = {}
    /\ writes = 0 /\ upsets = 0

\* create_task; the coroutines that are not alive differ in nothing.
Spawns(p) ==
    LET free == {w \in Workers : p[w].at = "off" /\ w \notin halted}
        w == CHOOSE v \in free : TRUE
    IN /\ free # {}
       /\ push' = [p EXCEPT ![w] = [NoPush EXCEPT !.at = "new"]]
       /\ runner' = w

\* Mutant of Kick: no worker for what is not due yet.
KickWhenDue(p) ==
    IF wanted /\ runner = 0 /\ Due # {} THEN Spawns(p) ELSE push' = p /\ UNCHANGED runner

\* _kick, on the coroutines as they are left in p.
Kick(p) == IF wanted /\ runner = 0 THEN Spawns(p) ELSE push' = p /\ UNCHANGED runner

\* _write_state: only what the server has had its say on.
Kept(rs) == [b \in Bundles |-> IF rs[b].status \in Settled THEN rs[b] ELSE NoRecord]
Write(rs) == stateFile' = [of |-> recordsOf, records |-> Kept(rs)]

-----------------------------------------------------------------------------
(* Bundles.                                                                *)

\* A bundle is written (a survey's save, an import, a pull, a label, a
\* layout), and the adapter told: changed.
Written(b) ==
    /\ writes < MaxWrites /\ writes' = writes + 1
    /\ \E layout \in BOOLEAN, own \in {bundle[b].own, writes'} :
          bundle' = [bundle EXCEPT ![b] = [here |-> TRUE, layout |-> layout, own |-> own]]
    /\ settling' = settling \cup {b}
    /\ dirty' = dirty \cup {b} /\ delay' = [delay EXCEPT ![b] = "settle"]
    /\ Kick(push)
    /\ UNCHANGED <<client, memory, recent, halted, service, astray, upsets>>

\* forget, with the coroutines as they are left in p.
Forgotten(b, p) ==
    /\ dirty' = dirty \ {b} /\ delay' = [delay EXCEPT ![b] = "none"]
    /\ records' = [records EXCEPT ![b] = NoRecord]
    /\ IF records[b].held THEN Write(records') ELSE UNCHANGED stateFile
    /\ push' = [w \in Workers |-> IF p[w].of = b THEN [p[w] EXCEPT !.own = FALSE] ELSE p[w]]

\* A bundle is deleted, or renamed away.
Deleted(b) ==
    /\ bundle[b].here /\ Upset
    /\ bundle' = [bundle EXCEPT ![b].here = FALSE, ![b].own = 0]
    /\ settling' = settling \ {b}
    /\ Forgotten(b, push)
    /\ UNCHANGED <<client, recordsOf, recent, runner, halted, service, astray, writes>>

-----------------------------------------------------------------------------
(* Time.                                                                   *)

\* SETTLE_S after the last change.
SettleOver(b) ==
    /\ b \in settling /\ settling' = settling \ {b}
    /\ delay' = [delay EXCEPT ![b] = IF @ = "settle" THEN "none" ELSE @]
    /\ UNCHANGED <<bundle, client, memory, dirty, recent, coroutines, service, astray, writes, upsets>>

\* MIN_INTERVAL_S after the last upload.
FloorOver(b) ==
    /\ b \in recent /\ recent' = recent \ {b}
    /\ delay' = [delay EXCEPT ![b] = IF @ = "floor" THEN "none" ELSE @]
    /\ UNCHANGED <<documents, client, memory, dirty, coroutines, service, astray, upsets>>

BackoffOver(b) ==
    /\ delay[b] = "backoff" /\ delay' = [delay EXCEPT ![b] = "none"]
    /\ UNCHANGED <<documents, client, memory, dirty, recent, coroutines, service, astray, upsets>>

-----------------------------------------------------------------------------
(* The worker.                                                             *)

Turn(w) == push[w].at \in {"new", "ready"} /\ w \notin halted

\* _run's finally: it clears `_task`, whoever that names by now.
Ended(w) == push' = [push EXCEPT ![w] = NoPush] /\ runner' = 0

\* _run: the type is off, or nothing is left to do.
WorkerStops(w) ==
    /\ Turn(w)
    /\ ~wanted \/ (push[w].batch = {} /\ dirty = {})
    /\ Ended(w)
    /\ UNCHANGED <<documents, client, memory, queue, halted, service, astray, upsets>>

\* _push: off the queue, and the document is read.  Of what was due when
\* _due was asked all is pushed before it is asked again.
Begins(w) ==
    /\ Turn(w) /\ wanted
    /\ LET batch == IF push[w].batch = {} THEN Due ELSE push[w].batch
       IN \E b \in batch :
             /\ dirty' = dirty \ {b} /\ delay' = [delay EXCEPT ![b] = "none"]
             /\ push' = [push EXCEPT ![w] = [Idle(batch \ {b}) EXCEPT !.at = "loading", !.of = b]]
    /\ UNCHANGED <<documents, client, memory, recent, runner, halted, service, astray, upsets>>

Running(w, at) == push[w].at = at /\ w \notin halted

Done(w) == [push EXCEPT ![w] = Idle(@.batch)]

\* _push, up to the digest: only a confirmed layout and own evidence is sent.
Loaded(w) ==
    /\ Running(w, "loading")
    /\ LET b == push[w].of
           d == bundle[b]
           noted(status) == records' = [records EXCEPT ![b] = [@ EXCEPT !.held = TRUE, !.status = status]]
       IN IF ~d.here THEN Forgotten(b, Done(w))
          ELSE /\ IF ~d.layout THEN noted("unconfirmed") /\ push' = Done(w)
                  ELSE IF d.own = 0 THEN noted("imported") /\ push' = Done(w)
                  ELSE /\ records' = [records EXCEPT ![b].held = TRUE]
                       /\ push' = [push EXCEPT ![w].at = "digesting", ![w].doc = d.own, ![w].own = TRUE]
               /\ UNCHANGED <<stateFile, dirty, delay>>
    /\ UNCHANGED <<documents, client, recordsOf, recent, runner, halted, service, astray, upsets>>

\* The record of a push that began before a forget or a reload is no longer
\* the adapter's.
Noted(w, status, digest) ==
    IF push[w].own
    THEN [records EXCEPT ![push[w].of] = [held |-> TRUE, status |-> status, digest |-> digest]]
    ELSE records

\* _push, the rest up to the request.
Digested(w) ==
    /\ Running(w, "digesting")
    /\ LET b == push[w].of
           r == records[b]
       IN IF push[w].own /\ r.digest = push[w].doc /\ r.status \in Settled
          THEN push' = Done(w) /\ UNCHANGED <<records, dirty, delay, astray>>
          ELSE IF b \in recent
          THEN /\ dirty' = dirty \cup {b} /\ delay' = [delay EXCEPT ![b] = "floor"]
               /\ records' = Noted(w, "queued", r.digest) /\ push' = Done(w)
               /\ UNCHANGED astray
          ELSE /\ push' = [push EXCEPT ![w].at = "sent", ![w].to = server]
               /\ records' = Noted(w, "uploading", r.digest)
               /\ astray' = IF server = recordsOf THEN astray
                            ELSE astray \cup {<<recordsOf, b, push[w].doc>>}
               /\ UNCHANGED <<dirty, delay>>
    /\ UNCHANGED <<documents, client, recordsOf, stateFile, recent, runner, halted, service, upsets>>

-----------------------------------------------------------------------------
(* The service, and what comes back.                                       *)

Sent(w) == <<push[w].of, push[w].doc>>

\* It takes the document; the answer may be lost.
ServiceTakes(w) ==
    /\ push[w].at = "sent"
    /\ taken' = [taken EXCEPT ![push[w].to] = @ \cup {Sent(w)}] /\ UNCHANGED refused
    /\ \/ push' = [push EXCEPT ![w].at = "answered", ![w].reply = "ok"] /\ UNCHANGED upsets
       \/ push' = [push EXCEPT ![w].at = "answered", ![w].reply = "transient"] /\ Upset
    /\ UNCHANGED <<documents, client, memory, queue, runner, halted, astray>>

ServiceDeclines(w) ==
    /\ push[w].at = "sent" /\ Upset
    /\ \E reply \in {"transient", "auth", "rejected", "type_disabled"} :
          /\ push' = [push EXCEPT ![w].at = "answered", ![w].reply = reply]
          /\ refused' = [refused EXCEPT ![push[w].to] = IF reply = "rejected" THEN @ \cup {Sent(w)} ELSE @]
    /\ UNCHANGED <<documents, client, memory, queue, runner, halted, taken, astray>>

\* The rest of _push.
Accepted(w) ==
    /\ Running(w, "answered") /\ push[w].reply = "ok"
    /\ recent' = recent \cup {push[w].of}
    /\ records' = Noted(w, "synced", push[w].doc) /\ Write(records') /\ push' = Done(w)
    /\ UNCHANGED <<documents, client, recordsOf, dirty, delay, runner, halted, service, astray, upsets>>

\* _failed.
Failed(w) ==
    /\ Running(w, "answered") /\ push[w].reply # "ok"
    /\ LET b == push[w].of
           reply == push[w].reply
           digest == records[b].digest
       IN /\ wanted' = (wanted /\ reply # "type_disabled")
          /\ dirty' = IF reply = "rejected" THEN dirty ELSE dirty \cup {b}
          /\ delay' = CASE reply = "auth" -> [c \in Bundles |-> IF c \in dirty' THEN "backoff" ELSE delay[c]]
                        [] reply = "transient" -> [delay EXCEPT ![b] = "backoff"]
                        [] OTHER -> delay
          /\ records' = CASE reply = "rejected" -> Noted(w, "rejected", push[w].doc)
                          [] reply = "transient" -> Noted(w, "error", digest)
                          [] OTHER -> Noted(w, "queued", digest)
          /\ IF reply = "rejected" THEN Write(records') ELSE UNCHANGED stateFile
    /\ push' = Done(w)
    /\ UNCHANGED <<documents, server, resetting, sweeping, recordsOf, recent, runner, halted, service, astray, upsets>>

\* The cancellation reaches a halted worker; one that has not begun has no
\* finally to run.
Unwinds(w) ==
    /\ w \in halted /\ halted' = halted \ {w}
    /\ push' = [push EXCEPT ![w] = NoPush]
    /\ runner' = IF push[w].at = "new" THEN runner ELSE 0
    /\ UNCHANGED <<documents, client, memory, queue, service, astray, upsets>>

-----------------------------------------------------------------------------
(* The client, and the buttons.                                            *)

\* halt, with the coroutines as they are left in p.
Halt(p) ==
    /\ halted' = IF runner = 0 THEN halted ELSE halted \cup {runner}
    /\ runner' = 0 /\ push' = p

\* The toggle: apply halts, or brings up; the row before it is SessionsSync's.
Toggled ==
    /\ Upset /\ wanted' = ~wanted /\ sweeping' = wanted'
    /\ IF wanted' THEN UNCHANGED coroutines ELSE Halt(push)
    /\ UNCHANGED <<documents, server, resetting, memory, queue, service, astray>>

\* sweep, by a bring-up or Sync now: every bundle, due at once.
Sweeps ==
    /\ sweeping /\ wanted /\ sweeping' = FALSE
    /\ LET all == {b \in Bundles : bundle[b].here}
       IN /\ dirty' = dirty \cup all
          /\ delay' = [b \in Bundles |-> IF b \in all THEN "none" ELSE delay[b]]
          /\ settling' = settling \ all
    /\ Kick(push)
    /\ UNCHANGED <<bundle, wanted, server, resetting, memory, recent, halted, service, astray, writes, upsets>>

\* Sync now: clear_backoff, and a sweep.
SyncNow ==
    /\ wanted /\ ~sweeping /\ Upset /\ sweeping' = TRUE
    /\ delay' = [b \in Bundles |-> "none"] /\ settling' = {}
    /\ UNCHANGED <<bundle, wanted, server, resetting, memory, dirty, recent, coroutines, service, astray, writes>>

\* Mutant of Reloaded: nobody asks whose records the file holds.
ReloadedAnyones(s) == stateFile.records

\* reload_state.
Reloaded(s) == IF stateFile.of = s THEN stateFile.records ELSE [b \in Bundles |-> NoRecord]

\* _apply_sync: another address or token.  The settings hold it while its
\* row is still being written, and the worker goes on ...
Readdressed ==
    /\ ~resetting /\ Upset
    /\ server' \in Servers /\ resetting' = TRUE
    /\ UNCHANGED <<documents, wanted, sweeping, memory, queue, coroutines, service, astray>>

\* ... and then reset_connection, and apply.
Reconnected ==
    /\ resetting /\ resetting' = FALSE
    /\ records' = Reloaded(server) /\ recordsOf' = server
    /\ sweeping' = wanted
    /\ Halt([w \in Workers |-> [push[w] EXCEPT !.own = FALSE]])
    /\ UNCHANGED <<documents, wanted, server, stateFile, queue, service, astray, upsets>>

\* The logger ends, or dies, and is started again; a new address may not
\* have been written.
Restarted ==
    /\ Upset /\ sweeping' = wanted
    /\ server' \in {server, recordsOf} /\ recordsOf' = server' /\ resetting' = FALSE
    /\ records' = Reloaded(server') /\ dirty' = {} /\ delay' = [b \in Bundles |-> "none"] /\ recent' = {}
    /\ runner' = 0 /\ push' = [w \in Workers |-> NoPush] /\ halted' = {} /\ settling' = {}
    /\ UNCHANGED <<bundle, wanted, stateFile, service, astray, writes>>

-----------------------------------------------------------------------------
Worker(w) ==
    \/ WorkerStops(w) \/ Begins(w) \/ Loaded(w) \/ Digested(w)
    \/ Accepted(w) \/ Failed(w) \/ Unwinds(w)

Passes(b) == SettleOver(b) \/ FloorOver(b) \/ BackoffOver(b)

Next ==
    \/ \E b \in Bundles : Written(b) \/ Deleted(b) \/ Passes(b)
    \/ \E w \in Workers : Worker(w) \/ ServiceTakes(w) \/ ServiceDeclines(w)
    \/ Toggled \/ Sweeps \/ SyncNow
    \/ Readdressed \/ Reconnected \/ Restarted

Spec == Init /\ [][Next]_tracksVars

\* The event loop runs every task that can run, a request ends, delays pass.
Fairness ==
    /\ \A w \in Workers : WF_tracksVars(Worker(w)) /\ WF_tracksVars(ServiceTakes(w) \/ ServiceDeclines(w))
    /\ \A b \in Bundles : WF_tracksVars(Passes(b))
    /\ WF_tracksVars(Sweeps) /\ WF_tracksVars(Reconnected)

FairSpec == Spec /\ Fairness

-----------------------------------------------------------------------------
(* Properties.                                                             *)

\* The shape of the state.
TypeOK ==
    /\ dirty \cup recent \cup settling \subseteq Bundles /\ runner \in Workers \cup {0}
    /\ \A b \in Bundles : delay[b] = "settle" => b \in settling
    /\ runner # 0 => push[runner].at # "off" /\ runner \notin halted

\* "The adapter remembers that per track ... so a restart does not re-send
\* what it already sent": what is noted as synced was accepted by the server
\* the notes are about, through changes of the address, halts and restarts;
\* but for what left while the settings held a new address and the records
\* were still the old server's: its answer may be noted as that server's.
SyncedIsTaken ==
    \A b \in Bundles :
        records[b].status = "synced" =>
            \/ <<b, records[b].digest>> \in taken[recordsOf]
            \/ <<recordsOf, b, records[b].digest>> \in astray

\* What the server has yet to say its word on; of what went astray it is not
\* asked before the bundle changes.
Owed(b) ==
    /\ <<server, b, bundle[b].own>> \notin astray
    /\ bundle[b].here /\ bundle[b].layout /\ bundle[b].own # 0
    /\ <<b, bundle[b].own>> \notin taken[server] \cup refused[server]

\* A confirmed bundle with something of one's own goes up once it settles,
\* whatever was cancelled, lost, held back or left over on the way.
GoesUp == \A b \in Bundles : Owed(b) ~> ~(Owed(b) /\ wanted)

-----------------------------------------------------------------------------
(* What the code's comments say and the code does not do; no run checks it. *)

\* "none at all when the document has not changed since the last one the server
\* accepted" (tracks.py): what left for a new address before the records were
\* exchanged is noted with the old server's, which never saw it.
NotedWhereTaken ==
    \A b \in Bundles :
        records[b].status = "synced" => <<b, records[b].digest>> \in taken[recordsOf]

\* tracks.py: "So a running survey never uploads mid-run: the clock keeps
\* moving until the run has stopped".
NeverMidRun ==
    [][\A w \in Workers :
          push[w].at # "loading" /\ push'[w].at = "loading" => push'[w].of \notin settling]_tracksVars

=============================================================================
