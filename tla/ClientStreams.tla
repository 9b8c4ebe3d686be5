----------------------------- MODULE ClientStreams -----------------------------
(***************************************************************************)
(* The live stream to the browsers: backend/app/service.py (_ClientStream, *)
(* register, unregister, _publish, _client_sender, the voice protocol) and *)
(* api/ws.py, with the browser's end of the socket as                       *)
(* frontend/src/store/telemetry.ts and lib/useVoiceClient.ts keep it.      *)
(*                                                                         *)
(* Per socket there are two tasks on the server, the endpoint that         *)
(* receives and the sender that drains the queue, and a link that may      *)
(* stall (the browser reads nothing) or be lost without the server         *)
(* noticing.  _publish runs without an await, so an event reaches every    *)
(* queue in one step.                                                      *)
(*                                                                         *)
(* An event is its kind and a number.  register's two first messages are   *)
(* one "status" event, the pair _publish_voice_status sends one "voice"    *)
(* event.  A telemetry frame is one slot, full or not.  Only the pages     *)
(* that may speak are modelled (VOICE_PAGES).                              *)
(***************************************************************************)
EXTENDS Integers, FiniteSets, SequencesExt

CONSTANTS
    Sockets,      \* connections at one time, used again once both ends are done
    Pages,        \* browsers: the client ids
    Owner,        \* the browser each socket is from
    QueueSize,    \* room in a client's event queue
    Watched,      \* the sockets the liveness properties follow
    Wanted,       \* what a client may subscribe to: sets of kinds
    MaxPublished, \* bound: events the recorder and the browsers cause
    MaxFaults     \* bound: links stalled, lost or closed

Nobody == ""
Kinds == {"lap", "survey", "voice", "status"}
AlwaysSent == {"status"}

ASSUME OwnerAssumption  == Owner \in [Sockets -> Pages] /\ Nobody \notin Pages
ASSUME WatchedAssumption == Watched \subseteq Sockets
ASSUME WantedAssumption == Wanted \subseteq SUBSET Kinds
ASSUME BoundsAssumption == QueueSize \in Nat \ {0} /\ MaxPublished \in Nat /\ MaxFaults \in Nat

VARIABLES
    tracked,    \* the sockets in service._clients
    client,     \* the _ClientStream of each, NoClient once it is out
    endpoint,   \* where live() stands: none, receiving, leaving, done
    closing,    \* sockets _close_ws has been called for
    link,       \* the connection: none, up, stalled, lost, closed
    owed,       \* accepted for the browser and not yet received: history
    active,     \* _active_voice_client
    last,       \* _last_voice_client
    published, faults

socket == <<endpoint, closing, link>>
voice  == <<active, last>>
vars   == <<tracked, client, socket, owed, voice, published, faults>>

\* queue: client.events; sending: the event in send_text, as a sequence;
\* at: where _client_sender stands, "waiting", "sending", "framing", "ended".
NoClient ==
    [queue |-> <<>>, frame |-> FALSE, wakeup |-> FALSE, at |-> "ended", sending |-> <<>>,
     wants |-> Kinds, ident |-> Nobody]

Greeting == <<[kind |-> "status", n |-> 0]>>

Init ==
    /\ tracked = {} /\ closing = {}
    /\ client = [s \in Sockets |-> NoClient]
    /\ owed = [s \in Sockets |-> <<>>]
    /\ endpoint = [s \in Sockets |-> "none"] /\ link = endpoint
    /\ active = Nobody /\ last = Nobody
    /\ published = 0 /\ faults = 0

-----------------------------------------------------------------------------
(* Publishing.                                                             *)

Full(s) == Len(client[s].queue) >= QueueSize

Asked(s, kind) == kind \in client[s].wants \cup AlwaysSent

\* Mutant of Dropped: a client whose queue is full is skipped, whatever the
\* event.
DroppedNever(kind) == {}

\* The clients disconnected because an event that matters found their
\* queue full.
Dropped(kind) == {s \in tracked : Asked(s, kind) /\ Full(s) /\ kind # "survey"}

Reached(kind) == {s \in tracked : Asked(s, kind) /\ ~Full(s)}

Queued(c, event) == [c EXCEPT !.queue = Append(@, event), !.wakeup = TRUE]

\* Mutant of ToClose: a dropped client is forgotten, its socket left open.
ToCloseNone(kind) == closing

ToClose(kind) == closing \cup Dropped(kind)

\* _publish, with _drop_client, into clients as they now are.
Published(kind, clients) ==
    LET event == [kind |-> kind, n |-> published + 1] IN
    /\ published' = published + 1
    /\ client' = [s \in Sockets |->
          CASE s \in Reached(kind) -> Queued(clients[s], event)
            [] s \in Dropped(kind) -> NoClient
            [] OTHER -> clients[s]]
    /\ owed' = [s \in Sockets |->
          CASE s \in Reached(kind) -> Append(owed[s], event)
            [] s \in Dropped(kind) -> <<>>
            [] OTHER -> owed[s]]
    /\ tracked' = tracked \ Dropped(kind)
    /\ closing' = ToClose(kind)

Publish(kind) ==
    /\ published < MaxPublished /\ tracked # {}
    /\ Published(kind, client)
    /\ UNCHANGED <<endpoint, link, voice, faults>>

Framed(c) == [c EXCEPT !.frame = TRUE, !.wakeup = TRUE]

\* _publish_telemetry for a client whose next frame is due: the slot is
\* overwritten.
Frame(s) ==
    /\ s \in tracked /\ ~client[s].frame
    /\ client' = [client EXCEPT ![s] = Framed(@)]
    /\ UNCHANGED <<tracked, socket, owed, voice, published, faults>>

-----------------------------------------------------------------------------
(* The sender of one client.                                               *)

\* What the loop does next: an event, else the frame, else it waits.
Drained(c) ==
    IF c.queue # <<>>
    THEN [c EXCEPT !.sending = <<Head(c.queue)>>, !.queue = Tail(@), !.at = "sending"]
    ELSE [c EXCEPT !.sending = <<>>, !.frame = FALSE,
                   !.at = IF c.frame THEN "framing" ELSE "waiting"]

Wakes(s) ==
    /\ client[s].at = "waiting" /\ client[s].wakeup
    /\ client' = [client EXCEPT ![s] = Drained([@ EXCEPT !.wakeup = FALSE])]
    /\ UNCHANGED <<tracked, socket, owed, voice, published, faults>>

\* send_text returned.  Into a link that is lost and not yet known to be, it
\* returns too, and the event is gone with the link.
Sent(s) ==
    /\ client[s].at = "sending" /\ link[s] \in {"up", "lost"}
    /\ client' = [client EXCEPT ![s] = Drained(@)]
    /\ owed' = [owed EXCEPT ![s] = IF @ # <<>> /\ Head(@) = client[s].sending[1] THEN Tail(@) ELSE @]
    /\ UNCHANGED <<tracked, socket, voice, published, faults>>

\* After the frame the loop goes round to its wait.
FrameSent(s) ==
    /\ client[s].at = "framing" /\ link[s] \in {"up", "lost"}
    /\ client' = [client EXCEPT ![s].at = "waiting"]
    /\ UNCHANGED <<tracked, socket, owed, voice, published, faults>>

\* send_text raises: the sender takes its client out itself, and the socket
\* is closed.
SendFails(s) ==
    /\ client[s].at \in {"sending", "framing"} /\ link[s] = "closed"
    /\ tracked' = tracked \ {s}
    /\ client' = [client EXCEPT ![s] = NoClient]
    /\ owed' = [owed EXCEPT ![s] = <<>>]
    /\ closing' = closing \cup {s}
    /\ UNCHANGED <<endpoint, link, voice, published, faults>>

-----------------------------------------------------------------------------
(* The endpoint of one socket: live(), register, unregister.               *)

\* A browser has one socket, and opens another once that one is over for it.
Connects(s) ==
    /\ endpoint[s] = "none" \/ (endpoint[s] = "done" /\ link[s] = "closed")
    /\ \A t \in Sockets : Owner[t] = Owner[s] => link[t] \notin {"up", "stalled"}
    /\ link' = [link EXCEPT ![s] = "up"]
    /\ endpoint' = [endpoint EXCEPT ![s] = "receiving"]
    /\ tracked' = tracked \cup {s}
    /\ client' = [client EXCEPT ![s] =
                    [@ EXCEPT !.queue = Greeting, !.wakeup = TRUE, !.at = "waiting"]]
    /\ owed' = [owed EXCEPT ![s] = Greeting]
    /\ closing' = closing \ {s}
    /\ UNCHANGED <<voice, published, faults>>

\* receive_text raises: the browser has gone, or the server closed it.
\* unregister takes the client out and cancels its sender, if it is there.
Leaves(s) ==
    /\ endpoint[s] = "receiving" /\ link[s] = "closed"
    /\ endpoint' = [endpoint EXCEPT ![s] = IF s \in tracked THEN "leaving" ELSE "done"]
    /\ tracked' = tracked \ {s}
    /\ client' = [client EXCEPT ![s] = [NoClient EXCEPT !.ident = client[s].ident]]
    /\ owed' = [owed EXCEPT ![s] = <<>>]
    /\ UNCHANGED <<closing, link, voice, published, faults>>

\* The sender has ended: the claim is cleared and everyone told.
Left(s) ==
    LET without == [client EXCEPT ![s] = NoClient] IN
    /\ endpoint[s] = "leaving"
    /\ endpoint' = [endpoint EXCEPT ![s] = "done"]
    /\ IF client[s].ident # Nobody /\ client[s].ident = active
       THEN active' = Nobody /\ Published("voice", without)
       ELSE client' = without /\ UNCHANGED <<active, published, owed, tracked, closing>>
    /\ UNCHANGED <<link, last, faults>>

\* The link is known to be gone: by the ping of the WebSocket library, or
\* _close_ws has run.
Closed(s) ==
    /\ link[s] = "lost" \/ (s \in closing /\ link[s] # "closed")
    /\ link' = [link EXCEPT ![s] = "closed"]
    /\ UNCHANGED <<tracked, client, endpoint, closing, owed, voice, published, faults>>

-----------------------------------------------------------------------------
(* What a browser sends.                                                   *)

Heard(s) == endpoint[s] = "receiving" /\ link[s] = "up" /\ s \in tracked

Subscribes(s) ==
    /\ Heard(s)
    /\ \E kinds \in Wanted : client' = [client EXCEPT ![s].wants = kinds]
    /\ UNCHANGED <<tracked, socket, owed, voice, published, faults>>

\* The claim of the page that had it last, given back.
Restores(s, speaks) == speaks /\ active = Nobody /\ Owner[s] = last

\* client_capabilities: the page names itself, and says whether it can speak.
NamesItself(s, speaks) ==
    /\ Heard(s) /\ published < MaxPublished
    /\ active' = IF Restores(s, speaks) THEN Owner[s] ELSE active
    /\ Published("voice", [client EXCEPT ![s].ident = Owner[s]])
    /\ UNCHANGED <<endpoint, link, last, faults>>

\* claim_voice_output, from the socket that registered the id.
Claims(s) ==
    /\ Heard(s) /\ published < MaxPublished /\ client[s].ident = Owner[s]
    /\ active' = Owner[s] /\ last' = Owner[s]
    /\ Published("voice", client)
    /\ UNCHANGED <<endpoint, link, faults>>

\* release_voice_output.  Needs no bound: a claim has come before it.
Releases(s) ==
    /\ Heard(s) /\ client[s].ident = Owner[s] /\ active = Owner[s]
    /\ active' = Nobody
    /\ Published("voice", client)
    /\ UNCHANGED <<endpoint, link, last, faults>>

-----------------------------------------------------------------------------
(* The network and the browser.                                            *)

LinkTurns(s, from, to) ==
    /\ link[s] \in from /\ faults < MaxFaults
    /\ link' = [link EXCEPT ![s] = to]
    /\ faults' = faults + 1
    /\ UNCHANGED <<tracked, client, endpoint, closing, owed, voice, published>>

Stalls(s)    == LinkTurns(s, {"up"}, "stalled")
ReadsOn(s)   == LinkTurns(s, {"stalled"}, "up")
LinkLost(s)  == LinkTurns(s, {"up", "stalled"}, "lost")
TabClosed(s) == LinkTurns(s, {"up", "stalled"}, "closed")

-----------------------------------------------------------------------------
Sends(s)   == Wakes(s) \/ Sent(s) \/ FrameSent(s) \/ SendFails(s)
Serves(s)  == Leaves(s) \/ Left(s) \/ Closed(s)
Says(s)    == Subscribes(s) \/ Claims(s) \/ Releases(s) \/ \E speaks \in BOOLEAN : NamesItself(s, speaks)
Turns(s)   == Connects(s) \/ Stalls(s) \/ ReadsOn(s) \/ LinkLost(s) \/ TabClosed(s)

Next ==
    \/ \E kind \in {"lap", "survey"} : Publish(kind)
    \/ \E s \in Sockets : Frame(s) \/ Sends(s) \/ Serves(s) \/ Says(s) \/ Turns(s)

\* The event loop runs its tasks, and the ping of the WebSocket library
\* finds a lost link.  Nothing says that a stalled browser reads again.
Fairness == \A s \in Sockets : WF_vars(Sends(s)) /\ WF_vars(Serves(s))

Spec == Init /\ [][Next]_vars /\ Fairness

-----------------------------------------------------------------------------
(* Properties.                                                             *)

\* The shape of the state.
TypeOK ==
    /\ tracked \subseteq Sockets /\ closing \subseteq Sockets
    /\ \A s \in Sockets :
          /\ Len(client[s].queue) <= QueueSize
          /\ client[s].at \in {"waiting", "sending", "framing", "ended"}
          /\ Len(client[s].sending) = (IF client[s].at = "sending" THEN 1 ELSE 0)
          /\ client[s].ident \in {Nobody, Owner[s]}
          /\ endpoint[s] \in {"none", "receiving", "leaving", "done"}
          /\ link[s] \in {"none", "up", "stalled", "lost", "closed"}
    /\ {active, last} \subseteq Pages \cup {Nobody}

\* What the service promises: events in order, and a reader that misses one
\* that matters is disconnected (_ClientStream, _publish).
Feed == INSTANCE EventFeed WITH
    Readers <- Sockets, Recoverable <- {"survey"}, open <- tracked,
    wants <- [s \in Sockets |-> client[s].wants \cup AlwaysSent]
FeedKept == Feed!Spec

\* What is accepted for a browser that reads reaches it, or the socket ends;
\* and a client taken out of _clients does not stay connected without knowing
\* (_drop_client: "Close the socket too").
Reaches ==
    \A s \in Watched :
        /\ owed[s] # <<>> ~> (owed[s] = <<>> \/ link[s] = "stalled" \/ endpoint[s] = "done")
        /\ (endpoint[s] = "receiving" /\ s \notin tracked) ~> endpoint[s] = "done"

\* A page that can speak keeps its claim while it is connected: it goes when
\* the page gives it up or its last socket leaves (unregister: "the same
\* page gets it back when it comes home").
ClaimKept ==
    [][\A p \in Pages :
          active = p /\ active' = Nobody =>
              \/ \E s \in Sockets : Releases(s)
              \/ ~\E s \in tracked' : client'[s].ident = p]_vars

=============================================================================
