------------------------------ MODULE VoiceQueue ------------------------------
(***************************************************************************)
(* The queue of spoken callouts in one browser tab:                        *)
(* frontend/src/lib/speech.ts (class VoiceQueue, speakTest), with what     *)
(* frontend/src/store/engineer.ts and lib/useVoiceClient.ts call it for.   *)
(*                                                                         *)
(* Everything runs in the tab's event loop: a message from the server, a   *)
(* timer, an event of the speech engine, a click.  The engine (the Web     *)
(* Speech API) is external: it speaks its own queue in order, may drop an  *)
(* utterance, never start it or never end it, and posts its events, which  *)
(* are dispatched later.                                                   *)
(*                                                                         *)
(* A callout is its id.  A deadline that has passed is a member of `late`; *)
(* that an id is forgotten after RECENT_RETENTION_MS is left out.          *)
(***************************************************************************)
EXTENDS Integers, FiniteSets, SequencesExt

CONSTANTS
    Callouts,
    Priority,     \* of each callout
    Interrupts,   \* the callouts that may cut speech short
    DedupeKey,    \* of each callout
    None, Test,   \* no callout; the utterance of Test voice
    MaxQueue,     \* MAX_QUEUE
    MaxFailures,  \* MAX_CONSECUTIVE_FAILURES
    Fallback,     \* an on-device voice can stand in for the chosen one
    MaxArrivals,  \* bound: callouts received
    MaxPosted,    \* bound: events the engine posts ahead of their dispatch
    MaxFaults     \* bound: engine failures, clicks and lost connections

VARIABLES
    tab,       \* the queue and the engine, a record: see Init
    enabled,   \* the driver wants speech here and this tab is the speaker
    muted,     \* the tab is hidden, and is to be silent then
    strayed,   \* an utterance the queue had given up has begun: history
    arrivals, faults

vars == <<tab, enabled, muted, strayed, arrivals, faults>>

NoTimer == [phase |-> "none", utt |-> [id |-> None, n |-> 0], retried |-> FALSE]

\* queue, recent, speaking, watchdog and failures are VoiceQueue's; late is
\* the queued callouts past their deadline.  synth is the engine's queue,
\* talking when its head is being spoken; deferred waits for the list of
\* voices; events are posted and not dispatched.  said counts what was handed
\* to the engine: history.
Init ==
    /\ tab = [queue |-> <<>>, late |-> {}, recent |-> {}, speaking |-> None,
              watchdog |-> NoTimer, failures |-> 0,
              synth |-> <<>>, talking |-> FALSE, deferred |-> <<>>,
              events |-> <<>>, said |-> [c \in Callouts |-> 0]]
    /\ enabled = TRUE /\ muted = FALSE /\ strayed = FALSE
    /\ arrivals = 0 /\ faults = 0

-----------------------------------------------------------------------------
(* The engine as the code drives it.                                       *)

\* speak: the utterance waits for the list of voices, which may be there
\* already.
Spoken(t, u) == [t EXCEPT !.deferred = Append(@, u)]

\* cancelIfSpeaking: the events it causes come later.
Cancelled(t) ==
    [t EXCEPT !.events = @ \o [i \in 1 .. Len(t.synth) |-> [kind |-> "canceled", utt |-> t.synth[i]]],
              !.synth = <<>>, !.talking = FALSE]

-----------------------------------------------------------------------------
(* VoiceQueue.                                                             *)

Acked(t, ids) == [t EXCEPT !.recent = @ \cup ids]

Swept(t) ==
    [Acked(t, t.late) EXCEPT !.queue = SelectSeq(@, LAMBDA c : c \notin t.late), !.late = {}]

\* What pump does with each callout instead of speaking it.
CaptionsOnly(t) == t.failures >= MaxFailures \/ muted

\* The head of the queue is handed to the engine, with a timer for its start.
Uttered(t, c) ==
    LET u == [id |-> c, n |-> t.said[c] + 1] IN
    Spoken([t EXCEPT !.queue = Tail(@), !.speaking = c, !.said[c] = @ + 1,
                     !.watchdog = [phase |-> "start", utt |-> u, retried |-> FALSE]], u)

\* pump, which goes on by itself until something is spoken.
Pumped(t) ==
    LET swept == Swept(t) IN
    IF t.speaking # None \/ t.queue = <<>> THEN t
    ELSE IF swept.queue = <<>> THEN swept
    ELSE IF CaptionsOnly(swept)
    THEN [Acked(swept, ToSet(swept.queue)) EXCEPT !.queue = <<>>]
    ELSE Uttered(swept, Head(swept.queue))

\* finish, which knows its callout by the id alone.
Finished(t, c, status) ==
    IF t.speaking # c THEN t
    ELSE Pumped([Acked(t, {c}) EXCEPT !.speaking = None, !.watchdog = NoTimer,
              !.failures = CASE status = "speech_error" -> @ + 1
                             [] status = "spoken" -> 0
                             [] OTHER -> @])

\* Mutant of CutShort: nobody is told.
CutShortSilently(t) == Cancelled([t EXCEPT !.watchdog = NoTimer, !.speaking = None])

\* cancelSpeech.
CutShort(t) ==
    Cancelled([Acked(t, {t.speaking} \ {None}) EXCEPT !.watchdog = NoTimer, !.speaking = None])

Cleared(t) == [CutShort(t) EXCEPT !.queue = <<>>, !.late = {}]

IsQueued(t, c) == \E q \in ToSet(t.queue) : q = c \/ DedupeKey[q] = DedupeKey[c]

\* insertByPriority: highest first, newest first within a priority.
Inserted(queue, c) ==
    LET urgent == SelectSeq(queue, LAMBDA q : Priority[q] > Priority[c])
        rest   == SelectSeq(queue, LAMBDA q : Priority[q] <= Priority[c])
        all    == urgent \o <<c>> \o rest
    IN SubSeq(all, 1, IF Len(all) > MaxQueue THEN MaxQueue ELSE Len(all))

\* What is dropped off the end of the queue is told to nobody.
Queued(t, c) ==
    LET queue == Inserted(t.queue, c) IN
    IF c \notin ToSet(queue) THEN Acked(t, {c})
    ELSE Pumped([t EXCEPT !.queue = queue, !.late = @ \cap ToSet(queue)])

\* enqueue.
Taken(t, c) ==
    IF ~enabled \/ c \in t.recent \/ IsQueued(t, c) THEN Acked(t, {c})
    ELSE IF c \in Interrupts
    THEN Pumped([CutShort(t) EXCEPT !.queue = <<c>>, !.late = {}])
    ELSE Queued(t, c)

Enqueue(c) ==
    /\ arrivals < MaxArrivals
    /\ tab' = Taken(Swept(tab), c)
    /\ arrivals' = arrivals + 1
    /\ UNCHANGED <<enabled, muted, strayed, faults>>

\* A deadline passes.
Expires(c) ==
    /\ c \in ToSet(tab.queue) \ tab.late
    /\ tab' = [tab EXCEPT !.late = @ \cup {c}]
    /\ UNCHANGED <<enabled, muted, strayed, arrivals, faults>>

-----------------------------------------------------------------------------
(* Timers and events.                                                      *)

\* onstart: the timer is taken over by whoever starts.
Started(t, u) ==
    [t EXCEPT !.failures = 0, !.watchdog = [phase |-> "mid", utt |-> u, retried |-> FALSE]]

Dispatched(t, e) ==
    CASE e.utt.id = Test -> t
      [] e.utt.id # Test /\ e.kind = "start" -> Started(t, e.utt)
      [] e.utt.id # Test /\ e.kind = "end" -> Finished(t, e.utt.id, "spoken")
      [] e.utt.id # Test /\ e.kind = "canceled" -> Finished(t, e.utt.id, "interrupted")
      [] OTHER -> Finished(t, e.utt.id, "speech_error")

GivenUp(t, u) == u.id # Test /\ (t.speaking # u.id \/ t.said[u.id] # u.n)

Dispatch ==
    /\ tab.events # <<>>
    /\ LET e == Head(tab.events) IN
          /\ tab' = Dispatched([tab EXCEPT !.events = Tail(@)], e)
          /\ strayed' = (strayed \/ (e.kind = "start" /\ GivenUp(tab, e.utt)))
    /\ UNCHANGED <<enabled, muted, arrivals, faults>>

\* Mutant of TimedOut: an utterance that began is waited for.
TimedOutBefore(t, u) ==
    IF t.watchdog.phase = "mid" THEN [t EXCEPT !.watchdog = NoTimer]
    ELSE Finished(Cancelled([t EXCEPT !.watchdog = NoTimer]), u.id, "speech_error")

\* The watchdog: an utterance that never starts is tried once more with an
\* on-device voice, else given up; so is one that never ends.
TimedOut(t, u) ==
    LET stopped == Cancelled([t EXCEPT !.watchdog = NoTimer]) IN
    IF t.watchdog.phase = "start" /\ Fallback /\ ~t.watchdog.retried
    THEN Spoken([stopped EXCEPT !.watchdog = [t.watchdog EXCEPT !.retried = TRUE]], u)
    ELSE Finished(stopped, u.id, "speech_error")

\* An utterance has left `deferred` long before its time to start is up
\* (VOICES_WAIT_MS is less than START_TIMEOUT_MS).
TimerFires ==
    /\ tab.watchdog # NoTimer
    /\ tab.watchdog.phase = "start" => tab.watchdog.utt \notin ToSet(tab.deferred)
    /\ tab' = TimedOut(tab, tab.watchdog.utt)
    /\ UNCHANGED <<enabled, muted, strayed, arrivals, faults>>

\* whenVoicesReady: the list is there, or the wait for it is over.
VoicesReady ==
    /\ tab.deferred # <<>>
    /\ tab' = [tab EXCEPT !.synth = Append(@, Head(tab.deferred)), !.deferred = Tail(@)]
    /\ UNCHANGED <<enabled, muted, strayed, arrivals, faults>>

-----------------------------------------------------------------------------
(* The engine's own steps.                                                 *)

Room == Len(tab.events) < MaxPosted

Posts(kind) == Append(tab.events, [kind |-> kind, utt |-> Head(tab.synth)])

EngineStarts ==
    /\ tab.synth # <<>> /\ ~tab.talking /\ Room
    /\ tab' = [tab EXCEPT !.talking = TRUE, !.events = Posts("start")]
    /\ UNCHANGED <<enabled, muted, strayed, arrivals, faults>>

EngineEnds ==
    /\ tab.talking /\ Room
    /\ tab' = [tab EXCEPT !.talking = FALSE, !.events = Posts("end"), !.synth = Tail(@)]
    /\ UNCHANGED <<enabled, muted, strayed, arrivals, faults>>

EngineFails ==
    /\ tab.synth # <<>> /\ Room /\ faults < MaxFaults
    /\ tab' = [tab EXCEPT !.talking = FALSE, !.events = Posts("error"), !.synth = Tail(@)]
    /\ faults' = faults + 1
    /\ UNCHANGED <<enabled, muted, strayed, arrivals>>

\* Accepted and never spoken: no start, no end, no error.
EngineDrops ==
    /\ tab.synth # <<>> /\ ~tab.talking /\ faults < MaxFaults
    /\ tab' = [tab EXCEPT !.synth = Tail(@)]
    /\ faults' = faults + 1
    /\ UNCHANGED <<enabled, muted, strayed, arrivals>>

-----------------------------------------------------------------------------
(* The driver and the connection.                                          *)

\* The connection drops, another device is the speaker, or the driver
\* switches it off; and back.
Clears ==
    /\ faults < MaxFaults
    /\ tab' = Cleared(tab)
    /\ enabled' \in BOOLEAN
    /\ faults' = faults + 1
    /\ UNCHANGED <<muted, strayed, arrivals>>

Enables ==
    /\ ~enabled /\ enabled' = TRUE
    /\ UNCHANGED <<tab, muted, strayed, arrivals, faults>>

Hides ==
    /\ faults < MaxFaults
    /\ muted' = ~muted
    /\ faults' = faults + 1
    /\ UNCHANGED <<tab, enabled, strayed, arrivals>>

\* Test voice: past the queue, but into the same engine.
TestVoice ==
    /\ faults < MaxFaults
    /\ tab' = Spoken(Cancelled([tab EXCEPT !.failures = 0]), [id |-> Test, n |-> 0])
    /\ faults' = faults + 1
    /\ UNCHANGED <<enabled, muted, strayed, arrivals>>

-----------------------------------------------------------------------------
Loop   == Dispatch \/ TimerFires \/ VoicesReady
Engine == EngineStarts \/ EngineEnds \/ EngineFails \/ EngineDrops
Driver == Clears \/ Enables \/ Hides \/ TestVoice

Next == Loop \/ Engine \/ Driver \/ \E c \in Callouts : Enqueue(c) \/ Expires(c)

\* The tab dispatches its events and its timers fire.  The engine owes
\* nothing: that is what the watchdog is for.
Fairness == WF_vars(Dispatch) /\ WF_vars(TimerFires) /\ WF_vars(VoicesReady)

Spec == Init /\ [][Next]_vars /\ Fairness

-----------------------------------------------------------------------------
(* Properties.                                                             *)

\* The shape of the state.
TypeOK ==
    /\ ToSet(tab.queue) \cup tab.recent \subseteq Callouts
    /\ tab.late \subseteq ToSet(tab.queue) /\ Len(tab.queue) <= MaxQueue
    /\ tab.speaking \in Callouts \cup {None}
    /\ tab.watchdog.phase \in {"none", "start", "mid"}
    /\ tab.failures \in 0 .. MaxFailures
    /\ tab.talking => tab.synth # <<>>

\* What was handed to the engine and is over has been answered, however it
\* ended (enqueue: "the ack follows when the utterance finishes").
Answered == \A c \in Callouts : tab.said[c] > 0 /\ tab.speaking # c => c \in tab.recent

\* An engine that never reports back does not hold the queue, unless one
\* utterance that was given up began after all.
Moves == \A c \in Callouts : tab.speaking = c ~> (tab.speaking # c \/ strayed)

\* docs/internals/race-engineer.md: "a watchdog that cancels and moves on
\* when an utterance never reports back".
NeverWedged == \A c \in Callouts : tab.speaking = c ~> tab.speaking # c

\* No callout is said twice (RECENT_RETENTION_MS: "so a reconnect or a
\* duplicate event can't say the same thing twice").
SaidOnce == \A c \in Callouts : tab.said[c] <= 1

=============================================================================
