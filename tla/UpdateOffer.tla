---------------------------- MODULE UpdateOffer ----------------------------
(* From the daily question to an update ready to install: UpdateChecker    *)
(* (updates.py) and SelfUpdater (self_update.py), the settings they follow, *)
(* the files they share with the supervisor, and starts of new versions.   *)
(* Left out: the answer that a restored database brings with it.           *)
EXTENDS Integers, FiniteSets, FiniteSetsExt

CONSTANTS
    Tags,        \* releases, by version: 1..n
    Candidates,  \* those that are release candidates
    MaxChanges,  \* bound: settings changed, buttons pressed
    MaxSetbacks   \* bound: what goes wrong

None == 0

Channels == {"stable", "prerelease"}

VARIABLES
    published,  \* releases GitHub lists
    running,    \* the version installed and running
    checkOn, channel, quitWanted,  \* update_check, update_channel, update_install_on_quit
    result,     \* UpdateChecker.result
    next,       \* next_at: "now" or "later"
    stored,     \* the settings row of the result
    blocked,    \* blocked_until lies ahead
    asking,     \* the channel of the check in flight, "saving" once it is over and
                \* its rows are being written, or "no"
    failedNow,  \* the last check failed, and the day it waits for is not over
    at,         \* where SelfUpdater.run stands
    state, tag, retry, wake,       \* its fields of those names
    folders,     \* folders under updates/ that pass verify_staged
    onQuit, request, failed,       \* on-quit.json, install.json, failed.json
    setup,      \* an installer is at work on this release
    life,       \* the server: "up", "exiting" (77) or "down"
    changes, setbacks

github == <<published, running>>
settings == <<checkOn, channel, quitWanted>>
checker == <<result, next, stored, blocked, asking, failedNow>>
updater == <<at, state, tag, retry, wake>>
files == <<folders, onQuit, request, failed>>
counters == <<changes, setbacks>>
vars == <<github, settings, checker, updater, files, setup, life, counters>>

Init ==
    /\ published = {} /\ running = 0
    /\ checkOn = TRUE /\ channel = "stable" /\ quitWanted = TRUE
    /\ result = [channel |-> "none", tag |-> None]
    /\ next = "now" /\ stored = result /\ blocked = FALSE /\ asking = "no" /\ failedNow = FALSE
    /\ at = "load" /\ state = "idle" /\ tag = None /\ retry = FALSE /\ wake = FALSE
    /\ folders = {} /\ onQuit = None /\ request = None /\ failed = None
    /\ setup = None /\ life = "up"
    /\ changes = 0 /\ setbacks = 0

Mishap == setbacks < MaxSetbacks /\ setbacks' = setbacks + 1 /\ UNCHANGED changes
Change == changes < MaxChanges /\ changes' = changes + 1 /\ UNCHANGED setbacks

Highest(tags) == IF tags = {} THEN None ELSE Max(tags)

\* What GitHub answers: the latest release that is none, or the highest tag.
Answer(c) == Highest(IF c = "stable" THEN published \ Candidates ELSE published)

\* UpdateChecker.status and SelfUpdater._offered.
OfferedBy(on, c, r) ==
    IF on /\ r.channel = c /\ r.tag > running THEN r.tag ELSE None
Offered == OfferedBy(checkOn, channel, result)

\* sync_on_quit, as the fields stand after the step.
OnQuitFor(s, t, wanted, offered) ==
    IF s = "ready" /\ t = offered /\ wanted /\ t # None THEN t ELSE None

----------------------------------------------------------------------------
(* The check.                                                              *)

\* A channel of its own is another question: due at once.
Due ==
    /\ ~blocked
    /\ next = "now" \/ (result.channel # "none" /\ result.channel # channel)

\* run, or the button, which does not wait for the day.
Asks(byHand) ==
    /\ life = "up" /\ asking = "no" /\ ~blocked
    /\ byHand \/ (checkOn /\ Due)
    /\ byHand => Change
    /\ ~byHand => UNCHANGED counters
    /\ asking' = channel
    /\ UNCHANGED <<github, settings, result, next, stored, blocked, failedNow, updater, files,
                   setup, life>>

\* _check is over, one way or another; the lock is held on to.
CheckOver ==
    /\ asking' = "saving" /\ next' = "later"
    /\ UNCHANGED <<github, settings, stored, updater, files, setup, life>>

\* 200, 304 or "no stable release yet": the answer is to the question asked.
Answered ==
    /\ life = "up" /\ asking \in Channels
    /\ result' = [channel |-> asking, tag |-> Answer(asking)]
    /\ blocked' = FALSE /\ failedNow' = FALSE
    /\ CheckOver
    /\ UNCHANGED counters

\* 403 or 429.
RateLimited ==
    /\ life = "up" /\ asking \in Channels /\ Mishap
    /\ blocked' = TRUE
    /\ CheckOver
    /\ UNCHANGED <<result, failedNow>>

CheckFails ==
    /\ life = "up" /\ asking \in Channels /\ Mishap
    /\ failedNow' = TRUE
    /\ CheckOver
    /\ UNCHANGED <<result, blocked>>

\* _save, written or not, and on_answer, which wakes the updater.
CheckSaved ==
    /\ life = "up" /\ asking = "saving"
    /\ asking' = "no"
    /\ \/ stored' = result /\ UNCHANGED counters
       \/ UNCHANGED stored /\ Mishap
    /\ wake' = TRUE /\ retry' = TRUE
    /\ UNCHANGED <<github, settings, result, next, blocked, failedNow, at, state, tag, files,
                   setup, life>>

DayPasses ==
    /\ next = "later" \/ blocked
    /\ next' = "now" /\ blocked' = FALSE /\ failedNow' = FALSE
    /\ UNCHANGED <<github, settings, result, stored, asking, updater, files, setup, life,
                   counters>>

Publish(t) ==
    /\ t \notin published /\ \A s \in Tags : s < t => s \in published
    /\ published' = published \cup {t}
    /\ UNCHANGED <<running, settings, checker, updater, files, setup, life, counters>>

----------------------------------------------------------------------------
(* The settings: _apply_generic.                                           *)

\* Mutant of ChangeCheck: the updater is not woken.
ChangeCheckUnheard ==
    /\ life = "up" /\ Change
    /\ \/ checkOn' = ~checkOn /\ UNCHANGED channel
       \/ channel' \in Channels \ {channel} /\ UNCHANGED checkOn
    /\ failedNow' = FALSE
    /\ UNCHANGED <<github, quitWanted, result, next, stored, blocked, asking, updater, files,
                   setup, life>>

\* A new setting of the check wakes the updater as well.
ChangeCheck ==
    /\ life = "up" /\ Change
    /\ \/ checkOn' = ~checkOn /\ UNCHANGED channel
       \/ channel' \in Channels \ {channel} /\ UNCHANGED checkOn
    /\ wake' = TRUE /\ retry' = TRUE /\ failedNow' = FALSE
    /\ UNCHANGED <<github, quitWanted, result, next, stored, blocked, asking, at, state, tag,
                   files, setup, life>>

ChangeOnQuit ==
    /\ life = "up" /\ at # "load" /\ Change
    /\ quitWanted' = ~quitWanted
    /\ onQuit' = OnQuitFor(state, tag, ~quitWanted, Offered)
    /\ UNCHANGED <<github, checkOn, channel, checker, updater, folders, request, failed,
                   setup, life>>

----------------------------------------------------------------------------
(* The download: SelfUpdater.run.                                          *)

\* _load: the newest folder that still verifies, all others gone.
Load ==
    /\ life = "up" /\ at = "load"
    /\ LET best == Highest({t \in folders : t > running})
       IN /\ folders' = {t \in folders : t = best}
          /\ tag' = best
          /\ state' = IF best = None THEN "idle" ELSE IF failed = best THEN "failed" ELSE "ready"
          /\ failed' = IF best # None /\ failed = best THEN failed ELSE None
    /\ request' = None
    /\ at' = "look"
    /\ UNCHANGED <<github, settings, checker, retry, wake, onQuit, setup, life, counters>>

\* Mutant of Fetches: a failure is not looked at again.
FetchesOnce == Offered # None /\ (Offered # tag \/ state = "idle")

\* Try again.
UpdateDownload ==
    /\ life = "up" /\ Change
    /\ wake' = TRUE /\ retry' = TRUE
    /\ UNCHANGED <<github, settings, checker, at, state, tag, files, setup, life>>

\* Something new, or a failure looked at again; else on-quit.json is brought
\* into line and the loop waits.
Fetches ==
    Offered # None /\ (Offered # tag \/ state = "idle" \/ (state = "failed" /\ retry))

Look ==
    /\ life = "up" /\ at = "look"
    /\ wake' = FALSE
    /\ IF Fetches
       THEN /\ retry' = FALSE /\ tag' = Offered /\ state' = "downloading"
            /\ onQuit' = None /\ at' = "fetch"
       ELSE /\ onQuit' = OnQuitFor(state, tag, quitWanted, Offered) /\ at' = "wait"
            /\ UNCHANGED <<retry, tag, state>>
    /\ UNCHANGED <<github, settings, checker, folders, request, failed, setup, life, counters>>

\* Woken, or the hour is over (IDLE_S).
LookAgain ==
    /\ life = "up" /\ at = "wait"
    /\ at' = "look"
    /\ UNCHANGED <<github, settings, checker, state, tag, retry, wake, files, setup, life,
                   counters>>

\* fetch, with a folder that verifies taken as it is.
Fetched ==
    /\ life = "up" /\ at = "fetch"
    /\ state' = "ready" /\ at' = "look"
    /\ folders' = {tag} /\ failed' = None
    /\ onQuit' = OnQuitFor("ready", tag, quitWanted, Offered)
    /\ UNCHANGED <<github, settings, checker, tag, retry, wake, request, setup, life, counters>>

FetchFails ==
    /\ life = "up" /\ at = "fetch" /\ tag \notin folders /\ Mishap
    /\ state' = "failed" /\ at' = "look"
    /\ onQuit' = None
    /\ UNCHANGED <<github, settings, checker, tag, retry, wake, folders, request, failed,
                   setup, life>>

\* status: a failure the supervisor recorded while the server ran.
TakeFailure ==
    /\ life = "up" /\ at # "load"
    /\ state \in {"ready", "installing"} /\ failed = tag
    /\ state' = "failed" /\ onQuit' = None
    /\ UNCHANGED <<github, settings, checker, at, tag, retry, wake, folders, request, failed,
                   setup, life, counters>>

----------------------------------------------------------------------------
(* Installing.                                                             *)

\* Restart and update.
RequestInstall ==
    /\ life = "up" /\ at # "load" /\ state = "ready" /\ tag = Offered /\ failed # tag
    /\ Change
    /\ request' = tag /\ state' = "installing"
    /\ life' = "exiting"
    /\ UNCHANGED <<github, settings, checker, at, tag, retry, wake, folders, onQuit, failed,
                   setup>>

\* The server is gone, in the middle of a save it may be: the next one has
\* what is stored, and knows of no limit.  That the row of next_at was not
\* written is a day that passes.
ServerEnds ==
    /\ life' = "down"
    /\ asking' = "no" /\ blocked' = FALSE
    /\ stored' \in IF asking = "saving" THEN {stored, result} ELSE {stored}
    /\ result' = stored' /\ UNCHANGED next
    /\ at' = "load" /\ state' = "idle" /\ tag' = None /\ retry' = FALSE /\ wake' = FALSE

\* The supervisor takes the request, or Quit's file.
Down(installs) ==
    /\ ServerEnds
    /\ request' = None
    /\ setup' = IF installs = None THEN setup ELSE installs
    /\ UNCHANGED <<github, settings, failedNow, folders, onQuit, failed>>

Exits == life = "exiting" /\ Down(request) /\ UNCHANGED counters

Quits == life = "up" /\ setup = None /\ Change /\ Down(onQuit)

Dies == life \in {"up", "exiting"} /\ Mishap /\ Down(None)

\* verify_staged once more, against the running version; then the installer,
\* which stops the server if it has come back before it is done.
Installed ==
    /\ setup \in folders /\ setup > running
    /\ running' = setup /\ setup' = None
    /\ ServerEnds
    /\ UNCHANGED <<published, settings, failedNow, files, counters>>

InstallFails ==
    /\ setup # None
    /\ IF setup \in folders /\ setup > running THEN Mishap ELSE UNCHANGED counters
    /\ failed' = setup /\ setup' = None
    /\ UNCHANGED <<github, settings, checker, updater, folders, onQuit, request, life>>

Starts ==
    /\ life = "down"
    /\ life' = "up"
    /\ UNCHANGED <<github, settings, checker, updater, files, setup, counters>>

----------------------------------------------------------------------------
Checks == Asks(FALSE) \/ Answered \/ CheckSaved
Downloads == Load \/ Look \/ LookAgain \/ Fetched \/ TakeFailure
Handover == Exits \/ Starts
Setup == Installed \/ InstallFails

Next ==
    \/ Checks \/ Asks(TRUE) \/ RateLimited \/ CheckFails \/ DayPasses
    \/ Downloads \/ FetchFails \/ Handover \/ Setup
    \/ \E t \in Tags : Publish(t)
    \/ ChangeCheck \/ ChangeOnQuit \/ UpdateDownload
    \/ RequestInstall \/ Quits \/ Dies

Spec == Init /\ [][Next]_vars

\* Days pass, GitHub answers or the request times out, the loop runs, and the
\* supervisor starts what has ended.
Fairness ==
    /\ WF_vars(Checks) /\ WF_vars(Downloads) /\ WF_vars(Handover) /\ WF_vars(Setup)
    /\ WF_vars(DayPasses)

FairSpec == Spec /\ Fairness

----------------------------------------------------------------------------
\* While the loop rests and no answer is being saved, Quit installs what is
\* ready and still offered, if it should, and nothing else: whichever of the
\* check, the channel, the switch and the download came last (sync_on_quit and
\* its callers).  What on-quit.json names is there, whole and newer than what
\* runs, an answer on its way or not.
QuitInstallsTheOffer ==
    life = "up" /\ at # "load" =>
        /\ at = "wait" /\ ~wake /\ state # "installing" /\ asking # "saving" =>
              onQuit = OnQuitFor(state, tag, quitWanted, Offered)
        /\ at # "look" /\ onQuit # None => onQuit \in folders /\ onQuit > running

\* A release of the channel followed is, in the end, running or ready: through
\* failed checks and downloads, restarts, and channels changed under way.
GetsReady ==
    <>[](checkOn => \/ Answer(channel) <= running
                    \/ state = "ready" /\ tag = Answer(channel))

----------------------------------------------------------------------------
(* What the code's comments say and the code does not do; no run checks it. *)

\* "Keep on-quit.json naming the ready release, or remove it" (sync_on_quit):
\* while an answer is being saved a Quit still installs the release that the
\* answer has put out of date.
QuitNeverLate ==
    life = "up" /\ at = "wait" /\ ~wake /\ state # "installing" =>
        onQuit = OnQuitFor(state, tag, quitWanted, Offered)

\* "on any failure says nothing and tries again the next day" (updates.py): a
\* check that fails after the channel was changed is made again at once, and
\* again, as the old answer is still another channel's.
TriesTheNextDay == [][Asks(FALSE) => ~failedNow]_vars
=============================================================================
