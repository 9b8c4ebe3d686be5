------------------------------ MODULE Supervisor ------------------------------
(***************************************************************************)
(* The desktop app around the server: the supervisor thread that starts    *)
(* the server as a child and starts it again (supervisor.py), the quit     *)
(* that stops it from another thread (main.py), the child's control pipe   *)
(* and exit codes (serve.py), and the files through which an update is     *)
(* handed from the server to the app (self_update.py, selfupdate.py).      *)
(*                                                                         *)
(* Three threads of control: `sup` is where the supervisor thread stands,  *)
(* `quit` where the thread inside DesktopApp.quit does (_quit_once lets    *)
(* one in), `child` the newest child process.  At most one child is alive, *)
(* since the supervisor waits for one before it starts the next; `known`   *)
(* says whether Supervisor._proc is that child already, as Popen returns   *)
(* before the attribute is assigned.                                       *)
(*                                                                         *)
(* Time is left out: a timeout is a step that may happen where the code    *)
(* waits on something that may never come, or, as a disturbance, on        *)
(* something that is slow.                                                 *)
(***************************************************************************)
EXTENDS Integers

CONSTANTS
    GiveUpAfter,       \* crashes after which the supervisor gives up
    MissesBeforeKill,  \* unanswered polls after which it kills the child
    Kinds,             \* kinds of install, see AllKinds
    Faults,            \* what may go wrong, see AllFaults
    MaxEvents          \* bound: clicks, signals and faults together

\* An AppImage stands for macOS as well: both replace the app while it runs
\* and wait for it to exit.  A Windows Setup is a program of its own that
\* stops the app; for one user only, it can also be run on Quit.
AllKinds == {"appimage", "windows-setup", "windows-setup-user"}
AllFaults == {"crash", "wedge", "slow", "refuse", "install", "tray"}

ASSUME LimitsAssumption == GiveUpAfter \in Nat \ {0} /\ MissesBeforeKill \in Nat \ {0}
ASSUME KindsAssumption  == Kinds \subseteq AllKinds /\ Faults \subseteq AllFaults
ASSUME EventsAssumption == MaxEvents \in Nat

VARIABLES
    \* the supervisor thread
    sup,        \* where it stands in _run, _watch and on_update
    known,      \* _proc is the newest child
    misses,     \* polls in a row the child did not answer
    crashes,    \* _run's count
    phase,      \* State.phase
    \* the child
    child,      \* none, starting, serving, wedged, closing or ended
    code,       \* how it ended
    flags,      \* Control's restart, quit and update, and should_exit
    pipe,       \* the word on its way to Control, which reads one
    \* the app
    kind,       \* DesktopApp.install.kind
    quit,       \* where the thread in DesktopApp.quit stands
    userQuit,   \* user_quit
    stopping,   \* Supervisor._stopping
    lock,       \* who holds _install_lock
    updating,   \* _updating
    gone,       \* the process has ended
    \* the updates folder
    staged,     \* the downloaded release: ready, or failed (failed.json)
    request,    \* install.json is there
    onQuit,     \* on-quit.json is there
    installers, \* installers started: "relaunch", "onquit"
    events

thread == <<sup, known, misses, crashes, phase>>
server == <<child, code, flags, pipe>>
app    == <<kind, quit, userQuit, stopping, lock, updating, gone>>
files  == <<staged, request, onQuit, installers>>
vars   == <<thread, server, app, files, events>>

Alive == child \in {"starting", "serving", "wedged", "closing"}
Windows == kind # "appimage"

Happens == events < MaxEvents /\ events' = events + 1
Fault(f) == f \in Faults /\ Happens

Init ==
    /\ sup = "loop" /\ known = FALSE /\ misses = 0 /\ crashes = 0
    /\ phase = "starting"
    /\ child = "none" /\ code = "ok" /\ flags = {} /\ pipe = "empty"
    /\ kind \in Kinds
    /\ quit = "no" /\ userQuit = FALSE /\ stopping = FALSE
    /\ lock = "free" /\ updating = FALSE /\ gone = FALSE
    /\ staged = "ready" /\ request = FALSE /\ onQuit = FALSE /\ installers = {}
    /\ events = 0

-----------------------------------------------------------------------------
(* The child: serve.run.                                                   *)

\* What run returns: the flags in the order it looks at them.
ExitCode ==
    IF "update" \in flags THEN "update"
    ELSE IF "quit" \in flags THEN "quit"
    ELSE IF "restart" \in flags THEN "restart"
    ELSE "ok"

Ends(how) ==
    /\ child' = "ended" /\ code' = how
    /\ UNCHANGED <<flags, pipe>>

\* The lifespan is up.  SelfUpdater._load takes up what is staged and drops
\* install.json; its loop then keeps on-quit.json to match.
ChildUp ==
    /\ child = "starting"
    /\ child' = IF "exit" \in flags THEN "closing" ELSE "serving"
    /\ request' = FALSE
    /\ onQuit' = (staged = "ready" /\ kind # "windows-setup")
    /\ UNCHANGED <<code, flags, pipe, thread, app, staged, installers, events>>

\* The database is newer, or another server holds it: exit 3.
ChildRefuses ==
    /\ child = "starting" /\ Fault("refuse")
    /\ Ends("failed")
    /\ UNCHANGED <<thread, app, files>>

\* Mutant of ControlReads: Control does not take the end of the file for a
\* word.
ControlReadsWords ==
    /\ child \in {"starting", "serving", "wedged"} /\ "exit" \notin flags
    /\ pipe # "empty"
    /\ flags' = flags \cup {"exit"} \cup (IF pipe = "restart" THEN {"restart"} ELSE {})
    /\ UNCHANGED <<child, code, pipe, thread, app, files, events>>

\* Control._run: one word, or the end of the file when the app is gone.
ControlReads ==
    /\ child \in {"starting", "serving", "wedged"} /\ "exit" \notin flags
    /\ pipe # "empty" \/ gone
    /\ flags' = flags \cup {"exit"} \cup (IF pipe = "restart" THEN {"restart"} ELSE {})
    /\ UNCHANGED <<child, code, pipe, thread, app, files, events>>

\* uvicorn sees should_exit.
ChildCloses ==
    /\ child = "serving" /\ "exit" \in flags
    /\ child' = "closing"
    /\ UNCHANGED <<code, flags, pipe, thread, app, files, events>>

\* The teardown is done.
ChildEnds ==
    /\ child = "closing"
    /\ Ends(ExitCode)
    /\ UNCHANGED <<thread, app, files, events>>

ChildCrashes ==
    /\ Alive /\ Fault("crash")
    /\ Ends("crash")
    /\ UNCHANGED <<thread, app, files>>

\* The event loop stands still: nothing is answered and nothing ends.
ChildWedges ==
    /\ child \in {"starting", "serving"} /\ Fault("wedge")
    /\ child' = "wedged"
    /\ UNCHANGED <<code, flags, pipe, thread, app, files>>

\* POST /api/admin/quit.
QuitClicked ==
    /\ child = "serving" /\ "quit" \notin flags /\ Happens
    /\ flags' = flags \cup {"quit", "exit"}
    /\ UNCHANGED <<child, code, pipe, thread, app, files>>

\* POST /api/admin/update-install: the request file, and UPDATE a moment
\* later.
UpdateClicked ==
    /\ child = "serving" /\ staged = "ready" /\ ~request /\ Happens
    /\ request' = TRUE
    /\ UNCHANGED <<thread, server, app, staged, onQuit, installers>>

UpdateExits ==
    /\ child = "serving" /\ request /\ "update" \notin flags
    /\ flags' = flags \cup {"update", "exit"}
    /\ UNCHANGED <<child, code, pipe, thread, app, files, events>>

\* SelfUpdater._take_failure: an install that failed while this server runs.
FailureSeen ==
    /\ child = "serving" /\ staged = "failed" /\ onQuit
    /\ onQuit' = FALSE
    /\ UNCHANGED <<thread, server, app, staged, request, installers, events>>

-----------------------------------------------------------------------------
(* The supervisor thread: _run, _spawn, _watch.                            *)

Loops ==
    /\ sup = "loop" /\ ~gone
    /\ sup' = IF stopping THEN "done" ELSE "spawning"
    /\ phase' = IF stopping THEN phase
                ELSE IF child = "none" THEN "starting" ELSE "restarting"
    /\ UNCHANGED <<known, misses, crashes, server, app, files, events>>

Spawns ==
    /\ sup = "spawning" /\ ~gone
    /\ sup' = "spawned" /\ known' = FALSE
    /\ child' = "starting" /\ flags' = {} /\ pipe' = "empty"
    /\ UNCHANGED <<code, misses, crashes, phase, app, files, events>>

ProcKept ==
    /\ sup = "spawned" /\ ~gone
    /\ sup' = "starting" /\ known' = TRUE
    /\ UNCHANGED <<misses, crashes, phase, server, app, files, events>>

HealthAnswers ==
    /\ sup = "starting" /\ child = "serving" /\ ~gone
    /\ sup' = "watching" /\ phase' = "running" /\ misses' = 0
    /\ UNCHANGED <<known, crashes, server, app, files, events>>

\* READY_TIMEOUT: the child is killed.
NotReady ==
    /\ sup = "starting" /\ ~gone
    /\ \/ child = "wedged" /\ UNCHANGED events
       \/ child = "starting" /\ Fault("slow")
    /\ sup' = "ended" /\ Ends("crash")
    /\ UNCHANGED <<known, misses, crashes, phase, app, files>>

EndSeen ==
    /\ sup \in {"starting", "watching", "awaiting"} /\ child = "ended" /\ ~gone
    /\ sup' = "ended"
    /\ UNCHANGED <<known, misses, crashes, phase, server, app, files, events>>

PollAnswered ==
    /\ sup = "watching" /\ child = "serving" /\ ~stopping /\ ~gone
    /\ misses' = 0
    /\ UNCHANGED <<sup, known, crashes, phase, server, app, files, events>>

\* The listening socket is the app's too, so a poll of a server that is
\* closing is not refused, it is not answered.
PollMissed ==
    /\ sup = "watching" /\ ~stopping /\ ~gone
    /\ \/ child = "wedged" /\ UNCHANGED events
       \/ child = "closing" /\ Fault("slow")
    /\ misses' = IF misses < MissesBeforeKill THEN misses + 1 ELSE misses
    /\ IF misses + 1 >= MissesBeforeKill THEN Ends("crash") ELSE UNCHANGED server
    /\ UNCHANGED <<sup, known, crashes, phase, app, files>>

StopSeen ==
    /\ sup = "watching" /\ stopping /\ child # "ended" /\ ~gone
    /\ sup' = "awaiting"
    /\ UNCHANGED <<known, misses, crashes, phase, server, app, files, events>>

\* What the exit code means.
Breaks ==
    /\ sup = "ended" /\ stopping /\ ~gone
    /\ sup' = "done"
    /\ UNCHANGED <<known, misses, crashes, phase, server, app, files, events>>

Restarts ==
    /\ sup = "ended" /\ ~stopping /\ code = "restart" /\ ~gone
    /\ sup' = "loop" /\ crashes' = 0
    /\ UNCHANGED <<known, misses, phase, server, app, files, events>>

\* on_quit: user_quit, and the tray is asked to quit.
QuitsApp ==
    /\ sup = "ended" /\ ~stopping /\ code = "quit" /\ ~gone
    /\ sup' = "done" /\ phase' = "stopped"
    /\ userQuit' = TRUE
    /\ quit' = IF quit = "no" THEN "asked" ELSE quit
    /\ UNCHANGED <<known, misses, crashes, server, kind, stopping, lock, updating, gone,
                   files, events>>

StartFailed ==
    /\ sup = "ended" /\ ~stopping /\ code = "failed" /\ ~gone
    /\ sup' = "done" /\ phase' = "failed"
    /\ UNCHANGED <<known, misses, crashes, server, app, files, events>>

\* A clean exit nobody asked for counts as a crash, too.
Crashed ==
    /\ sup = "ended" /\ ~stopping /\ code \in {"crash", "ok"} /\ ~gone
    /\ crashes' = crashes + 1
    /\ IF crashes' >= GiveUpAfter
       THEN sup' = "done" /\ phase' = "failed"
       ELSE sup' = "backoff" /\ UNCHANGED phase
    /\ UNCHANGED <<known, misses, server, app, files, events>>

BackedOff ==
    /\ sup = "backoff" /\ ~gone
    /\ sup' = IF stopping THEN "done" ELSE "loop"
    /\ UNCHANGED <<known, misses, crashes, phase, server, app, files, events>>

-----------------------------------------------------------------------------
(* Restart and update, on the supervisor thread: _update_requested.        *)

Again == sup' = "loop" /\ crashes' = 0 /\ UNCHANGED <<known, misses, phase>>

\* take_request removes the file; with none there is nothing to install.
TakesRequest ==
    /\ sup = "ended" /\ ~stopping /\ code = "update" /\ ~gone
    /\ phase' = "updating"
    /\ sup' = IF request THEN "locking" ELSE "loop"
    /\ crashes' = IF request THEN crashes ELSE 0
    /\ request' = FALSE
    /\ UNCHANGED <<known, misses, server, app, staged, onQuit, installers, events>>

\* Mutant of LocksInstall: a quit under way is not looked for.
LocksInstallAnyway ==
    /\ sup = "locking" /\ lock = "free" /\ ~gone
    /\ lock' = "supervisor" /\ updating' = TRUE /\ sup' = "installing"
    /\ UNCHANGED <<known, misses, crashes, phase, server, kind, quit, userQuit, stopping,
                   gone, files, events>>

\* A quit that has begun is left to install what it may.
LocksInstall ==
    /\ sup = "locking" /\ lock = "free" /\ ~gone
    /\ IF quit \notin {"no", "asked"}
       THEN Again /\ UNCHANGED <<lock, updating>>
       ELSE /\ lock' = "supervisor" /\ updating' = TRUE /\ sup' = "installing"
            /\ UNCHANGED <<known, misses, crashes, phase>>
    /\ UNCHANGED <<server, kind, quit, userQuit, stopping, gone, files, events>>

\* Mutant of Installed: _updating is cleared whatever was installed.
InstalledForgets ==
    /\ sup = "installing" /\ ~gone
    /\ lock' = "free" /\ updating' = FALSE
    /\ installers' = installers \cup {"relaunch"}
    /\ sup' = "done" /\ phase' = "stopped"
    /\ quit' = IF quit = "no" THEN "asked" ELSE quit
    /\ UNCHANGED <<known, misses, crashes, server, kind, userQuit, stopping, gone,
                   staged, request, onQuit, events>>

\* The app is replaced and has to exit for it, or a Setup runs that will
\* stop it.
Installed ==
    /\ sup = "installing" /\ ~gone
    /\ lock' = "free"
    /\ installers' = installers \cup {"relaunch"}
    /\ updating' = ~Windows
    /\ IF Windows THEN Again /\ UNCHANGED quit
       ELSE /\ sup' = "done" /\ phase' = "stopped"
            /\ quit' = IF quit = "no" THEN "asked" ELSE quit
            /\ UNCHANGED <<known, misses, crashes>>
    /\ UNCHANGED <<server, kind, userQuit, stopping, gone, staged, request, onQuit, events>>

InstallFailed ==
    /\ sup = "installing" /\ ~gone /\ Fault("install")
    /\ lock' = "free" /\ updating' = FALSE /\ staged' = "failed"
    /\ Again
    /\ UNCHANGED <<server, kind, quit, userQuit, stopping, gone, request, onQuit, installers>>

\* The Setup that runs beside the app stops it, or ends without.
SetupStops ==
    /\ Windows /\ "relaunch" \in installers /\ staged = "ready" /\ quit = "no" /\ ~gone
    /\ quit' = "asked"
    /\ UNCHANGED <<kind, userQuit, stopping, lock, updating, gone, thread, server, files, events>>

SetupFails ==
    /\ Windows /\ "relaunch" \in installers /\ staged = "ready" /\ quit = "no" /\ ~gone
    /\ Fault("install")
    /\ staged' = "failed" /\ installers' = installers \ {"relaunch"}
    /\ UNCHANGED <<request, onQuit, thread, server, app>>

-----------------------------------------------------------------------------
(* The tray and the quit: DesktopApp.quit and Supervisor.stop.             *)

\* The tray's Quit.
UserQuits ==
    /\ ~userQuit /\ quit # "done" /\ ~gone /\ Happens
    /\ userQuit' = TRUE
    /\ quit' = IF quit = "no" THEN "asked" ELSE quit
    /\ UNCHANGED <<kind, stopping, lock, updating, gone, thread, server, files>>

\* A signal, --quit, WM_CLOSE, a sign-out.
Signalled ==
    /\ quit = "no" /\ ~gone /\ Happens
    /\ quit' = "asked"
    /\ UNCHANGED <<kind, userQuit, stopping, lock, updating, gone, thread, server, files>>

\* Supervisor.restart: a word down the pipe of the child _proc names.
RestartAsked ==
    /\ known /\ Alive /\ ~gone /\ pipe = "empty" /\ Happens
    /\ pipe' = "restart"
    /\ UNCHANGED <<child, code, flags, thread, app, files>>

Quits(from, to) == quit = from /\ quit' = to /\ ~gone

\* _quit_once, before anything else.
TakesQuitOnce ==
    /\ Quits("asked", "once")
    /\ UNCHANGED <<kind, userQuit, stopping, lock, updating, gone, thread, server, files, events>>

SetsStopping ==
    /\ Quits("once", "told")
    /\ stopping' = TRUE
    /\ UNCHANGED <<kind, userQuit, lock, updating, gone, thread, server, files, events>>

\* stop reads _proc: a child it does not know, it does not tell.
TellsChild ==
    /\ quit = "told" /\ known /\ Alive
    /\ Quits("told", "waiting")
    /\ pipe' = IF pipe = "empty" THEN "stop" ELSE pipe
    /\ UNCHANGED <<child, code, flags, kind, userQuit, stopping, lock, updating, gone,
                   thread, files, events>>

NobodyToTell ==
    /\ ~(known /\ Alive)
    /\ Quits("told", "joining")
    /\ UNCHANGED <<kind, userQuit, stopping, lock, updating, gone, thread, server, files, events>>

ChildStopped ==
    /\ child = "ended"
    /\ Quits("waiting", "joining")
    /\ UNCHANGED <<kind, userQuit, stopping, lock, updating, gone, thread, server, files, events>>

\* STOP_TIMEOUT: the child is killed.
ChildKilled ==
    /\ \/ child = "wedged" /\ UNCHANGED events
       \/ child \in {"starting", "serving", "closing"} /\ Fault("slow")
    /\ Quits("waiting", "joining")
    /\ Ends("crash")
    /\ UNCHANGED <<kind, userQuit, stopping, lock, updating, gone, thread, files>>

\* join(5): the thread is done, or held up by a child or an install.
Joined ==
    /\ sup \in {"done", "starting", "awaiting", "installing", "locking"}
    /\ Quits("joining", "stopped")
    /\ phase' = "stopped"
    /\ UNCHANGED <<sup, known, misses, crashes, server, kind, userQuit, stopping, lock,
                   updating, gone, files, events>>

\* Mutant of QuitInstalls: the install lock is not waited for.
QuitInstallsAtOnce ==
    /\ Quits("stopped", "done")
    /\ IF userQuit /\ ~updating /\ onQuit
       THEN installers' = installers \cup {"onquit"} ELSE UNCHANGED installers
    /\ UNCHANGED <<kind, userQuit, stopping, lock, updating, gone, staged, request, onQuit,
                   thread, server, events>>

\* Under the install lock: an update that is ready is installed, if it was
\* the user who quit and nothing was installed already.  One that fails is
\* recorded.  Then the instance lock is let go of.
QuitInstalls ==
    /\ lock = "free"
    /\ Quits("stopped", "done")
    /\ IF userQuit /\ ~updating /\ onQuit
       THEN \/ installers' = installers \cup {"onquit"} /\ UNCHANGED <<staged, events>>
            \/ Fault("install") /\ staged' = "failed" /\ UNCHANGED installers
       ELSE UNCHANGED <<installers, staged, events>>
    /\ UNCHANGED <<kind, userQuit, stopping, lock, updating, gone, request, onQuit, thread, server>>

\* The process ends; on Windows the job object takes the child with it.
Exits ==
    /\ ~gone /\ gone' = TRUE
    /\ IF Windows /\ Alive THEN Ends("crash") ELSE UNCHANGED server
    /\ UNCHANGED <<kind, quit, userQuit, stopping, lock, updating, thread, files>>

AppEnds    == quit = "done" /\ Exits /\ UNCHANGED events
AppCrashes == Fault("tray") /\ Exits

-----------------------------------------------------------------------------
ThreadActs ==
    \/ Loops \/ Spawns \/ ProcKept \/ HealthAnswers \/ NotReady \/ EndSeen
    \/ PollAnswered \/ PollMissed \/ StopSeen \/ Breaks \/ Restarts \/ QuitsApp
    \/ StartFailed \/ Crashed \/ BackedOff
    \/ TakesRequest \/ LocksInstall \/ Installed \/ InstallFailed

QuitActs ==
    \/ TakesQuitOnce \/ SetsStopping \/ TellsChild \/ NobodyToTell \/ ChildStopped
    \/ ChildKilled \/ Joined \/ QuitInstalls \/ AppEnds

ChildActs == ChildUp \/ ControlReads \/ ChildCloses \/ ChildEnds \/ UpdateExits \/ FailureSeen

Disturbed ==
    \/ ChildRefuses \/ ChildCrashes \/ ChildWedges \/ QuitClicked \/ UpdateClicked
    \/ SetupStops \/ SetupFails \/ UserQuits \/ Signalled \/ RestartAsked \/ AppCrashes

Next == ThreadActs \/ QuitActs \/ ChildActs \/ Disturbed

\* Threads are scheduled, a process that is not wedged gets on, and a
\* timeout runs out.  Nothing says that anybody clicks or that anything
\* fails: the steps that count as events are owed to nobody.
Fairness ==
    /\ WF_vars(ThreadActs /\ UNCHANGED events) /\ WF_vars(QuitActs /\ UNCHANGED events)
    /\ WF_vars(ChildUp) /\ WF_vars(ControlReads) /\ WF_vars(ChildCloses)
    /\ WF_vars(ChildEnds) /\ WF_vars(UpdateExits)

Spec == Init /\ [][Next]_vars /\ Fairness

-----------------------------------------------------------------------------
(* Properties.                                                             *)

ThreadOK ==
    /\ sup \in {"loop", "spawning", "spawned", "starting", "watching", "awaiting", "ended",
                "backoff", "locking", "installing", "done"}
    /\ known \in BOOLEAN
    /\ misses \in 0..MissesBeforeKill
    /\ crashes \in 0..GiveUpAfter
    /\ phase \in {"starting", "running", "restarting", "updating", "failed", "stopped"}

ServerOK ==
    /\ child \in {"none", "starting", "serving", "wedged", "closing", "ended"}
    /\ code \in {"ok", "failed", "restart", "quit", "update", "crash"}
    /\ flags \subseteq {"exit", "restart", "quit", "update"}
    /\ pipe \in {"empty", "stop", "restart"}

AppOK ==
    /\ kind \in AllKinds
    /\ quit \in {"no", "asked", "once", "told", "waiting", "joining", "stopped", "done"}
    /\ userQuit \in BOOLEAN
    /\ stopping \in BOOLEAN
    /\ lock \in {"free", "supervisor"}
    /\ updating \in BOOLEAN
    /\ gone \in BOOLEAN

FilesOK ==
    /\ staged \in {"ready", "failed"}
    /\ request \in BOOLEAN
    /\ onQuit \in BOOLEAN
    /\ installers \subseteq {"relaunch", "onquit"}
    /\ events \in 0..MaxEvents

\* The shape of the state; the thread never counts more crashes or misses
\* than make it act.
TypeOK == ThreadOK /\ ServerOK /\ AppOK /\ FilesOK

\* The app lets go of its lock, and exits, only once no install is half-way
\* (main.py: "a quit waits for an install already under way"), although the
\* stop before it gives up waiting for the thread that installs.
QuitWaitsForInstall == quit = "done" => sup # "installing"

\* A release is installed by Restart and update or by Quit, never by both
\* (main.py: "the two must never work on the same staged release at once").
\* Where a Setup for one user runs beside the app and Quit may run one too,
\* this is not so: the README says how the two meet.
OneInstaller == kind # "windows-setup-user" => ~({"relaunch", "onquit"} \subseteq installers)

\* Once the instance lock is let go of, another copy of the app may start:
\* the supervisor thread, if it is still about, starts no child and no
\* installer then.
NothingStartedAfter ==
    [][quit = "done" => (child' = "starting" => child = "starting") /\ installers' = installers]_vars

\* A quit ends the process, whatever the child does and whatever is being
\* installed, and a child that outlives the app notices: it ends, unless it is
\* wedged. Once nothing disturbs it any more an app that was not quit serves,
\* or has given up and says so; a wedged server is not left in place.
QuitEnds ==
    /\ quit = "asked" ~> gone
    /\ gone ~> child \in {"none", "ended", "wedged"}
    /\ <>[](gone \/ phase = "failed" \/ (child = "serving" /\ sup = "watching"))

=============================================================================
