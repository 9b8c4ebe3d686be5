-------------------------- MODULE SupervisorProofs --------------------------
(* Theorems about Supervisor, for every number of crashes before it gives  *)
(* up, of polls before it kills, of kinds of install and of disturbances.  *)
EXTENDS Supervisor, TLAPS

\* The thread has given up when it has counted GiveUpAfter crashes.
Bounded == crashes = GiveUpAfter => sup = "done"

\* The install lock is held while the thread installs, and not otherwise.
LockHeld == (sup = "installing") <=> (lock = "supervisor")

\* From Supervisor.stop on, _stopping is set.
Told == quit \in {"told", "waiting", "joining", "stopped", "done"} => stopping

\* Once the join has been waited for, the thread can only end: it is not
\* about to spawn.
WoundDown ==
    quit \in {"stopped", "done"} =>
        sup \in {"loop", "starting", "watching", "awaiting", "ended", "locking", "installing",
                 "done"}

\* Why the two ways to install do not meet: a Quit installs last of all, a
\* Setup for all users is never left to Quit, and an app that was replaced
\* remembers it.
NotBoth ==
    /\ "onquit" \in installers => quit = "done"
    /\ kind = "windows-setup" => ~onQuit /\ "onquit" \notin installers
    /\ kind = "appimage" /\ "relaunch" \in installers => updating /\ sup = "done"

IInv ==
    /\ TypeOK /\ Bounded /\ LockHeld /\ QuitWaitsForInstall /\ Told /\ WoundDown
    /\ OneInstaller /\ NotBoth

LEMMA InitHolds == Init => IInv
<1> SUFFICES ASSUME Init PROVE IInv
    OBVIOUS
<1>1. ThreadOK
  <2>1. 0 \in 0..MissesBeforeKill /\ 0 \in 0..GiveUpAfter BY LimitsAssumption
  <2> QED BY <2>1, Zenon DEF Init, ThreadOK
<1>2. ServerOK BY DEF Init, ServerOK
<1>3. AppOK BY KindsAssumption DEF Init, AppOK
<1>4. FilesOK
  <2>1. 0 \in 0..MaxEvents BY EventsAssumption
  <2> QED BY <2>1, Zenon DEF Init, FilesOK
<1>5. Bounded BY LimitsAssumption DEF Init, Bounded
<1>6. LockHeld BY DEF Init, LockHeld
<1>7. QuitWaitsForInstall /\ Told /\ WoundDown
  BY DEF Init, QuitWaitsForInstall, Told, WoundDown
<1>8. OneInstaller /\ NotBoth BY DEF Init, OneInstaller, NotBoth
<1> QED BY <1>1, <1>2, <1>3, <1>4, <1>5, <1>6, <1>7, <1>8 DEF IInv, TypeOK

\* What a step of the supervisor thread leaves true.
LEMMA ThreadActsKeep ==
    IInv /\ ThreadActs => IInv'
<1> SUFFICES ASSUME IInv, ThreadActs PROVE IInv'
    OBVIOUS
<1> USE LimitsAssumption, KindsAssumption, EventsAssumption DEF IInv, TypeOK, ThreadOK, ServerOK, AppOK, FilesOK, Bounded, LockHeld,
        QuitWaitsForInstall, Told, WoundDown, OneInstaller, NotBoth
<1>1. CASE Loops
  BY <1>1 DEF Loops, server, app, files, thread
<1>2. CASE Spawns
  <2>1. ThreadOK' BY <1>2 DEF Spawns, app, files, thread, server
  <2>2. ServerOK' BY <1>2 DEF Spawns, app, files, thread, server
  <2>3. AppOK' BY <1>2 DEF Spawns, app, files, thread, server
  <2>4. FilesOK' BY <1>2 DEF Spawns, app, files, thread, server
  <2>5. Bounded' BY <1>2 DEF Spawns, app, files, thread, server
  <2>6. LockHeld' BY <1>2 DEF Spawns, app, files, thread, server
  <2>7. QuitWaitsForInstall' BY <1>2 DEF Spawns, app, files, thread, server
  <2>8. Told' BY <1>2 DEF Spawns, app, files, thread, server
  <2>9. WoundDown' BY <1>2 DEF Spawns, app, files, thread, server
  <2>10. OneInstaller' BY <1>2 DEF Spawns, app, files, thread, server
  <2>11. NotBoth' BY <1>2 DEF Spawns, app, files, thread, server
  <2> QED BY <2>1, <2>2, <2>3, <2>4, <2>5, <2>6, <2>7, <2>8, <2>9, <2>10, <2>11 DEF TypeOK
<1>3. CASE ProcKept
  BY <1>3 DEF ProcKept, server, app, files, thread
<1>4. CASE HealthAnswers
  BY <1>4 DEF HealthAnswers, server, app, files, thread
<1>5. CASE NotReady
  BY <1>5 DEF NotReady, Fault, Ends, app, files, Happens, thread, server
<1>6. CASE EndSeen
  BY <1>6 DEF EndSeen, server, app, files, thread
<1>7. CASE PollAnswered
  BY <1>7 DEF PollAnswered, server, app, files, thread
<1>8. CASE PollMissed
  <2>1. ThreadOK' BY <1>8 DEF PollMissed, Fault, Ends, server, app, files, Happens, thread
  <2>2. ServerOK' BY <1>8 DEF PollMissed, Fault, Ends, server, app, files, Happens, thread
  <2>3. AppOK' BY <1>8 DEF PollMissed, Fault, Ends, server, app, files, Happens, thread
  <2>4. FilesOK' BY <1>8 DEF PollMissed, Fault, Ends, server, app, files, Happens, thread
  <2>5. Bounded' BY <1>8 DEF PollMissed, Fault, Ends, server, app, files, Happens, thread
  <2>6. LockHeld' BY <1>8 DEF PollMissed, Fault, Ends, server, app, files, Happens, thread
  <2>7. QuitWaitsForInstall' BY <1>8 DEF PollMissed, Fault, Ends, server, app, files, Happens, thread
  <2>8. Told' BY <1>8 DEF PollMissed, Fault, Ends, server, app, files, Happens, thread
  <2>9. WoundDown' BY <1>8 DEF PollMissed, Fault, Ends, server, app, files, Happens, thread
  <2>10. OneInstaller' BY <1>8 DEF PollMissed, Fault, Ends, server, app, files, Happens, thread
  <2>11. NotBoth' BY <1>8 DEF PollMissed, Fault, Ends, server, app, files, Happens, thread
  <2> QED BY <2>1, <2>2, <2>3, <2>4, <2>5, <2>6, <2>7, <2>8, <2>9, <2>10, <2>11 DEF TypeOK
<1>9. CASE StopSeen
  BY <1>9 DEF StopSeen, server, app, files, thread
<1>10. CASE Breaks
  BY <1>10 DEF Breaks, server, app, files, thread
<1>11. CASE Restarts
  BY <1>11 DEF Restarts, server, app, files, thread
<1>12. CASE QuitsApp
  BY <1>12 DEF QuitsApp, server, files, thread, app
<1>13. CASE StartFailed
  BY <1>13 DEF StartFailed, server, app, files, thread
<1>14. CASE Crashed
  BY <1>14 DEF Crashed, server, app, files, thread
<1>15. CASE BackedOff
  BY <1>15 DEF BackedOff, server, app, files, thread
<1>16. CASE TakesRequest
  <2>1. ThreadOK' BY <1>16 DEF TakesRequest, server, app, thread, files
  <2>2. ServerOK' BY <1>16 DEF TakesRequest, server, app, thread, files
  <2>3. AppOK' BY <1>16 DEF TakesRequest, server, app, thread, files
  <2>4. FilesOK' BY <1>16 DEF TakesRequest, server, app, thread, files
  <2>5. Bounded' BY <1>16 DEF TakesRequest, server, app, thread, files
  <2>6. LockHeld' BY <1>16 DEF TakesRequest, server, app, thread, files
  <2>7. QuitWaitsForInstall' BY <1>16 DEF TakesRequest, server, app, thread, files
  <2>8. Told' BY <1>16 DEF TakesRequest, server, app, thread, files
  <2>9. WoundDown' BY <1>16 DEF TakesRequest, server, app, thread, files
  <2>10. OneInstaller' BY <1>16 DEF TakesRequest, server, app, thread, files
  <2>11. NotBoth' BY <1>16 DEF TakesRequest, server, app, thread, files
  <2> QED BY <2>1, <2>2, <2>3, <2>4, <2>5, <2>6, <2>7, <2>8, <2>9, <2>10, <2>11 DEF TypeOK
<1>17. CASE LocksInstall
  <2>1. ThreadOK' BY <1>17 DEF LocksInstall, Again, server, files, thread, app
  <2>2. ServerOK' BY <1>17 DEF LocksInstall, Again, server, files, thread, app
  <2>3. AppOK' BY <1>17 DEF LocksInstall, Again, server, files, thread, app
  <2>4. FilesOK' BY <1>17 DEF LocksInstall, Again, server, files, thread, app
  <2>5. Bounded' BY <1>17 DEF LocksInstall, Again, server, files, thread, app
  <2>6. LockHeld' BY <1>17 DEF LocksInstall, Again, server, files, thread, app
  <2>7. QuitWaitsForInstall' BY <1>17 DEF LocksInstall, Again, server, files, thread, app
  <2>8. Told' BY <1>17 DEF LocksInstall, Again, server, files, thread, app
  <2>9. WoundDown' BY <1>17 DEF LocksInstall, Again, server, files, thread, app
  <2>10. OneInstaller' BY <1>17 DEF LocksInstall, Again, server, files, thread, app
  <2>11. NotBoth' BY <1>17 DEF LocksInstall, Again, server, files, thread, app
  <2> QED BY <2>1, <2>2, <2>3, <2>4, <2>5, <2>6, <2>7, <2>8, <2>9, <2>10, <2>11 DEF TypeOK
<1>18. CASE Installed
  <2>1. ThreadOK' BY <1>18 DEF Installed, Windows, Again, server, thread, app, files
  <2>2. ServerOK' BY <1>18 DEF Installed, Windows, Again, server, thread, app, files
  <2>3. AppOK' BY <1>18 DEF Installed, Windows, Again, server, thread, app, files
  <2>4. FilesOK' BY <1>18 DEF Installed, Windows, Again, server, thread, app, files
  <2>5. Bounded' BY <1>18 DEF Installed, Windows, Again, server, thread, app, files
  <2>6. LockHeld' BY <1>18 DEF Installed, Windows, Again, server, thread, app, files
  <2>7. QuitWaitsForInstall' BY <1>18 DEF Installed, Windows, Again, server, thread, app, files
  <2>8. Told' BY <1>18 DEF Installed, Windows, Again, server, thread, app, files
  <2>9. WoundDown' BY <1>18 DEF Installed, Windows, Again, server, thread, app, files
  <2>10. OneInstaller' BY <1>18 DEF Installed, Windows, Again, server, thread, app, files
  <2>11. NotBoth' BY <1>18 DEF Installed, Windows, Again, server, thread, app, files
  <2> QED BY <2>1, <2>2, <2>3, <2>4, <2>5, <2>6, <2>7, <2>8, <2>9, <2>10, <2>11 DEF TypeOK
<1>19. CASE InstallFailed
  <2>1. ThreadOK' BY <1>19 DEF InstallFailed, Fault, Again, server, Happens, thread, app, files
  <2>2. ServerOK' BY <1>19 DEF InstallFailed, Fault, Again, server, Happens, thread, app, files
  <2>3. AppOK' BY <1>19 DEF InstallFailed, Fault, Again, server, Happens, thread, app, files
  <2>4. FilesOK' BY <1>19 DEF InstallFailed, Fault, Again, server, Happens, thread, app, files
  <2>5. Bounded' BY <1>19 DEF InstallFailed, Fault, Again, server, Happens, thread, app, files
  <2>6. LockHeld' BY <1>19 DEF InstallFailed, Fault, Again, server, Happens, thread, app, files
  <2>7. QuitWaitsForInstall' BY <1>19 DEF InstallFailed, Fault, Again, server, Happens, thread, app, files
  <2>8. Told' BY <1>19 DEF InstallFailed, Fault, Again, server, Happens, thread, app, files
  <2>9. WoundDown' BY <1>19 DEF InstallFailed, Fault, Again, server, Happens, thread, app, files
  <2>10. OneInstaller' BY <1>19 DEF InstallFailed, Fault, Again, server, Happens, thread, app, files
  <2>11. NotBoth' BY <1>19 DEF InstallFailed, Fault, Again, server, Happens, thread, app, files
  <2> QED BY <2>1, <2>2, <2>3, <2>4, <2>5, <2>6, <2>7, <2>8, <2>9, <2>10, <2>11 DEF TypeOK
<1> QED BY <1>1, <1>2, <1>3, <1>4, <1>5, <1>6, <1>7, <1>8, <1>9, <1>10, <1>11, <1>12, <1>13, <1>14, <1>15, <1>16, <1>17, <1>18, <1>19 DEF ThreadActs

\* What a step of the thread in DesktopApp.quit leaves true.
LEMMA QuitActsKeep ==
    IInv /\ QuitActs => IInv'
<1> SUFFICES ASSUME IInv, QuitActs PROVE IInv'
    OBVIOUS
<1> USE LimitsAssumption, KindsAssumption, EventsAssumption DEF IInv, TypeOK, ThreadOK, ServerOK, AppOK, FilesOK, Bounded, LockHeld,
        QuitWaitsForInstall, Told, WoundDown, OneInstaller, NotBoth
<1>1. CASE TakesQuitOnce
  BY <1>1 DEF TakesQuitOnce, Quits, thread, server, files, app
<1>2. CASE SetsStopping
  BY <1>2 DEF SetsStopping, Quits, thread, server, files, app
<1>3. CASE TellsChild
  BY <1>3 DEF TellsChild, Alive, Quits, thread, files, server, app
<1>4. CASE NobodyToTell
  BY <1>4 DEF NobodyToTell, Alive, Quits, thread, server, files, app
<1>5. CASE ChildStopped
  BY <1>5 DEF ChildStopped, Quits, thread, server, files, app
<1>6. CASE ChildKilled
  BY <1>6 DEF ChildKilled, Fault, Ends, Quits, thread, files, Happens, server, app
<1>7. CASE Joined
  BY <1>7 DEF Joined, Quits, server, files, thread, app
<1>8. CASE QuitInstalls
  <2>1. /\ installers' \in {installers, installers \cup {"onquit"}}
        /\ staged' \in {staged, "failed"}
        /\ events' \in 0..MaxEvents
        /\ request' = request /\ onQuit' = onQuit
    BY <1>8 DEF QuitInstalls, Fault, Quits, Happens, thread, server
  <2>2. /\ "onquit" \notin installers
        /\ installers' = installers \/ (onQuit /\ ~updating)
    BY <1>8 DEF QuitInstalls, Fault, Quits, Happens, thread, server
  <2>3. quit' = "done" /\ kind' = kind /\ updating' = updating /\ sup' = sup BY <1>8 DEF QuitInstalls, Fault, Quits, Happens, thread, server
  <2>4. ThreadOK' BY <1>8 DEF QuitInstalls, Fault, Quits, thread, server, Happens, app, files
  <2>5. ServerOK' BY <1>8 DEF QuitInstalls, Fault, Quits, thread, server, Happens, app, files
  <2>6. AppOK' BY <1>8 DEF QuitInstalls, Fault, Quits, thread, server, Happens, app, files
  <2>7. FilesOK' BY <2>1
  <2>8. Bounded' BY <1>8 DEF QuitInstalls, Fault, Quits, thread, server, Happens, app, files
  <2>9. LockHeld' BY <1>8 DEF QuitInstalls, Fault, Quits, thread, server, Happens, app, files
  <2>10. QuitWaitsForInstall' BY <1>8 DEF QuitInstalls, Fault, Quits, thread, server, Happens, app, files
  <2>11. Told' BY <1>8 DEF QuitInstalls, Fault, Quits, thread, server, Happens, app, files
  <2>12. WoundDown' BY <1>8 DEF QuitInstalls, Fault, Quits, thread, server, Happens, app, files
  <2>13. OneInstaller' BY <2>1, <2>2, <2>3 DEF AllKinds
  <2>14. NotBoth' BY <2>1, <2>2, <2>3 DEF AllKinds
  <2> QED BY <2>4, <2>5, <2>6, <2>7, <2>8, <2>9, <2>10, <2>11, <2>12, <2>13, <2>14 DEF TypeOK
<1>9. CASE AppEnds
  <2>1. ThreadOK' BY <1>9 DEF AppEnds, Exits, Alive, Windows, Ends, thread, server, files, app
  <2>2. ServerOK' BY <1>9 DEF AppEnds, Exits, Alive, Windows, Ends, thread, server, files, app
  <2>3. AppOK' BY <1>9 DEF AppEnds, Exits, Alive, Windows, Ends, thread, server, files, app
  <2>4. FilesOK' BY <1>9 DEF AppEnds, Exits, Alive, Windows, Ends, thread, server, files, app
  <2>5. Bounded' BY <1>9 DEF AppEnds, Exits, Alive, Windows, Ends, thread, server, files, app
  <2>6. LockHeld' BY <1>9 DEF AppEnds, Exits, Alive, Windows, Ends, thread, server, files, app
  <2>7. QuitWaitsForInstall' BY <1>9 DEF AppEnds, Exits, Alive, Windows, Ends, thread, server, files, app
  <2>8. Told' BY <1>9 DEF AppEnds, Exits, Alive, Windows, Ends, thread, server, files, app
  <2>9. WoundDown' BY <1>9 DEF AppEnds, Exits, Alive, Windows, Ends, thread, server, files, app
  <2>10. OneInstaller' BY <1>9 DEF AppEnds, Exits, Alive, Windows, Ends, thread, server, files, app
  <2>11. NotBoth' BY <1>9 DEF AppEnds, Exits, Alive, Windows, Ends, thread, server, files, app
  <2> QED BY <2>1, <2>2, <2>3, <2>4, <2>5, <2>6, <2>7, <2>8, <2>9, <2>10, <2>11 DEF TypeOK
<1> QED BY <1>1, <1>2, <1>3, <1>4, <1>5, <1>6, <1>7, <1>8, <1>9 DEF QuitActs

\* What a step of the child leaves true.
LEMMA ChildActsKeep ==
    IInv /\ ChildActs => IInv'
<1> SUFFICES ASSUME IInv, ChildActs PROVE IInv'
    OBVIOUS
<1> USE LimitsAssumption, KindsAssumption, EventsAssumption DEF IInv, TypeOK, ThreadOK, ServerOK, AppOK, FilesOK, Bounded, LockHeld,
        QuitWaitsForInstall, Told, WoundDown, OneInstaller, NotBoth
<1>1. CASE ChildUp
  <2>1. ThreadOK' BY <1>1 DEF ChildUp, thread, app, server, files
  <2>2. ServerOK' BY <1>1 DEF ChildUp, thread, app, server, files
  <2>3. AppOK' BY <1>1 DEF ChildUp, thread, app, server, files
  <2>4. FilesOK' BY <1>1 DEF ChildUp, thread, app, server, files
  <2>5. Bounded' BY <1>1 DEF ChildUp, thread, app, server, files
  <2>6. LockHeld' BY <1>1 DEF ChildUp, thread, app, server, files
  <2>7. QuitWaitsForInstall' BY <1>1 DEF ChildUp, thread, app, server, files
  <2>8. Told' BY <1>1 DEF ChildUp, thread, app, server, files
  <2>9. WoundDown' BY <1>1 DEF ChildUp, thread, app, server, files
  <2>10. OneInstaller' BY <1>1 DEF ChildUp, thread, app, server, files
  <2>11. NotBoth' BY <1>1 DEF ChildUp, thread, app, server, files
  <2> QED BY <2>1, <2>2, <2>3, <2>4, <2>5, <2>6, <2>7, <2>8, <2>9, <2>10, <2>11 DEF TypeOK
<1>2. CASE ControlReads
  BY <1>2 DEF ControlReads, thread, app, files, server
<1>3. CASE ChildCloses
  BY <1>3 DEF ChildCloses, thread, app, files, server
<1>4. CASE ChildEnds
  BY <1>4 DEF ChildEnds, Ends, ExitCode, thread, app, files, server
<1>5. CASE UpdateExits
  BY <1>5 DEF UpdateExits, thread, app, files, server
<1>6. CASE FailureSeen
  <2>1. ThreadOK' BY <1>6 DEF FailureSeen, thread, server, app, files
  <2>2. ServerOK' BY <1>6 DEF FailureSeen, thread, server, app, files
  <2>3. AppOK' BY <1>6 DEF FailureSeen, thread, server, app, files
  <2>4. FilesOK' BY <1>6 DEF FailureSeen, thread, server, app, files
  <2>5. Bounded' BY <1>6 DEF FailureSeen, thread, server, app, files
  <2>6. LockHeld' BY <1>6 DEF FailureSeen, thread, server, app, files
  <2>7. QuitWaitsForInstall' BY <1>6 DEF FailureSeen, thread, server, app, files
  <2>8. Told' BY <1>6 DEF FailureSeen, thread, server, app, files
  <2>9. WoundDown' BY <1>6 DEF FailureSeen, thread, server, app, files
  <2>10. OneInstaller' BY <1>6 DEF FailureSeen, thread, server, app, files
  <2>11. NotBoth' BY <1>6 DEF FailureSeen, thread, server, app, files
  <2> QED BY <2>1, <2>2, <2>3, <2>4, <2>5, <2>6, <2>7, <2>8, <2>9, <2>10, <2>11 DEF TypeOK
<1> QED BY <1>1, <1>2, <1>3, <1>4, <1>5, <1>6 DEF ChildActs

\* What a step of users, signals and faults leaves true.
LEMMA DisturbedKeep ==
    IInv /\ Disturbed => IInv'
<1> SUFFICES ASSUME IInv, Disturbed PROVE IInv'
    OBVIOUS
<1> USE LimitsAssumption, KindsAssumption, EventsAssumption DEF IInv, TypeOK, ThreadOK, ServerOK, AppOK, FilesOK, Bounded, LockHeld,
        QuitWaitsForInstall, Told, WoundDown, OneInstaller, NotBoth
<1>1. CASE ChildRefuses
  BY <1>1 DEF ChildRefuses, Fault, Ends, thread, app, files, Happens, server
<1>2. CASE ChildCrashes
  BY <1>2 DEF ChildCrashes, Alive, Fault, Ends, thread, app, files, Happens, server
<1>3. CASE ChildWedges
  BY <1>3 DEF ChildWedges, Fault, thread, app, files, Happens, server
<1>4. CASE QuitClicked
  BY <1>4 DEF QuitClicked, Happens, thread, app, files, Fault, server
<1>5. CASE UpdateClicked
  BY <1>5 DEF UpdateClicked, Happens, thread, server, app, Fault, files
<1>6. CASE SetupStops
  BY <1>6 DEF SetupStops, Windows, thread, server, files, app
<1>7. CASE SetupFails
  BY <1>7 DEF SetupFails, Windows, Fault, thread, server, app, Happens, files
<1>8. CASE UserQuits
  BY <1>8 DEF UserQuits, Happens, thread, server, files, Fault, app
<1>9. CASE Signalled
  BY <1>9 DEF Signalled, Happens, thread, server, files, Fault, app
<1>10. CASE RestartAsked
  BY <1>10 DEF RestartAsked, Alive, Happens, thread, app, files, Fault, server
<1>11. CASE AppCrashes
  <2>1. ThreadOK' BY <1>11 DEF AppCrashes, Fault, Exits, Happens, Alive, Windows, Ends, thread, server, files, app
  <2>2. ServerOK' BY <1>11 DEF AppCrashes, Fault, Exits, Happens, Alive, Windows, Ends, thread, server, files, app
  <2>3. AppOK' BY <1>11 DEF AppCrashes, Fault, Exits, Happens, Alive, Windows, Ends, thread, server, files, app
  <2>4. FilesOK' BY <1>11 DEF AppCrashes, Fault, Exits, Happens, Alive, Windows, Ends, thread, server, files, app
  <2>5. Bounded' BY <1>11 DEF AppCrashes, Fault, Exits, Happens, Alive, Windows, Ends, thread, server, files, app
  <2>6. LockHeld' BY <1>11 DEF AppCrashes, Fault, Exits, Happens, Alive, Windows, Ends, thread, server, files, app
  <2>7. QuitWaitsForInstall' BY <1>11 DEF AppCrashes, Fault, Exits, Happens, Alive, Windows, Ends, thread, server, files, app
  <2>8. Told' BY <1>11 DEF AppCrashes, Fault, Exits, Happens, Alive, Windows, Ends, thread, server, files, app
  <2>9. WoundDown' BY <1>11 DEF AppCrashes, Fault, Exits, Happens, Alive, Windows, Ends, thread, server, files, app
  <2>10. OneInstaller' BY <1>11 DEF AppCrashes, Fault, Exits, Happens, Alive, Windows, Ends, thread, server, files, app
  <2>11. NotBoth' BY <1>11 DEF AppCrashes, Fault, Exits, Happens, Alive, Windows, Ends, thread, server, files, app
  <2> QED BY <2>1, <2>2, <2>3, <2>4, <2>5, <2>6, <2>7, <2>8, <2>9, <2>10, <2>11 DEF TypeOK
<1> QED BY <1>1, <1>2, <1>3, <1>4, <1>5, <1>6, <1>7, <1>8, <1>9, <1>10, <1>11 DEF Disturbed

LEMMA NextKeeps == IInv /\ [Next]_vars => IInv'
<1> SUFFICES ASSUME IInv, [Next]_vars PROVE IInv'
    OBVIOUS
<1>1. CASE Next
  BY <1>1, ThreadActsKeep, QuitActsKeep, ChildActsKeep, DisturbedKeep DEF Next
<1>2. CASE UNCHANGED vars
  BY <1>2 DEF IInv, TypeOK, ThreadOK, ServerOK, AppOK, FilesOK, ThreadOK, ServerOK, AppOK, FilesOK, Bounded, LockHeld, QuitWaitsForInstall, Told, WoundDown, OneInstaller,
         NotBoth, vars, thread, server, app, files
<1> QED BY <1>1, <1>2

LEMMA Invariant == Spec => []IInv
<1>1. Init => IInv BY InitHolds
<1>2. IInv /\ [Next]_vars => IInv' BY NextKeeps
<1> QED BY <1>1, <1>2, PTL DEF Spec

\* The state keeps its shape, and the thread never counts more crashes than
\* it gives up after (supervisor.py, _run).
THEOREM TypeCorrect == Spec => []TypeOK
<1>1. IInv => TypeOK BY DEF IInv
<1> QED BY <1>1, Invariant, PTL

\* DesktopApp.quit gets past its install lock only when the thread is not
\* installing, and it does not begin to afterwards.
THEOREM QuitWaits == Spec => []QuitWaitsForInstall
<1>1. IInv => QuitWaitsForInstall BY DEF IInv
<1> QED BY <1>1, Invariant, PTL

\* A staged release is installed once, unless a Setup for one user is what
\* installs it.
THEOREM InstalledOnce == Spec => []OneInstaller
<1>1. IInv => OneInstaller BY DEF IInv
<1> QED BY <1>1, Invariant, PTL

\* Nothing is started by a step.
NothingStarted == (child' = "starting" => child = "starting") /\ installers' = installers

\* What a step of the supervisor thread starts after the quit is done: nothing.
LEMMA ThreadActsStartsNothing ==
    IInv /\ ThreadActs /\ quit = "done" => NothingStarted
<1> SUFFICES ASSUME IInv, ThreadActs, quit = "done" PROVE NothingStarted
    OBVIOUS
<1> USE DEF IInv, WoundDown, QuitWaitsForInstall, NothingStarted
<1>1. CASE Loops
  BY <1>1 DEF Loops, server, app, files, thread
<1>2. CASE Spawns
  BY <1>2 DEF Spawns, app, files, thread, server
<1>3. CASE ProcKept
  BY <1>3 DEF ProcKept, server, app, files, thread
<1>4. CASE HealthAnswers
  BY <1>4 DEF HealthAnswers, server, app, files, thread
<1>5. CASE NotReady
  BY <1>5 DEF NotReady, Fault, Ends, app, files, Happens, thread, server
<1>6. CASE EndSeen
  BY <1>6 DEF EndSeen, server, app, files, thread
<1>7. CASE PollAnswered
  BY <1>7 DEF PollAnswered, server, app, files, thread
<1>8. CASE PollMissed
  BY <1>8 DEF PollMissed, Fault, Ends, server, app, files, Happens, thread
<1>9. CASE StopSeen
  BY <1>9 DEF StopSeen, server, app, files, thread
<1>10. CASE Breaks
  BY <1>10 DEF Breaks, server, app, files, thread
<1>11. CASE Restarts
  BY <1>11 DEF Restarts, server, app, files, thread
<1>12. CASE QuitsApp
  BY <1>12 DEF QuitsApp, server, files, thread, app
<1>13. CASE StartFailed
  BY <1>13 DEF StartFailed, server, app, files, thread
<1>14. CASE Crashed
  BY <1>14 DEF Crashed, server, app, files, thread
<1>15. CASE BackedOff
  BY <1>15 DEF BackedOff, server, app, files, thread
<1>16. CASE TakesRequest
  BY <1>16 DEF TakesRequest, server, app, thread, files
<1>17. CASE LocksInstall
  BY <1>17 DEF LocksInstall, Again, server, files, thread, app
<1>18. CASE Installed
  BY <1>18 DEF Installed, Windows, Again, server, thread, app, files
<1>19. CASE InstallFailed
  BY <1>19 DEF InstallFailed, Fault, Again, server, Happens, thread, app, files
<1> QED BY <1>1, <1>2, <1>3, <1>4, <1>5, <1>6, <1>7, <1>8, <1>9, <1>10, <1>11, <1>12, <1>13, <1>14, <1>15, <1>16, <1>17, <1>18, <1>19 DEF ThreadActs

\* What a step of the thread in DesktopApp.quit starts after the quit is done: nothing.
LEMMA QuitActsStartsNothing ==
    IInv /\ QuitActs /\ quit = "done" => NothingStarted
<1> SUFFICES ASSUME IInv, QuitActs, quit = "done" PROVE NothingStarted
    OBVIOUS
<1> USE DEF IInv, WoundDown, QuitWaitsForInstall, NothingStarted
<1>1. CASE TakesQuitOnce
  BY <1>1 DEF TakesQuitOnce, Quits, thread, server, files, app
<1>2. CASE SetsStopping
  BY <1>2 DEF SetsStopping, Quits, thread, server, files, app
<1>3. CASE TellsChild
  BY <1>3 DEF TellsChild, Alive, Quits, thread, files, server, app
<1>4. CASE NobodyToTell
  BY <1>4 DEF NobodyToTell, Alive, Quits, thread, server, files, app
<1>5. CASE ChildStopped
  BY <1>5 DEF ChildStopped, Quits, thread, server, files, app
<1>6. CASE ChildKilled
  BY <1>6 DEF ChildKilled, Fault, Ends, Quits, thread, files, Happens, server, app
<1>7. CASE Joined
  BY <1>7 DEF Joined, Quits, server, files, thread, app
<1>8. CASE QuitInstalls
  BY <1>8 DEF QuitInstalls, Fault, Quits, thread, server, Happens, app, files
<1>9. CASE AppEnds
  BY <1>9 DEF AppEnds, Exits, Alive, Windows, Ends, thread, server, files, app
<1> QED BY <1>1, <1>2, <1>3, <1>4, <1>5, <1>6, <1>7, <1>8, <1>9 DEF QuitActs

\* What a step of the child starts after the quit is done: nothing.
LEMMA ChildActsStartsNothing ==
    IInv /\ ChildActs /\ quit = "done" => NothingStarted
<1> SUFFICES ASSUME IInv, ChildActs, quit = "done" PROVE NothingStarted
    OBVIOUS
<1> USE DEF IInv, WoundDown, QuitWaitsForInstall, NothingStarted
<1>1. CASE ChildUp
  BY <1>1 DEF ChildUp, thread, app, server, files
<1>2. CASE ControlReads
  BY <1>2 DEF ControlReads, thread, app, files, server
<1>3. CASE ChildCloses
  BY <1>3 DEF ChildCloses, thread, app, files, server
<1>4. CASE ChildEnds
  BY <1>4 DEF ChildEnds, Ends, ExitCode, thread, app, files, server
<1>5. CASE UpdateExits
  BY <1>5 DEF UpdateExits, thread, app, files, server
<1>6. CASE FailureSeen
  BY <1>6 DEF FailureSeen, thread, server, app, files
<1> QED BY <1>1, <1>2, <1>3, <1>4, <1>5, <1>6 DEF ChildActs

\* What a step of users, signals and faults starts after the quit is done: nothing.
LEMMA DisturbedStartsNothing ==
    IInv /\ Disturbed /\ quit = "done" => NothingStarted
<1> SUFFICES ASSUME IInv, Disturbed, quit = "done" PROVE NothingStarted
    OBVIOUS
<1> USE DEF IInv, WoundDown, QuitWaitsForInstall, NothingStarted
<1>1. CASE ChildRefuses
  BY <1>1 DEF ChildRefuses, Fault, Ends, thread, app, files, Happens, server
<1>2. CASE ChildCrashes
  BY <1>2 DEF ChildCrashes, Alive, Fault, Ends, thread, app, files, Happens, server
<1>3. CASE ChildWedges
  BY <1>3 DEF ChildWedges, Fault, thread, app, files, Happens, server
<1>4. CASE QuitClicked
  BY <1>4 DEF QuitClicked, Happens, thread, app, files, Fault, server
<1>5. CASE UpdateClicked
  BY <1>5 DEF UpdateClicked, Happens, thread, server, app, Fault, files
<1>6. CASE SetupStops
  BY <1>6 DEF SetupStops, Windows, thread, server, files, app
<1>7. CASE SetupFails
  BY <1>7 DEF SetupFails, Windows, Fault, thread, server, app, Happens, files
<1>8. CASE UserQuits
  BY <1>8 DEF UserQuits, Happens, thread, server, files, Fault, app
<1>9. CASE Signalled
  BY <1>9 DEF Signalled, Happens, thread, server, files, Fault, app
<1>10. CASE RestartAsked
  BY <1>10 DEF RestartAsked, Alive, Happens, thread, app, files, Fault, server
<1>11. CASE AppCrashes
  BY <1>11 DEF AppCrashes, Fault, Exits, Happens, Alive, Windows, Ends, thread, server, files, app
<1> QED BY <1>1, <1>2, <1>3, <1>4, <1>5, <1>6, <1>7, <1>8, <1>9, <1>10, <1>11 DEF Disturbed

\* Once the instance lock is let go of, the supervisor thread starts neither a
\* child nor an installer.
THEOREM StartsNothingAfter == Spec => NothingStartedAfter
<1>1. IInv /\ [Next]_vars => (quit = "done" => NothingStarted)
  <2> SUFFICES ASSUME IInv, [Next]_vars, quit = "done" PROVE NothingStarted
      OBVIOUS
  <2>1. CASE Next
    BY <2>1, ThreadActsStartsNothing, QuitActsStartsNothing, ChildActsStartsNothing,
       DisturbedStartsNothing DEF Next
  <2>2. CASE UNCHANGED vars
    BY <2>2 DEF NothingStarted, vars, server, files
  <2> QED BY <2>1, <2>2
<1> QED BY <1>1, Invariant, PTL DEF Spec, NothingStartedAfter, NothingStarted

=============================================================================
