------------------------- MODULE DatabaseSwapProofs -------------------------
(***************************************************************************)
(* For any number of requests, tasks, sources, restores and crashes: the   *)
(* state of DatabaseSwap keeps its types, nobody has the files open while  *)
(* they are renamed, no driven lap is lost, the swap implements            *)
(* RecordingsInUse, and one source feeds the recorder as long as one       *)
(* request at a time switches it.                                          *)
(***************************************************************************)
EXTENDS DatabaseSwap, SequenceTheorems, TLAPS

\* What the swap has behind it: past the wait, no request is inside; past the
\* cancelling, no background task; past the gate, no database session.
Stilled ==
    /\ swap \notin {"off", "draining"} => \A r \in Requests : at[r] = "away"
    /\ swap \in Gated => \A w \in Background : at[w] = "away"
    /\ swap \in Gated \ {"gating"} => \A t \in Tasks : at[t] # "session"

\* Who is not at work holds no id.
Forgetful ==
    /\ \A t \in Requests \cup Background : at[t] = "away" => ids[t] = 0
    /\ ids["visitor"] = 0

\* There is a file under the name but between the two renames; the database to
\* come is new to everyone until it is installed, and not driven in until the
\* recorder is reset; the one before is kept.
Staged ==
    /\ (live = 0) = (swap = "renamed")
    /\ swap \in Draining \ {"installed"} => live # newest
    /\ swap = "installed" => live = newest
    /\ swap \in Draining =>
          newest \notin driven /\ \A n \in 1 .. Len(kept) : kept[n] # newest
    /\ Replacing => kept # <<>>

IInv ==
    /\ TypeOK
    /\ GatesHeld
    /\ LockHeld
    /\ Stilled
    /\ Forgetful
    /\ Staged
    /\ LapsKept

\* Stopping the source lets go of the lock when its packet holds it, and of
\* nothing else.
LEMMA StopsSourceKeeps ==
    ASSUME RecorderOK, LockHeld, StopsSource, swap' \in Locked <=> swap \in Locked,
           UNCHANGED source
    PROVE  RecorderOK' /\ LockHeld'
<1> USE DEF RecorderOK, LockHeld, StopsSource, Busy
<1>1. CASE inst[source] = "opening"
  BY <1>1
<1>2. CASE inst[source] # "opening" /\ Busy(source)
  <2>1. RecorderOK' BY <1>2
  <2>2. \A i \in Instances : ~Busy(i)' BY <1>2
  <2> QED BY <1>2, <2>1, <2>2
<1>3. CASE inst[source] # "opening" /\ ~Busy(source)
  <2>1. RecorderOK'
    <3>1. unsaved' = unsaved BY <1>3
    <3> QED BY <1>3, <3>1
  <2>2. \A i \in Instances : Busy(i)' <=> Busy(i) BY <1>3
  <2> QED BY <1>3, <2>1, <2>2
<1> QED BY <1>1, <1>2, <1>3

LEMMA InitHolds == Init => IInv
<1> SUFFICES ASSUME Init PROVE IInv
    OBVIOUS
<1> USE TasksAssumption, InstancesAssumption, BoundsAssumption DEF Init
<1>1. FilesOK BY DEF FilesOK, Generations
<1>2. TasksOK BY DEF TasksOK, AtStart, NoIds, Generations
<1>3. RecorderOK BY DEF RecorderOK, Only, NoPackets
<1>4. ControlOK
  <2>1. swap \in Phases /\ crashes \in 0 .. MaxCrashes BY DEF Phases
  <2> QED BY <2>1, Zenon DEF ControlOK
<1>5. GatesHeld BY DEF GatesHeld, Gated
<1>6. LockHeld BY DEF LockHeld, Locked, Busy, NoPackets
<1>7. Stilled BY DEF Stilled, Gated
<1>8. Forgetful BY DEF Forgetful, NoIds, Users, Tasks
<1>9. Staged BY DEF Staged, Draining, Replacing
<1>10. LapsKept BY DEF LapsKept, Range
<1> QED BY <1>1, <1>2, <1>3, <1>4, <1>5, <1>6, <1>7, <1>8, <1>9, <1>10 DEF IInv, TypeOK

\* What a step of a request, a task or a visitor leaves true.
LEMMA TaskStepKeeps == IInv /\ TaskStep => IInv'
<1> SUFFICES ASSUME IInv, TaskStep PROVE IInv'
    OBVIOUS
<1> USE TasksAssumption
    DEF IInv, TypeOK, FilesOK, TasksOK, RecorderOK, ControlOK, Generations, Tasks, Users,
        GatesHeld, LockHeld, Busy, Stilled, Forgetful, Staged, Replacing, LapsKept,
        files, gates, recorder
<1>1. ASSUME NEW r \in Requests, Enters(r) PROVE IInv'
  BY <1>1 DEF Enters, Gated
<1>2. ASSUME NEW r \in Requests, SwitchStops(r) PROVE IInv'
  <2>1. swap \in {"off", "draining"} /\ swap \notin Locked
    BY <1>2 DEF SwitchStops, Locked
  <2>2. RecorderOK' /\ LockHeld'
    BY <1>2, <2>1, StopsSourceKeeps DEF SwitchStops
  <2>3. FilesOK' /\ TasksOK' /\ ControlOK' /\ GatesHeld'
    BY <1>2 DEF SwitchStops
  <2>4. Stilled' /\ Forgetful' /\ Staged' /\ LapsKept'
    BY <1>2, <2>1 DEF SwitchStops, Gated
  <2> QED BY <2>2, <2>3, <2>4
<1>3. CASE Visits
  BY <1>3 DEF Visits, Gated
<1>4. ASSUME NEW w \in Background, Kicked(w) PROVE IInv'
  BY <1>4 DEF Kicked, Gated, Locked
<1>5. ASSUME NEW t \in Tasks, OpensSession(t) PROVE IInv'
  BY <1>5 DEF OpensSession, Gated
<1>6. ASSUME NEW t \in Tasks, EndsSession(t) PROVE IInv'
  BY <1>6 DEF EndsSession, Gated
<1>7. ASSUME NEW t \in Tasks, Leaves(t) PROVE IInv'
  BY <1>7 DEF Leaves, Gated
<1> QED BY <1>1, <1>2, <1>3, <1>4, <1>5, <1>6, <1>7, Zenon DEF TaskStep

\* What a step of the recorder leaves true.
LEMMA RecorderStepKeeps == IInv /\ RecorderStep => IInv'
<1> SUFFICES ASSUME IInv, NEW i \in Instances,
                    \/ Packet(i) \/ FeedLocks(i) \/ SessionOpens(i)
                    \/ LapEnds(i) \/ LapCommitted(i) \/ LapNotSaved(i) \/ PacketDone(i)
             PROVE IInv'
    BY DEF RecorderStep
<1> USE TasksAssumption
    DEF IInv, TypeOK, FilesOK, TasksOK, RecorderOK, ControlOK, Generations, Tasks, Users,
        GatesHeld, LockHeld, Busy, Stilled, Forgetful, Staged, Replacing, LapsKept,
        files, tasks, gates, Fed
<1>1. CASE Packet(i)
  BY <1>1 DEF Packet
<1>2. CASE FeedLocks(i)
  BY <1>2 DEF FeedLocks, Locked
<1>3. CASE SessionOpens(i)
  BY <1>3 DEF SessionOpens, recorder
<1>4. CASE LapEnds(i)
  BY <1>4 DEF LapEnds
<1>5. CASE LapCommitted(i)
  BY <1>5 DEF LapCommitted, Gated, Locked, Draining
<1>6. CASE LapNotSaved(i)
  BY <1>6 DEF LapNotSaved
<1>7. CASE PacketDone(i)
  BY <1>7 DEF PacketDone, Locked
<1> QED BY <1>1, <1>2, <1>3, <1>4, <1>5, <1>6, <1>7

\* What a step of a switch of the source leaves true.
LEMMA SwitchStepKeeps == IInv /\ SwitchStep => IInv'
<1> SUFFICES ASSUME IInv, NEW r \in Switchers, SwitchStarts(r) \/ SwitchEnds(r) PROVE IInv'
    BY DEF SwitchStep
<1> USE TasksAssumption
    DEF IInv, TypeOK, FilesOK, TasksOK, RecorderOK, ControlOK, Generations, Tasks, Users,
        GatesHeld, LockHeld, Busy, Stilled, Forgetful, Staged, Replacing, LapsKept,
        files, gates
<1>1. CASE SwitchStarts(r)
  BY <1>1 DEF SwitchStarts
<1>2. CASE SwitchEnds(r)
  BY <1>2 DEF SwitchEnds, Opened
<1> QED BY <1>1, <1>2

\* What a step of the swap leaves true, up to the gate it waits at.
LEMMA SwapWaitsKeep ==
    /\ IInv
    /\ \/ SwapBegins \/ SwapGivesUp \/ SwapStopsSource \/ SwapLocks \/ SwapQuiets
       \/ SwapAlone \/ SwapRefused
    => IInv'
<1> SUFFICES ASSUME IInv,
                    \/ SwapBegins \/ SwapGivesUp \/ SwapStopsSource \/ SwapLocks \/ SwapQuiets
                    \/ SwapAlone \/ SwapRefused
             PROVE IInv'
    OBVIOUS
<1> USE TasksAssumption
    DEF IInv, TypeOK, FilesOK, TasksOK, RecorderOK, ControlOK, Generations, Tasks, Users,
        GatesHeld, LockHeld, Busy, Stilled, Forgetful, Staged, Replacing, LapsKept,
        files, tasks, gates, recorder, Moves, Phases, Draining, Locked, Gated
<1>1. CASE SwapBegins
  <2>1. FilesOK'
    <3>1. kept \in Seq(1 .. newest') BY <1>1, SeqMonotonic DEF SwapBegins
    <3> QED BY <1>1, <3>1, BoundsAssumption DEF SwapBegins
  <2>2. TasksOK' /\ RecorderOK' /\ ControlOK' BY <1>1 DEF SwapBegins
  <2>3. GatesHeld' /\ LockHeld' BY <1>1 DEF SwapBegins
  <2>4. Stilled' /\ Forgetful' BY <1>1 DEF SwapBegins
  <2>5. Staged'
    <3>1. \A n \in 1 .. Len(kept) : kept[n] # newest' BY <1>1 DEF SwapBegins
    <3> QED BY <1>1, <3>1 DEF SwapBegins
  <2>6. LapsKept' BY <1>1 DEF SwapBegins
  <2> QED BY <2>1, <2>2, <2>3, <2>4, <2>5, <2>6
<1>2. CASE SwapGivesUp
  BY <1>2 DEF SwapGivesUp
<1>3. CASE SwapStopsSource
  BY <1>3, StopsSourceKeeps DEF SwapStopsSource, Drained
<1>4. CASE SwapLocks
  <2>1. lock = "free" /\ (\A i \in Instances : ~Busy(i)) BY <1>4 DEF SwapLocks
  <2>2. driven' \subseteq driven \cup {live} /\ live \in 1 .. newest /\ live # newest
    BY <1>4 DEF SwapLocks
  <2>3. TypeOK' BY <1>4, <2>2 DEF SwapLocks
  <2>4. GatesHeld' BY <1>4 DEF SwapLocks
  <2>5. LockHeld' BY <1>4, <2>1 DEF SwapLocks
  <2>6. Stilled' /\ Forgetful' BY <1>4 DEF SwapLocks
  <2>7. Staged' /\ LapsKept' BY <1>4, <2>2 DEF SwapLocks
  <2> QED BY <2>3, <2>4, <2>5, <2>6, <2>7
<1>5. CASE SwapQuiets
  BY <1>5 DEF SwapQuiets
<1>6. CASE SwapAlone
  BY <1>6 DEF SwapAlone
<1>7. CASE SwapRefused
  BY <1>7 DEF SwapRefused, Unwound
<1> QED BY <1>1, <1>2, <1>3, <1>4, <1>5, <1>6, <1>7

\* What a step of the swap leaves true, while it renames the files.
LEMMA SwapFilesKeep ==
    IInv /\ (SwapKeeps \/ SwapInstalls \/ SwapPutsBack \/ SwapResets) => IInv'
<1> SUFFICES ASSUME IInv, SwapKeeps \/ SwapInstalls \/ SwapPutsBack \/ SwapResets
             PROVE IInv'
    OBVIOUS
<1> USE TasksAssumption
    DEF IInv, TypeOK, FilesOK, TasksOK, RecorderOK, ControlOK, Generations, Tasks, Users,
        GatesHeld, LockHeld, Busy, Stilled, Forgetful, Staged, Replacing, LapsKept,
        files, tasks, gates, recorder, Moves, Phases, Draining, Locked, Gated
<1>1. CASE SwapKeeps
  <2>1. live \in 1 .. newest /\ live # newest BY <1>1 DEF SwapKeeps
  <2>2. /\ kept' \in Seq(1 .. newest) /\ Len(kept') = Len(kept) + 1
        /\ \A n \in 1 .. Len(kept) : kept'[n] = kept[n]
        /\ kept'[Len(kept')] = live
    BY <1>1, <2>1 DEF SwapKeeps
  <2>3. TypeOK' BY <1>1, <2>2 DEF SwapKeeps
  <2>4. GatesHeld' /\ LockHeld' BY <1>1 DEF SwapKeeps
  <2>5. Stilled' /\ Forgetful' BY <1>1 DEF SwapKeeps
  <2>6. Staged' BY <1>1, <2>1, <2>2 DEF SwapKeeps
  <2>7. LapsKept'
    <3>1. SUFFICES ASSUME NEW g \in driven PROVE g \in Range(kept')
      BY <1>1 DEF SwapKeeps
    <3>2. CASE g = live
      <4>1. Len(kept') \in DOMAIN kept' BY <2>2
      <4> QED BY <2>2, <3>2, <4>1 DEF Range
    <3>3. CASE g \in Range(kept)
      <4>1. PICK n \in 1 .. Len(kept) : g = kept[n] BY <3>3 DEF Range
      <4>2. n \in DOMAIN kept' /\ g = kept'[n] BY <2>2, <4>1
      <4> QED BY <4>2 DEF Range
    <3> QED BY <3>1, <3>2, <3>3
  <2> QED BY <2>3, <2>4, <2>5, <2>6, <2>7
<1>2. CASE SwapInstalls
  BY <1>2 DEF SwapInstalls, Range
<1>3. CASE SwapPutsBack
  <2>1. Len(kept) \in Nat \ {0} /\ kept[Len(kept)] \in 1 .. newest
    BY <1>3, EmptySeq DEF SwapPutsBack
  <2>2. /\ kept' \in Seq(1 .. newest) /\ Len(kept') = Len(kept) - 1
        /\ \A n \in 1 .. Len(kept) - 1 : kept'[n] = kept[n]
    <3>1. kept' = SubSeq(kept, 1, Len(kept) - 1) BY <1>3 DEF SwapPutsBack, Front
    <3>2. Len(kept) - 1 \in Nat /\ \A n \in 1 .. Len(kept) - 1 : kept[n] \in 1 .. newest
      BY <2>1
    <3> DEFINE m == Len(kept) - 1
    <3>3. /\ SubSeq(kept, 1, m) \in Seq(1 .. newest)
          /\ Len(SubSeq(kept, 1, m)) = m
          /\ \A n \in 1 .. m : SubSeq(kept, 1, m)[n] = kept[n]
      <4>1. m \in Nat /\ \A n \in 1 .. m : kept[n] \in 1 .. newest BY <3>2
      <4> HIDE DEF m
      <4>2. /\ SubSeq(kept, 1, m) \in Seq(1 .. newest)
            /\ Len(SubSeq(kept, 1, m)) = IF 1 <= m THEN m - 1 + 1 ELSE 0
            /\ \A n \in 1 .. m - 1 + 1 : SubSeq(kept, 1, m)[n] = kept[1 + n - 1]
        BY <4>1, SubSeqProperties
      <4>3. ASSUME NEW n \in 1 .. m PROVE SubSeq(kept, 1, m)[n] = kept[n]
        <5>1. n \in 1 .. m - 1 + 1 /\ 1 + n - 1 = n BY <4>1
        <5> QED BY <4>2, <5>1
      <4> QED BY <4>1, <4>2, <4>3
    <3> QED BY <3>1, <3>2, <3>3
  <2>3. live' = kept[Len(kept)] BY <1>3 DEF SwapPutsBack, Last
  <2>4. FilesOK' /\ TasksOK' BY <1>3, <2>1, <2>2, <2>3 DEF SwapPutsBack, Unwound
  <2>9. RecorderOK'
    BY <1>3 DEF SwapPutsBack, Unwound
  <2>10. ControlOK'
    <3>1. requestsShut' \in BOOLEAN /\ sessionsShut' \in BOOLEAN
      BY <1>3, Zenon DEF SwapPutsBack, Unwound
    <3> QED BY <1>3, <3>1 DEF SwapPutsBack, Unwound
  <2>5. GatesHeld' /\ LockHeld' BY <1>3 DEF SwapPutsBack, Unwound
  <2>6. Stilled' /\ Forgetful' BY <1>3 DEF SwapPutsBack, Unwound
  <2>7. Staged' BY <1>3, <2>1, <2>3 DEF SwapPutsBack, Unwound
  <2>8. LapsKept'
    <3>1. driven \subseteq Range(kept) BY <1>3 DEF SwapPutsBack, Range
    <3>2. SUFFICES ASSUME NEW g \in driven PROVE g = live' \/ g \in Range(kept')
      BY <1>3 DEF SwapPutsBack
    <3>3. PICK n \in 1 .. Len(kept) : g = kept[n] BY <3>1 DEF Range
    <3>4. CASE n = Len(kept) BY <2>3, <3>3, <3>4
    <3>5. CASE n # Len(kept)
      <4>1. n \in 1 .. Len(kept) - 1 BY <2>1, <3>5
      <4>2. n \in DOMAIN kept' /\ g = kept'[n] BY <2>2, <3>3, <4>1
      <4> QED BY <4>2 DEF Range
    <3> QED BY <3>4, <3>5
  <2> QED BY <2>4, <2>5, <2>6, <2>7, <2>8, <2>9, <2>10
<1>4. CASE SwapResets
  <2>1. FilesOK' /\ TasksOK' BY <1>4 DEF SwapResets, Unwound
  <2>6. RecorderOK'
    BY <1>4 DEF SwapResets, Unwound
  <2>7. ControlOK'
    <3>1. requestsShut' \in BOOLEAN /\ sessionsShut' \in BOOLEAN
      BY <1>4, Zenon DEF SwapResets, Unwound
    <3> QED BY <1>4, <3>1 DEF SwapResets, Unwound
  <2>2. GatesHeld' BY <1>4 DEF SwapResets, Unwound
  <2>3. LockHeld' BY <1>4 DEF SwapResets, Unwound
  <2>4. Stilled' /\ Forgetful' BY <1>4 DEF SwapResets, Unwound
  <2>5. Staged' /\ LapsKept' BY <1>4 DEF SwapResets, Unwound
  <2> QED BY <2>1, <2>2, <2>3, <2>4, <2>5, <2>6, <2>7
<1> QED BY <1>1, <1>2, <1>3, <1>4

\* What a step of the swap leaves true, on its way out.
LEMMA SwapRestartKeeps ==
    /\ IInv
    /\ SwapReplaces \/ SwapRestarts \/ SwapStandsDown \/ SwapStarts \/ SwapEnds
    => IInv'
<1> SUFFICES ASSUME IInv,
                    SwapReplaces \/ SwapRestarts \/ SwapStandsDown \/ SwapStarts \/ SwapEnds
             PROVE IInv'
    OBVIOUS
<1> USE TasksAssumption
    DEF IInv, TypeOK, FilesOK, TasksOK, RecorderOK, ControlOK, Generations, Tasks, Users,
        GatesHeld, LockHeld, Busy, Stilled, Forgetful, Staged, Replacing, LapsKept,
        files, tasks, gates, recorder, Moves, Phases, Draining, Locked, Gated
<1>1. CASE SwapReplaces
  BY <1>1 DEF SwapReplaces
<1>2. CASE SwapRestarts
  BY <1>2 DEF SwapRestarts
<1>3. CASE SwapStandsDown
  BY <1>3 DEF SwapStandsDown
<1>4. CASE SwapStarts
  <2>1. RecorderOK' BY <1>4 DEF SwapStarts
  <2>2. swap' \in {"binding", "off"} /\ requestsShut' = PortFree /\ PortFree \in BOOLEAN
    BY <1>4, Zenon DEF SwapStarts, PortFree
  <2>3. ControlOK'
    <3>1. requestsShut' \in BOOLEAN /\ sessionsShut' \in BOOLEAN
      BY <1>4, <2>2, Zenon DEF SwapStarts
    <3> QED BY <1>4, <2>2, <3>1 DEF SwapStarts
  <2>4. GatesHeld'
    <3>1. CASE PortFree BY <1>4, <3>1 DEF SwapStarts
    <3>2. CASE ~PortFree BY <1>4, <3>2 DEF SwapStarts
    <3> QED BY <3>1, <3>2
  <2>5. FilesOK' /\ TasksOK' BY <1>4 DEF SwapStarts
  <2>6. LockHeld' BY <1>4, <2>2 DEF SwapStarts
  <2>7. Stilled' /\ Forgetful' /\ Staged' /\ LapsKept' BY <1>4, <2>2 DEF SwapStarts
  <2> QED BY <2>1, <2>3, <2>4, <2>5, <2>6, <2>7
<1>5. CASE SwapEnds
  BY <1>5 DEF SwapEnds, Opened
<1> QED BY <1>1, <1>2, <1>3, <1>4, <1>5

\* What a step of the service's stop, or a crash, leaves true.
LEMMA StopKeeps ==
    IInv /\ (StopBegins \/ StopStep \/ Crash) => IInv'
<1> SUFFICES ASSUME IInv, StopBegins \/ StopCloses \/ StopCutOff \/ Crash
             PROVE IInv'
    BY DEF StopStep
<1> USE TasksAssumption
    DEF IInv, TypeOK, FilesOK, TasksOK, RecorderOK, ControlOK, Generations, Tasks, Users,
        GatesHeld, LockHeld, Busy, Stilled, Forgetful, Staged, Replacing, LapsKept,
        files, tasks, gates, recorder, Moves, Phases, Draining, Locked, Gated
<1>1. CASE StopBegins
  <2>1. UNCHANGED swap BY <1>1 DEF StopBegins
  <2>2. RecorderOK' /\ LockHeld' BY <1>1, <2>1, StopsSourceKeeps DEF StopBegins
  <2>3. FilesOK' /\ TasksOK' /\ ControlOK' BY <1>1 DEF StopBegins
  <2>4. GatesHeld' /\ Stilled' /\ Forgetful' BY <1>1 DEF StopBegins
  <2>5. Staged' /\ LapsKept' BY <1>1 DEF StopBegins
  <2> QED BY <2>2, <2>3, <2>4, <2>5
<1>2. CASE StopCloses
  BY <1>2 DEF StopCloses
<1>3. CASE StopCutOff
  BY <1>3 DEF StopCutOff
<1>4. CASE Crash
  <2>1. FilesOK'
    <3>1. newest' >= newest /\ newest' \in Nat BY <1>4 DEF Crash
    <3>2. kept \in Seq(1 .. newest')
      <4>1. 1 .. newest \subseteq 1 .. newest' BY <3>1
      <4> QED BY <4>1, SeqMonotonic
    <3>3. /\ newest' \in Nat \ {0} /\ newest' <= 1 + MaxRestores + crashes'
          /\ live' \in 0 .. newest' /\ driven' \subseteq 1 .. newest'
      BY <1>4, BoundsAssumption DEF Crash
    <3> QED BY <1>4, <3>2, <3>3 DEF Crash
  <2>2. TasksOK' BY <1>4, <2>1 DEF Crash, AtStart, NoIds
  <2>3. RecorderOK'
    <3>1. unsaved' \in BOOLEAN BY <1>4, Zenon DEF Crash
    <3>2. /\ source' \in Instances /\ lock' = "free"
          /\ inst' \in [Instances -> {"off", "opening", "running"}]
          /\ feed' \in [Instances -> {"none", "waiting", "recording", "saving", "telling"}]
      BY <1>4 DEF Crash, Only, NoPackets
    <3> QED BY <3>1, <3>2
  <2>9. ControlOK'
    <3>1. requestsShut' \in BOOLEAN /\ sessionsShut' \in BOOLEAN BY <1>4, Zenon DEF Crash
    <3>2. swap' = "off" /\ stop' = "off" /\ crashes' \in 0 .. MaxCrashes
      BY <1>4, BoundsAssumption DEF Crash
    <3> QED BY <3>1, <3>2
  <2>4. GatesHeld' /\ LockHeld' BY <1>4 DEF Crash, NoPackets
  <2>5. Stilled' BY <1>4 DEF Crash
  <2>6. Forgetful' BY <1>4 DEF Crash, NoIds
  <2>7. Staged' BY <1>4 DEF Crash
  <2>8. LapsKept'
    <3>1. driven \ {0} \subseteq {live'} \cup Range(kept) BY <1>4 DEF Crash
    <3> QED BY <1>4, <3>1 DEF Crash
  <2> QED BY <2>1, <2>2, <2>3, <2>4, <2>5, <2>6, <2>7, <2>8, <2>9
<1> QED BY <1>1, <1>2, <1>3, <1>4
LEMMA NextKeeps == IInv /\ [Next]_vars => IInv'
<1>1. CASE Next
  BY <1>1, TaskStepKeeps, RecorderStepKeeps, SwitchStepKeeps, SwapWaitsKeep, SwapFilesKeep,
     SwapRestartKeeps, StopKeeps, Zenon
     DEF Next, SwapStep
<1>2. ASSUME IInv, UNCHANGED vars PROVE IInv'
  BY <1>2
     DEF IInv, TypeOK, FilesOK, TasksOK, RecorderOK, ControlOK, Generations, GatesHeld, LockHeld,
         Busy, Stilled, Forgetful, Staged, Replacing, LapsKept,
         vars, files, tasks, gates, recorder
<1> QED BY <1>1, <1>2

LEMMA Invariant == Spec => []IInv
<1> QED BY InitHolds, NextKeeps, PTL DEF Spec

\* The variables keep their types, the gates are shut exactly while the swap is
\* behind them, and the session lock is held by one, whoever says so.
THEOREM TypeCorrect == Spec => [](TypeOK /\ GatesHeld /\ LockHeld)
<1>1. IInv => TypeOK /\ GatesHeld /\ LockHeld BY DEF IInv
<1> QED BY <1>1, Invariant, PTL

\* While _swap_files copies and renames, no database session is open and no
\* packet is in the recorder.
THEOREM NobodyHasTheFiles == Spec => []FilesAlone
<1>1. IInv => FilesAlone
  BY DEF IInv, TypeOK, RecorderOK, LockHeld, Locked, Busy, Stilled, Gated, FilesAlone
<1> QED BY <1>1, Invariant, PTL

\* No restore, refused, undone or cut short by a crash at any step, loses the
\* database a lap was driven into: it is in use or kept beside it.
THEOREM NoLapIsLost == Spec => []LapsKept
<1>1. IInv => LapsKept BY DEF IInv
<1> QED BY <1>1, Invariant, PTL
-----------------------------------------------------------------------------
(* The swap implements RecordingsInUse: what is in use there is the file   *)
(* under the name, or, between the first rename and the reset, the one     *)
(* kept last.                                                              *)

InForce == IF Replacing THEN Last(kept) ELSE live

LEMMA KeptLast ==
    ASSUME IInv, Replacing
    PROVE  kept # <<>> /\ Last(kept) \in 1 .. newest /\ Last(kept) # newest
<1>1. Len(kept) \in 1 .. Len(kept) /\ kept[Len(kept)] \in 1 .. newest
  BY EmptySeq DEF IInv, Staged, TypeOK, FilesOK
<1> QED BY <1>1 DEF IInv, Staged, Replacing, Draining, Last

LEMMA InitImplements == Init => InUse!Init
<1> SUFFICES ASSUME Init PROVE InUse!Init
    OBVIOUS
<1>1. ~Replacing BY DEF Init, Replacing
<1>2. live \in Nat \ {0} BY DEF Init
<1> QED BY <1>1, <1>2 DEF Init, InUse!Init, NoIds

\* A task or a packet learns an id of what is in use, drops one, or does
\* neither.
LEMMA UserSteps ==
    ASSUME IInv, TaskStep \/ RecorderStep \/ SwitchStep
    PROVE  [InUse!Next]_(InUse!vars)
<1>1. InForce' = InForce
  BY DEF TaskStep, RecorderStep, SwitchStep, Enters, SwitchStops, Visits, Kicked, OpensSession,
         EndsSession, Leaves, Packet, FeedLocks, SessionOpens, LapEnds, LapCommitted, LapNotSaved,
         PacketDone, SwitchStarts, SwitchEnds, files, InForce, Replacing
<1>2. CASE UNCHANGED ids
  BY <1>1, <1>2 DEF InUse!vars, InForce
<1>3. ASSUME NEW t \in Tasks, EndsSession(t), t # "visitor" PROVE InUse!Next
  <2>1. ~Replacing
    BY <1>3 DEF IInv, Stilled, Gated, EndsSession, Replacing
  <2>2. InUse!Learns(t) BY <1>1, <1>3, <2>1 DEF EndsSession, InUse!Learns, InForce
  <2> QED BY <1>3, <2>2 DEF InUse!Next, Users
<1>4. ASSUME NEW t \in Tasks, Leaves(t) PROVE InUse!Next
  <2>1. ids' = [u \in Users |-> IF u \in {t} THEN 0 ELSE ids[u]]
    BY <1>4 DEF Leaves, IInv, TypeOK, TasksOK, Users
  <2>2. {t} \in SUBSET Users BY <1>4 DEF Users
  <2> QED BY <1>1, <2>1, <2>2 DEF InUse!Next, InUse!Drops, InForce
<1>5. ASSUME NEW i \in Instances, SessionOpens(i) PROVE InUse!Next
  <2>1. ~Replacing
    BY <1>5 DEF IInv, GatesHeld, Gated, SessionOpens, Replacing
  <2>2. InUse!Learns("recorder") BY <1>1, <1>5, <2>1 DEF SessionOpens, InUse!Learns, InForce
  <2> QED BY <2>2 DEF InUse!Next, Users
<1> QED
  BY <1>2, <1>3, <1>4, <1>5
     DEF TaskStep, RecorderStep, SwitchStep, Enters, SwitchStops, Visits, Kicked, OpensSession,
         EndsSession, Packet, FeedLocks, LapEnds, LapCommitted, LapNotSaved,
         PacketDone, SwitchStarts, SwitchEnds, tasks

\* The renames change nothing for anyone; what is in use changes when the
\* recorder is reset, and nobody holds an id then.
LEMMA SwapSteps ==
    ASSUME IInv, SwapBegins \/ SwapStep
    PROVE  [InUse!Next]_(InUse!vars)
<1>1. CASE SwapResets
  <2>1. InForce = Last(kept) /\ InForce' = newest /\ InForce' # InForce
    BY <1>1, KeptLast
       DEF SwapResets, Unwound, Moves, files, Replacing, InForce, IInv, Staged
  <2>2. ids' = [u \in Users |-> 0]
    <3>1. \A r \in Requests : ids[r] = 0
      BY <1>1 DEF SwapResets, IInv, Stilled, Forgetful
    <3>2. \A w \in Background : ids[w] = 0
      BY <1>1 DEF SwapResets, IInv, Stilled, Forgetful, Gated
    <3>3. ids["visitor"] = 0 BY DEF IInv, Forgetful
    <3> QED BY <1>1, <3>1, <3>2, <3>3
            DEF SwapResets, IInv, TypeOK, TasksOK, Users, Tasks
  <2> QED BY <2>1, <2>2 DEF InUse!Next, InUse!Replaced, InForce
<1>2. CASE SwapQuiets
  <2>1. InForce' = InForce
    BY <1>2 DEF SwapQuiets, Moves, files, Replacing, InForce
  <2>2. ids' = [u \in Users |-> IF u \in Background THEN 0 ELSE ids[u]]
    BY <1>2 DEF SwapQuiets
  <2>3. Background \in SUBSET Users BY DEF Users, Tasks
  <2> QED BY <2>1, <2>2, <2>3 DEF InUse!Next, InUse!Drops, InForce
<1>3. CASE SwapKeeps
  <2>1. Len(kept') \in Nat /\ kept'[Len(kept')] = live
    BY <1>3 DEF SwapKeeps, IInv, TypeOK, FilesOK, Generations
  <2>2. InForce = live /\ InForce' = live
    BY <1>3, <2>1 DEF SwapKeeps, Moves, Replacing, InForce, Last
  <2> QED BY <1>3, <2>2 DEF SwapKeeps, tasks, InUse!vars, InForce
<1>4. CASE SwapInstalls
  <2>1. InForce' = InForce BY <1>4 DEF SwapInstalls, Moves, Replacing, InForce, Last
  <2> QED BY <1>4, <2>1 DEF SwapInstalls, tasks, InUse!vars, InForce
<1>5. CASE SwapPutsBack
  <2>1. InForce = Last(kept) /\ InForce' = Last(kept)
    BY <1>5 DEF SwapPutsBack, Unwound, Moves, Replacing, InForce
  <2> QED BY <1>5, <2>1 DEF SwapPutsBack, tasks, InUse!vars, InForce
<1>6. CASE \/ SwapBegins \/ SwapGivesUp \/ SwapStopsSource \/ SwapLocks \/ SwapAlone
           \/ SwapRefused \/ SwapReplaces \/ SwapRestarts \/ SwapStandsDown \/ SwapStarts
           \/ SwapEnds
  <2>1. ids' = ids /\ live' = live /\ ~Replacing /\ ~Replacing'
    BY <1>6
       DEF SwapBegins, SwapGivesUp, SwapStopsSource, SwapLocks, SwapAlone, SwapRefused,
           SwapReplaces, SwapRestarts, SwapStandsDown, SwapStarts, SwapEnds, Unwound, Moves,
           Replacing, files, tasks
  <2> QED BY <2>1 DEF InUse!vars
<1> QED BY <1>1, <1>2, <1>3, <1>4, <1>5, <1>6 DEF SwapStep

\* Whoever stops drops its ids; a process that starts anew has none, and has
\* the file there is, or the one SQLite makes.
LEMMA StopSteps ==
    ASSUME IInv, StopBegins \/ StopStep \/ Crash
    PROVE  [InUse!Next]_(InUse!vars)
<1>1. CASE StopBegins
  <2>1. InForce' = InForce BY <1>1 DEF StopBegins, files, Replacing, InForce
  <2>2. ids' = [u \in Users |-> IF u \in {"data"} \cap Users THEN 0 ELSE ids[u]]
    BY <1>1 DEF StopBegins
  <2>3. {"data"} \cap Users \in SUBSET Users OBVIOUS
  <2> QED BY <2>1, <2>2, <2>3 DEF InUse!Next, InUse!Drops, InForce
<1>2. CASE StopCloses
  <2>1. InForce' = InForce BY <1>2 DEF StopCloses, files, Replacing, InForce
  <2>2. ids' = [u \in Users |->
                  IF u \in {"sync", "rejudge", "recorder"} \cap Users THEN 0 ELSE ids[u]]
    BY <1>2 DEF StopCloses
  <2>3. {"sync", "rejudge", "recorder"} \cap Users \in SUBSET Users OBVIOUS
  <2> QED BY <2>1, <2>2, <2>3 DEF InUse!Next, InUse!Drops, InForce
<1>3. CASE StopCutOff
  <2>1. InForce' = InForce BY <1>3 DEF StopCutOff, files, Replacing, InForce
  <2> QED BY <1>3, <2>1 DEF StopCutOff, tasks, InUse!vars, InForce
<1>4. CASE Crash /\ Replacing
  <2>1. InForce = Last(kept) /\ InForce' = live'
    BY <1>4 DEF Crash, Replacing, InForce
  <2>2. live' \in {newest, newest + 1}
    BY <1>4 DEF Crash, Replacing, IInv, Staged
  <2>3. Last(kept) # live'
    BY <1>4, <2>2, KeptLast DEF IInv, TypeOK, FilesOK
  <2> QED BY <1>4, <2>1, <2>3 DEF Crash, NoIds, InUse!Next, InUse!Replaced, InForce
<1>5. CASE Crash /\ ~Replacing
  <2>1. InForce' = InForce
    BY <1>5 DEF Crash, Replacing, InForce, IInv, Staged
  <2>2. ids' = [u \in Users |-> IF u \in Users THEN 0 ELSE ids[u]]
    BY <1>5 DEF Crash, NoIds
  <2> QED BY <2>1, <2>2 DEF InUse!Next, InUse!Drops, InForce
<1> QED BY <1>1, <1>2, <1>3, <1>4, <1>5 DEF StopStep

\* For everyone who works with it the database is replaced in one step, with
\* nobody holding an id of the one before: _swap_database implements
\* RecordingsInUse.
THEOREM SwapImplements == Spec => SwapIsAtomic
<1>1. IInv /\ [Next]_vars => [InUse!Next]_(InUse!vars)
  <2>1. ASSUME IInv, UNCHANGED vars PROVE UNCHANGED InUse!vars
    BY <2>1 DEF vars, files, tasks, InUse!vars, Replacing
  <2> QED BY <2>1, UserSteps, SwapSteps, StopSteps DEF Next
<1> QED BY <1>1, InitImplements, Invariant, PTL DEF SwapIsAtomic, InUse!Spec, Spec
-----------------------------------------------------------------------------
(* Who has the port, with one request at a time to switch the source.  Two *)
(* at once can leave a source running out of reach.                        *)

Switching(place) == \E r \in Switchers : at[r] = place

\* The source is off while a switch or the swap has it stopped, and opening
\* while a switch or the swap awaits it; only requests that switch are there.
SourceFollows ==
    /\ \A r \in Requests : at[r] \in {"stopped", "opening"} => r \in Switchers
    /\ inst[source] = "opening" => swap = "binding" \/ Switching("opening")
    /\ Switching("stopped") => inst[source] = "off"
    /\ swap \in (Draining \ {"draining"}) \cup {"replacing", "restarting", "starting"} =>
          inst[source] = "off"
    /\ swap = "binding" \/ Switching("opening") => inst[source] = "opening"
    /\ swap \in {"off", "draining"} /\ stop = "off"
          /\ ~Switching("stopped") /\ ~Switching("opening") => inst[source] = "running"

SourceInv == ProducerInReach /\ SourceFollows
LEMMA SourceInvHolds == Init => SourceInv
BY TasksAssumption
   DEF Init, AtStart, Only, Tasks, SourceInv, ProducerInReach, SourceFollows, Switching, Draining

LEMMA SourceInvKept ==
    ASSUME \A r, s \in Switchers : r = s, IInv, SourceInv, [Next]_vars
    PROVE  SourceInv'
<1> USE TasksAssumption
    DEF IInv, TypeOK, TasksOK, RecorderOK, ControlOK, Stilled, Tasks, Phases, Draining,
        SourceInv, ProducerInReach, SourceFollows, Switching, PortFree,
        files, tasks, gates, recorder
<1>1. CASE UNCHANGED vars
  BY <1>1 DEF vars
<1>2. CASE TaskStep
  <2>1. ASSUME NEW r \in Requests, SwitchStops(r) PROVE SourceInv'
    BY <2>1 DEF SwitchStops, StopsSource
  <2>2. CASE \/ \E r \in Requests : Enters(r)
             \/ Visits
             \/ \E w \in Background : Kicked(w)
             \/ \E t \in Tasks : OpensSession(t) \/ EndsSession(t) \/ Leaves(t)
    <3>1. UNCHANGED <<source, inst, swap, stop>>
      BY <2>2 DEF Enters, Visits, Kicked, OpensSession, EndsSession, Leaves
    <3>2. \A r \in Requests :
             /\ at'[r] = "stopped" <=> at[r] = "stopped"
             /\ at'[r] = "opening" <=> at[r] = "opening"
      BY <2>2 DEF Enters, Visits, Kicked, OpensSession, EndsSession, Leaves
    <3> QED BY <3>1, <3>2
  <2> QED BY <1>2, <2>1, <2>2 DEF TaskStep
<1>3. CASE RecorderStep
  <2>1. UNCHANGED <<source, inst, at, swap, stop>>
    BY <1>3 DEF RecorderStep, Packet, FeedLocks, SessionOpens, LapEnds, LapCommitted, LapNotSaved,
                PacketDone, Fed
  <2> QED BY <2>1
<1>4. ASSUME NEW r \in Switchers, SwitchStarts(r) PROVE SourceInv'
  <2>1. PortFree /\ swap \in {"off", "draining"} BY <1>4 DEF SwitchStarts
  <2> QED BY <1>4, <2>1 DEF SwitchStarts
<1>5. ASSUME NEW r \in Switchers, SwitchEnds(r) PROVE SourceInv'
  <2>1. swap \in {"off", "draining"} /\ inst' = [inst EXCEPT ![source] = "running"]
    BY <1>5 DEF SwitchEnds, Opened
  <2> QED BY <1>5, <2>1 DEF SwitchEnds
<1>6. CASE SwapStopsSource
  BY <1>6 DEF SwapStopsSource, StopsSource, Drained, Moves
<1>7. CASE SwapStarts
  <2>1. PortFree BY <1>7 DEF SwapStarts
  <2> QED BY <1>7, <2>1 DEF SwapStarts, Moves
<1>8. CASE SwapEnds
  <2>1. inst' = [inst EXCEPT ![source] = "running"]
    BY <1>8 DEF SwapEnds, Opened
  <2> QED BY <1>8, <2>1 DEF SwapEnds, Moves
<1>9. CASE SwapStandsDown
  BY <1>9 DEF SwapStandsDown, Moves
<1>10. CASE \/ SwapBegins \/ SwapGivesUp \/ SwapLocks \/ SwapQuiets \/ SwapAlone \/ SwapRefused
            \/ SwapKeeps \/ SwapInstalls \/ SwapPutsBack \/ SwapResets \/ SwapReplaces
            \/ SwapRestarts
  <2>1. UNCHANGED <<source, inst, stop>> /\ \A r \in Requests : at'[r] = at[r]
    BY <1>10
       DEF SwapBegins, SwapGivesUp, SwapLocks, SwapQuiets, SwapAlone, SwapRefused, SwapKeeps,
           SwapInstalls, SwapPutsBack, SwapResets, SwapReplaces, SwapRestarts, Unwound, Moves
  <2>2. \/ swap \in {"off", "draining"} /\ swap' \in {"off", "draining"}
        \/ /\ swap \in (Draining \ {"draining"}) \cup {"replacing", "restarting"}
           /\ swap' \in (Draining \ {"draining"}) \cup {"replacing", "restarting", "starting"}
    BY <1>10
       DEF SwapBegins, SwapGivesUp, SwapLocks, SwapQuiets, SwapAlone, SwapRefused, SwapKeeps,
           SwapInstalls, SwapPutsBack, SwapResets, SwapReplaces, SwapRestarts, Unwound, Moves
  <2> QED BY <2>1, <2>2
<1>11. CASE StopBegins
  BY <1>11 DEF StopBegins, StopsSource
<1>12. CASE StopStep
  BY <1>12 DEF StopStep, StopCloses, StopCutOff
<1>13. CASE Crash
  BY <1>13 DEF Crash, AtStart, Only
<1> QED
  BY <1>1, <1>2, <1>3, <1>4, <1>5, <1>6, <1>7, <1>8, <1>9, <1>10, <1>11, <1>12, <1>13
     DEF Next, SwitchStep, SwapStep

\* With one request at a time to switch the source, what feeds the recorder is
\* always the source the service can stop, and telemetry runs again after
\* every way out of a restore.
THEOREM OneSource ==
    ASSUME \A r, s \in Switchers : r = s
    PROVE  Spec => []OneProducer
<1>1. IInv /\ SourceInv /\ [Next]_vars => SourceInv' BY SourceInvKept
<1>2. IInv /\ SourceInv => OneProducer
  BY TasksAssumption
     DEF SourceInv, SourceFollows, OneProducer, Producing, Switching, IInv, TypeOK, ControlOK,
         Draining, Phases
<1> QED BY <1>1, <1>2, SourceInvHolds, Invariant, PTL DEF Spec
=============================================================================
