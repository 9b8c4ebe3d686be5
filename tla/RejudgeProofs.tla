----------------------------- MODULE RejudgeProofs -----------------------------
(***************************************************************************)
(* For any circuits, bundles, laps, sessions, faults and restores: when     *)
(* nothing is queued and nobody judges, a lap that has not the verdict of   *)
(* its circuit's bundle is one the history accounts for, and a pass that    *)
(* ends with nothing else in store has put right all the laps it listed.    *)
(***************************************************************************)
EXTENDS Rejudge, SequenceTheorems, TLAPS

Verdicts == Roads \cup {Unknown}
Rows     == [session : Nat \ {0}, verdict : Verdicts]
Listings == [n : Nat, verdict : Verdicts]
Places   == {"no", "saving", "naming", "labelling", "asking", "listing", "rows"}

\* The types.
DiskOK ==
    /\ bundle \in [Circuits -> Verdicts]
    /\ label \in Seq(Circuits \cup {None}) /\ label # <<>>
    /\ rows \in Seq(Rows)
    /\ \A n \in DOMAIN rows : rows[n].session \in DOMAIN label
JudgeOK ==
    /\ due \in [Circuits -> {"no", "settling", "ready"}]
    /\ lock \in {None, "restore"} \cup Runners
    /\ pc \in [Runners -> {"none", "loop", "lock", "judge", "list", "rows"}]
    /\ job \in [Runners -> Circuits \cup {None}]
    /\ killed \in BOOLEAN
PassOK ==
    /\ DOMAIN pass = {"road", "rows", "all", "old"}
    /\ pass = [road |-> pass.road, rows |-> pass.rows, all |-> pass.all, old |-> pass.old]
    /\ pass.road \in Verdicts /\ pass.rows \subseteq Listings
LiveOK ==
    /\ live = [at |-> live.at, name |-> live.name, road |-> live.road, rows |-> live.rows]
    /\ live.at \in Places
    /\ live.name \in Circuits \cup {None}
    /\ live.at = "labelling" => live.name \in Circuits
    /\ live.road \in Verdicts /\ live.rows \subseteq Listings
OthersOK ==
    /\ track \in Circuits \cup {None} /\ untold \in Circuits \cup {None}
    /\ restore \in {"no", "pausing", "flushing", "stopping", "swapping", "done"}
    /\ search = [todo |-> search.todo, named |-> search.named]
    /\ search.todo \subseteq DOMAIN label

Shape == DiskOK /\ JudgeOK /\ PassOK /\ LiveOK /\ OthersOK

\* A runner has a circuit from run_now to its end, and the lock from the start
\* of the pass; the restore has it while it swaps.
Posts ==
    /\ \A r \in Runners : job[r] = None <=> pc[r] \in {"none", "loop"}
    /\ \A r \in Runners : lock = r <=> pc[r] \in {"judge", "list", "rows"}
    /\ pc["manual"] # "loop"
    /\ restore = "swapping" <=> lock = "restore"
    /\ lock \notin Runners => pass = NoPass

\* While a restore pauses, stops and swaps, no request is about, and from the
\* pause's end no lap either.
Alone ==
    /\ killed => restore = "stopping" /\ pc["worker"] # "none"
    /\ restore \in {"pausing", "flushing", "stopping", "swapping"} =>
          untold = None /\ search = NoSearch /\ pc["manual"] = "none"
    /\ restore \in {"stopping", "swapping"} => live = Driving

\* The lists are of laps there are, the backfill's of the session being driven.
Lists ==
    /\ live.at \in {"labelling", "asking", "listing", "rows"} => track # None
    /\ live.at # "rows" => live.rows = {}
    /\ \A row \in live.rows : row.n \in LapsOf(Now)
    /\ \A row \in pass.rows : row.n \in DOMAIN rows
    /\ late \subseteq DOMAIN rows

CircuitOf(n) == label[rows[n].session]
Stained(n)   == CircuitOf(n) # None /\ rows[n].verdict # bundle[CircuitOf(n)]

\* On a list, and to be given another verdict than it had then.
Corrects(listed, n, road) == \E row \in listed : row.n = n /\ row.verdict # road

\* Who sees to the lap n: a pass that is asked for, one that has not read the
\* bundle, one that read it as it is and has the lap before it; the recorder; or
\* the request that named its session, and is to ask for a pass.
Wanted(c) == due[c] # "no" \/ untold = c
Begins(r, c) == job[r] = c /\ pc[r] \in {"lock", "judge"}
Fixes(r, n) ==
    /\ job[r] = CircuitOf(n) /\ pass.road = bundle[CircuitOf(n)]
    /\ \/ pc[r] = "list"
       \/ pc[r] = "rows" /\ Corrects(pass.rows, n, pass.road)
Backfills(n) ==
    /\ rows[n].session = Now
    /\ \/ live.at = "asking"
       \/ live.at = "listing" /\ live.road = bundle[CircuitOf(n)]
       \/ live.at = "rows" /\ live.road = bundle[CircuitOf(n)]
             /\ Corrects(live.rows, n, live.road)
Named(n) == <<rows[n].session, CircuitOf(n)>> \in search.named
Minded(n) ==
    \/ n \in late
    \/ Wanted(CircuitOf(n)) \/ Named(n)
    \/ \E r \in Runners : Begins(r, CircuitOf(n)) \/ Fixes(r, n)
    \/ Backfills(n)

\* A pass over the lap's circuit has the lap behind it or before it.
Passed(n) == \E r \in Runners : pc[r] = "rows" /\ job[r] = CircuitOf(n) /\ n \in pass.all
Excused(n) == ~Passed(n) /\ (CircuitOf(n) \in cut \/ restore = "done")

\* Nobody forgets a lap whose verdict is not its bundle's.
Minds == \A n \in DOMAIN rows : Stained(n) => Minded(n) \/ Excused(n)

\* A pass by a bundle that has been replaced is followed by another.
Outdated ==
    \A r \in Runners :
        pc[r] \in {"list", "rows"} /\ pass.road # bundle[job[r]] =>
            Wanted(job[r]) \/ \E q \in Runners \ {r} : job[q] = job[r] /\ pc[q] = "lock"

\* What was left behind before the pass has its verdict, or is before it.
Redone ==
    \A r \in Runners : pc[r] = "rows" =>
        \A n \in pass.old :
            /\ n \in DOMAIN rows /\ rows[n].session # Now
            /\ rows[n].verdict = pass.road \/ Corrects(pass.rows, n, pass.road)

IInv == Shape /\ Posts /\ Alone /\ Lists /\ Minds /\ Outdated /\ Redone
-----------------------------------------------------------------------------
(* The disk.                                                               *)

LEMMA NowIsThere ==
    ASSUME DiskOK
    PROVE  /\ Len(label) \in Nat \ {0} /\ DOMAIN label = 1 .. Len(label) /\ Now \in DOMAIN label
           /\ \A s \in DOMAIN label : label[s] \in Circuits \cup {None}
           /\ DOMAIN rows = 1 .. Len(rows) /\ Len(rows) \in Nat
           /\ \A n \in DOMAIN rows : /\ rows[n] \in Rows /\ n \in Nat
                                     /\ CircuitOf(n) \in Circuits \cup {None}
<1>1. Len(label) \in Nat \ {0} BY EmptySeq DEF DiskOK
<1>2. /\ DOMAIN label = 1 .. Len(label) /\ label \in [1 .. Len(label) -> Circuits \cup {None}]
      /\ DOMAIN rows = 1 .. Len(rows) /\ Len(rows) \in Nat /\ rows \in [1 .. Len(rows) -> Rows]
  BY LenProperties DEF DiskOK
<1> QED BY <1>1, <1>2 DEF DiskOK, Now, CircuitOf

LEMMA AllStaleIs ==
    AllStale = {n \in DOMAIN rows : Stained(n)}
BY DEF AllStale, Stale, Stained, CircuitOf

\* A row is judged: another verdict for it, and nothing else.
LEMMA RowJudged ==
    ASSUME DiskOK, NEW row \in Listings, row.n \in DOMAIN rows, NEW road \in Verdicts,
           rows' = JudgedRow(row, road)
    PROVE  /\ rows' \in Seq(Rows) /\ DOMAIN rows' = DOMAIN rows
           /\ \A n \in DOMAIN rows : /\ rows'[n].session = rows[n].session
                                     /\ n # row.n => rows'[n] = rows[n]
           /\ row.verdict # road => rows'[row.n].verdict = road
           /\ row.verdict = road => rows' = rows
<1>1. CASE row.verdict = road BY <1>1 DEF JudgedRow, DiskOK
<1>2. CASE row.verdict # road
  <2> DEFINE r == [rows[row.n] EXCEPT !.verdict = road]
  <2>1. r \in Rows /\ r.session = rows[row.n].session /\ r.verdict = road
    BY NowIsThere DEF Rows
  <2>2. rows' = [rows EXCEPT ![row.n] = r] BY <1>2 DEF JudgedRow
  <2> HIDE DEF r
  <2>3. row.n \in 1 .. Len(rows) BY NowIsThere
  <2>4. /\ rows' \in Seq(Rows) /\ Len(rows') = Len(rows)
        /\ \A j \in 1 .. Len(rows) : rows'[j] = IF j = row.n THEN r ELSE rows[j]
    BY <2>1, <2>2, <2>3, ExceptSeq DEF DiskOK
  <2>5. DOMAIN rows' = DOMAIN rows BY <2>2
  <2> QED BY <1>2, <2>1, <2>4, <2>5, NowIsThere
<1> QED BY <1>1, <1>2

\* A row or a session is added.
LEMMA Appended ==
    ASSUME NEW S, NEW q \in Seq(S), NEW x \in S
    PROVE  /\ Append(q, x) \in Seq(S) /\ Append(q, x) # <<>>
           /\ Len(Append(q, x)) = Len(q) + 1
           /\ DOMAIN Append(q, x) = DOMAIN q \cup {Len(q) + 1}
           /\ \A i \in DOMAIN q : Append(q, x)[i] = q[i]
           /\ Append(q, x)[Len(q) + 1] = x
<1> DEFINE z == Append(q, x)
<1>1. /\ z \in Seq(S) /\ Len(z) = Len(q) + 1 /\ z[Len(q) + 1] = x
      /\ \A i \in 1 .. Len(q) : z[i] = q[i]
  BY AppendProperties
<1> HIDE DEF z
<1>2. Len(q) \in Nat /\ DOMAIN q = 1 .. Len(q) BY LenProperties
<1>3. DOMAIN z = 1 .. Len(q) + 1 BY <1>1, LenProperties
<1>4. DOMAIN z = DOMAIN q \cup {Len(q) + 1} BY <1>2, <1>3
<1>5. z # <<>> BY <1>1, <1>2, EmptySeq
<1> QED BY <1>1, <1>2, <1>4, <1>5 DEF z

LEMMA ListedAre ==
    ASSUME DiskOK, NEW laps, laps \subseteq DOMAIN rows
    PROVE  /\ Listed(laps) \subseteq Listings
           /\ \A row \in Listed(laps) : row.n \in laps /\ row.verdict = rows[row.n].verdict
           /\ \A n \in laps : \E row \in Listed(laps) : row.n = n
<1>1. ASSUME NEW n \in laps
      PROVE  [n |-> n, verdict |-> rows[n].verdict] \in Listings
  BY NowIsThere DEF Rows, Listings
<1>2. Listed(laps) \subseteq Listings BY <1>1 DEF Listed
<1>3. ASSUME NEW row \in Listed(laps)
      PROVE  row.n \in laps /\ row.verdict = rows[row.n].verdict
  <2>1. PICK n \in laps : row = [n |-> n, verdict |-> rows[n].verdict] BY DEF Listed
  <2> QED BY <2>1
<1>4. ASSUME NEW n \in laps PROVE \E row \in Listed(laps) : row.n = n
  <2>1. [n |-> n, verdict |-> rows[n].verdict] \in Listed(laps) BY DEF Listed
  <2>2. [n |-> n, verdict |-> rows[n].verdict].n = n OBVIOUS
  <2> QED BY <2>1, <2>2
<1> QED BY <1>2, <1>3, <1>4
-----------------------------------------------------------------------------
(* The types.                                                              *)

\* A request looks for circuits, and names none.
Looks == SearchBegins \/ SearchSkips \/ SearchFails

\* The sets of steps that the proofs speak of.
LEMMA NextIs ==
    ASSUME [Next]_vars
    PROVE  \/ SurveySaved \/ BundleEdited \/ Edited \/ Looks \/ SearchNames \/ SearchEnds
           \/ CircuitNamed
           \/ \E c \in Circuits : Settled(c)
           \/ \E r \in Runners : \/ Locks(r) \/ PassReads(r) \/ PassLists(r) \/ PassJudges(r)
                                 \/ PassEnds(r) \/ PassFails(r)
           \/ Recheck \/ WorkerTakes \/ WorkerEnds \/ Unwinds
           \/ LapJudged \/ LapSaved \/ TrackIdentified \/ TrackLabelled \/ BackfillReads
           \/ BackfillLists
           \/ BackfillJudges \/ BackfillEnds \/ NewSession
           \/ RecorderCut \/ RestorePauses \/ RestoreStops \/ RestoreStopped \/ Swapped
           \/ Refused \/ RestoreTells \/ Restarted
           \/ UNCHANGED vars
BY DEF Next, Looks, Passes, Works, Records, Restores, Searches

LEMMA KickedIs ==
    ASSUME JudgeOK, pc' = Kicked
    PROVE  /\ pc' \in [Runners -> {"none", "loop", "lock", "judge", "list", "rows"}]
           /\ pc'["manual"] = pc["manual"]
           /\ pc'["worker"] = IF pc["worker"] = "none" THEN "loop" ELSE pc["worker"]
BY DEF Kicked, JudgeOK, Runners

\* Where the disk changes, and how.
LEMMA DiskKept ==
    ASSUME IInv, [Next]_vars
    PROVE  DiskOK'
<1> USE DEF IInv, Shape
<1> DEFINE Names == Circuits \cup {None}
<1>1. CASE UNCHANGED disk BY <1>1 DEF DiskOK, disk
<1>2. ASSUME NEW c \in Circuits, Replaced(c), UNCHANGED <<label, rows>> PROVE DiskOK'
  BY <1>2 DEF Replaced, DiskOK, Verdicts
<1>3. ASSUME NEW row \in Listings, row.n \in DOMAIN rows, NEW road \in Verdicts,
             rows' = JudgedRow(row, road), UNCHANGED <<bundle, label>>
      PROVE  DiskOK'
  <2>1. /\ rows' \in Seq(Rows) /\ DOMAIN rows' = DOMAIN rows
        /\ \A n \in DOMAIN rows : rows'[n].session = rows[n].session
    BY <1>3, RowJudged
  <2> QED BY <1>3, <2>1 DEF DiskOK
<1>4. ASSUME NEW s \in DOMAIN label, NEW c \in Circuits, label' = [label EXCEPT ![s] = c],
             UNCHANGED <<bundle, rows>>
      PROVE  DiskOK'
  <2>1. s \in 1 .. Len(label) /\ c \in Names BY <1>4, NowIsThere
  <2>2. label' \in Seq(Names) /\ Len(label') = Len(label)
    BY <1>4, <2>1, ExceptSeq DEF DiskOK
  <2>3. label' # <<>> /\ DOMAIN label' = DOMAIN label BY <1>4 DEF DiskOK
  <2> QED BY <1>4, <2>2, <2>3 DEF DiskOK
<1>5. ASSUME label' = Append(label, None), UNCHANGED <<bundle, rows>> PROVE DiskOK'
  <2>1. None \in Names OBVIOUS
  <2>2. label' \in Seq(Names) /\ label' # <<>> /\ DOMAIN label \subseteq DOMAIN label'
    BY <1>5, <2>1, Appended DEF DiskOK
  <2> QED BY <1>5, <2>2 DEF DiskOK
<1>6. CASE LapSaved
  <2> DEFINE x == [session |-> Now, verdict |-> live.road]
  <2>1. x \in Rows /\ x.session = Now BY NowIsThere DEF Rows, LiveOK, Now
  <2>2. rows' = Append(rows, x) /\ UNCHANGED <<bundle, label>> BY <1>6 DEF LapSaved
  <2> HIDE DEF x
  <2>3. /\ rows' \in Seq(Rows) /\ DOMAIN rows' = DOMAIN rows \cup {Len(rows) + 1}
        /\ \A i \in DOMAIN rows : rows'[i] = rows[i]
        /\ rows'[Len(rows) + 1] = x
    BY <2>1, <2>2, Appended DEF DiskOK
  <2> QED BY <2>1, <2>2, <2>3, NowIsThere DEF DiskOK
<1>7. CASE Swapped
  <2>1. PICK c \in Circuits, v \in Roads \cup {Unknown} :
          label' = <<c, None>> /\ rows' = <<[session |-> 1, verdict |-> v]>>
    BY <1>7 DEF Swapped
  <2>2. label' \in Seq(Names) /\ label' # <<>> /\ DOMAIN label' = {1, 2} BY <2>1
  <2>3. [session |-> 1, verdict |-> v] \in Rows BY DEF Rows, Verdicts
  <2>4. rows' \in Seq(Rows) /\ DOMAIN rows' = {1} /\ rows'[1].session = 1 BY <2>1, <2>3
  <2>5. UNCHANGED bundle BY <1>7 DEF Swapped
  <2> QED BY <2>2, <2>4, <2>5 DEF DiskOK
<1>8. CASE SurveySaved \/ BundleEdited BY <1>2, <1>8 DEF SurveySaved, BundleEdited
<1>9. ASSUME NEW r \in Runners, PassJudges(r) PROVE DiskOK'
  <2>1. PICK row \in Newest(pass.rows) : rows' = JudgedRow(row, pass.road)
    BY <1>9 DEF PassJudges
  <2>2. row \in Listings /\ row.n \in DOMAIN rows BY DEF Newest, PassOK, Lists
  <2>3. pass.road \in Verdicts BY DEF PassOK
  <2> QED BY <1>3, <1>9, <2>1, <2>2, <2>3 DEF PassJudges
<1>10. CASE BackfillJudges
  <2>1. PICK row \in Newest(live.rows) : rows' = JudgedRow(row, live.road)
    BY <1>10 DEF BackfillJudges
  <2>2. row \in Listings /\ row.n \in DOMAIN rows BY DEF Newest, LiveOK, Lists, LapsOf
  <2>3. live.road \in Verdicts BY DEF LiveOK
  <2> QED BY <1>3, <1>10, <2>1, <2>2, <2>3 DEF BackfillJudges
<1>11. CASE TrackLabelled BY <1>4, <1>11, NowIsThere DEF TrackLabelled, LiveOK
<1>12. CASE SearchNames
  <2>1. PICK s \in search.todo, c \in Circuits : label' = [label EXCEPT ![s] = c]
    BY <1>12 DEF SearchNames
  <2>2. s \in DOMAIN label BY DEF OthersOK
  <2> QED BY <1>4, <1>12, <2>1, <2>2 DEF SearchNames
<1>13. CASE CircuitNamed BY <1>4, <1>13 DEF CircuitNamed, DiskOK
<1>14. CASE NewSession \/ Restarted BY <1>5, <1>14 DEF NewSession, Restarted
<1>15. ASSUME NEW r \in Runners,
              \/ Locks(r) \/ PassReads(r) \/ PassLists(r) \/ PassEnds(r) \/ PassFails(r)
       PROVE  UNCHANGED disk
  BY <1>15 DEF Locks, PassReads, PassLists, PassEnds, PassFails, disk
<1>16. CASE \/ Edited \/ Looks \/ SearchEnds
            \/ Recheck \/ WorkerTakes \/ WorkerEnds \/ Unwinds \/ LapJudged \/ TrackIdentified
            \/ BackfillReads \/ BackfillLists \/ BackfillEnds \/ RecorderCut \/ RestorePauses
            \/ RestoreStops \/ RestoreStopped \/ Refused \/ RestoreTells
            \/ (\E c \in Circuits : Settled(c)) \/ UNCHANGED vars
  <2>1. UNCHANGED disk
    BY <1>16
       DEF Edited, Looks, SearchBegins, SearchSkips, SearchFails, SearchEnds, Recheck,
           WorkerTakes, WorkerEnds, Unwinds, LapJudged, TrackIdentified, BackfillReads,
           BackfillLists, BackfillEnds, RecorderCut, RestorePauses, RestoreStops, RestoreStopped,
           Refused, RestoreTells, Settled, vars, disk
  <2> QED BY <1>1, <2>1
<1> QED
  BY <1>1, <1>6, <1>7, <1>8, <1>9, <1>10, <1>11, <1>12, <1>13, <1>14, <1>15, <1>16, NextIs

\* Who goes, and lets go of the lock.
LEMMA LetsGoIs ==
    ASSUME JudgeOK, PassOK, NEW r \in Runners, NEW to \in {"none", "loop"}, LetsGo(r, to)
    PROVE  /\ pc' = [pc EXCEPT ![r] = to] /\ job' = [job EXCEPT ![r] = None]
           /\ lock = r => lock' = None /\ pass' = NoPass
           /\ lock # r => UNCHANGED <<lock, pass>>
           /\ lock' \in {lock, None}
BY DEF LetsGo, Goes

LEMMA NoPassIs ==
    /\ NoPass.road = Unknown /\ NoPass.rows = {} /\ NoPass.all = {} /\ NoPass.old = {}
    /\ Driving.at = "no" /\ Driving.name = None /\ Driving.road = Unknown /\ Driving.rows = {}
    /\ Unknown \in Verdicts
BY DEF NoPass, Driving, Verdicts

LEMMA JudgeKept ==
    ASSUME IInv, [Next]_vars
    PROVE  JudgeOK'
<1> USE DEF IInv, Shape, JudgeOK, Runners
<1>1. CASE SurveySaved \/ Edited \/ SearchEnds \/ RestoreTells
  <2>1. pc' = Kicked /\ UNCHANGED <<lock, job, killed>>
    BY <1>1 DEF SurveySaved, Edited, SearchEnds, RestoreTells
  <2>2. due' \in [Circuits -> {"no", "settling", "ready"}]
    BY <1>1 DEF SurveySaved, Edited, SearchEnds, RestoreTells, OthersOK
  <2> QED BY <2>1, <2>2, KickedIs
<1>2. CASE Recheck \/ WorkerTakes BY <1>2 DEF Recheck, WorkerTakes, RunsNow, Goes
<1>3. CASE WorkerEnds BY <1>3 DEF WorkerEnds, Goes
<1>4. CASE Unwinds
  <2>1. LetsGo("worker", "none") /\ killed' = FALSE /\ UNCHANGED due BY <1>4 DEF Unwinds
  <2> QED BY <2>1, LetsGoIs
<1>5. ASSUME NEW r \in Runners, PassEnds(r) \/ PassFails(r) PROVE JudgeOK'
  <2>1. \E to \in {"none", "loop"} : LetsGo(r, to)
    BY <1>5 DEF PassEnds, PassFails, Returned, Recovered
  <2>2. UNCHANGED <<due, killed>> BY <1>5 DEF PassEnds, PassFails
  <2> QED BY <2>1, <2>2, LetsGoIs
<1>6. ASSUME NEW r \in Runners, Locks(r) \/ PassReads(r) \/ PassLists(r) \/ PassJudges(r)
      PROVE  JudgeOK'
  BY <1>6 DEF Locks, PassReads, PassLists, PassJudges, Goes
<1>7. ASSUME NEW c \in Circuits, Settled(c) PROVE JudgeOK' BY <1>7 DEF Settled
<1>8. CASE RestoreStops BY <1>8 DEF RestoreStops
<1>9. CASE RestoreStopped \/ Swapped \/ Refused BY <1>9 DEF RestoreStopped, Swapped, Refused
<1>10. CASE Restarted BY <1>10 DEF Restarted
<1>11. CASE \/ BundleEdited \/ Looks \/ SearchNames \/ CircuitNamed \/ LapJudged \/ LapSaved
            \/ TrackIdentified \/ TrackLabelled \/ BackfillReads \/ BackfillLists \/ BackfillJudges
            \/ BackfillEnds \/ NewSession \/ RecorderCut \/ RestorePauses \/ UNCHANGED vars
  <2>1. UNCHANGED judge
    BY <1>11
       DEF BundleEdited, Looks, SearchBegins, SearchSkips, SearchFails, SearchNames, CircuitNamed,
           LapJudged, LapSaved, TrackIdentified, TrackLabelled, BackfillReads, BackfillLists,
           BackfillJudges, BackfillEnds, NewSession, RecorderCut, RestorePauses, vars
  <2> QED BY <2>1 DEF judge
<1> QED
  BY <1>1, <1>2, <1>3, <1>4, <1>5, <1>6, <1>7, <1>8, <1>9, <1>10, <1>11, NextIs

\* The pass is its holder's alone.
LEMMA PassKept ==
    ASSUME IInv, [Next]_vars
    PROVE  PassOK'
<1> USE DEF IInv, Shape, PassOK
<1>1. NoPass.road \in Verdicts /\ NoPass.rows \subseteq Listings BY NoPassIs
<1>2. ASSUME pass' = NoPass PROVE PassOK' BY <1>1, <1>2 DEF NoPass
<1>3. ASSUME NEW r \in Runners, PassReads(r) PROVE PassOK'
  <2>1. job[r] \in Circuits BY <1>3 DEF PassReads, At, Posts, JudgeOK
  <2>2. bundle[job[r]] \in Verdicts BY <2>1 DEF DiskOK
  <2>3. pass' = [road |-> bundle[job[r]], rows |-> {}, all |-> {}, old |-> {}]
    BY <1>3 DEF PassReads, NoPass
  <2> QED BY <2>2, <2>3
<1>4. ASSUME NEW r \in Runners, PassLists(r) PROVE PassOK'
  <2>1. Covered(job[r]) \subseteq DOMAIN rows BY DEF Covered, LapsOn
  <2>2. Listed(Covered(job[r])) \subseteq Listings BY <2>1, ListedAre
  <2>3. pass' = [road |-> pass.road, rows |-> Listed(Covered(job[r])),
                 all |-> pass'.all, old |-> pass'.old]
    BY <1>4 DEF PassLists
  <2> QED BY <2>2, <2>3
<1>5. ASSUME NEW r \in Runners, PassJudges(r) PROVE PassOK'
  <2>1. \E row \in Newest(pass.rows) : pass' = [pass EXCEPT !.rows = pass.rows \ {row}]
    BY <1>5 DEF PassJudges
  <2>2. /\ pass'.road = pass.road /\ pass'.rows \subseteq pass.rows
        /\ pass' = [road |-> pass'.road, rows |-> pass'.rows, all |-> pass'.all,
                    old |-> pass'.old]
    BY <2>1
  <2> QED BY <2>2
<1>6. ASSUME NEW r \in Runners, PassEnds(r) \/ PassFails(r) PROVE PassOK'
  <2>1. \E to \in {"none", "loop"} : LetsGo(r, to)
    BY <1>6 DEF PassEnds, PassFails, Returned, Recovered
  <2>2. pass' = NoPass \/ UNCHANGED pass BY <2>1, LetsGoIs
  <2> QED BY <1>2, <2>2
<1>7. CASE Unwinds
  <2>1. LetsGo("worker", "none") /\ "worker" \in Runners BY <1>7 DEF Unwinds, Runners
  <2>2. pass' = NoPass \/ UNCHANGED pass BY <2>1, LetsGoIs
  <2> QED BY <1>2, <2>2
<1>8. CASE Restarted BY <1>2, <1>8 DEF Restarted
<1>9. ASSUME \/ SurveySaved \/ BundleEdited \/ Edited \/ Looks \/ SearchNames \/ SearchEnds
             \/ CircuitNamed
             \/ (\E c \in Circuits : Settled(c))
             \/ (\E r \in Runners : Locks(r))
             \/ Recheck \/ WorkerTakes \/ WorkerEnds
             \/ LapJudged \/ LapSaved \/ TrackIdentified \/ TrackLabelled \/ BackfillReads
             \/ BackfillLists
             \/ BackfillJudges \/ BackfillEnds \/ NewSession
             \/ RecorderCut \/ RestorePauses \/ RestoreStops \/ RestoreStopped \/ Swapped
             \/ Refused \/ RestoreTells
             \/ UNCHANGED vars
      PROVE  UNCHANGED pass
  BY <1>9
     DEF SurveySaved, BundleEdited, Edited, Looks, SearchBegins, SearchSkips, SearchFails,
         SearchNames, SearchEnds, CircuitNamed, Settled, Locks, Recheck, WorkerTakes, WorkerEnds,
         LapJudged, LapSaved, TrackIdentified, TrackLabelled, BackfillReads, BackfillLists,
         BackfillJudges, BackfillEnds, NewSession, RecorderCut, RestorePauses, RestoreStops,
         RestoreStopped, Swapped, Refused, RestoreTells, vars, judge
<1> QED BY <1>3, <1>4, <1>5, <1>6, <1>7, <1>8, <1>9, NextIs

LEMMA LiveKept ==
    ASSUME IInv, [Next]_vars
    PROVE  LiveOK'
<1> USE DEF IInv, Shape, LiveOK
<1>1. ASSUME live' = Driving PROVE LiveOK' BY <1>1, NoPassIs DEF Driving, Places
<1>2. ASSUME NEW place \in Places, NEW name \in Circuits \cup {None},
             place = "labelling" => name \in Circuits,
             NEW road \in Verdicts, NEW listed \in SUBSET Listings,
             live' = [at |-> place, name |-> name, road |-> road, rows |-> listed]
      PROVE  LiveOK'
  BY <1>2
<1>3. CASE LapJudged
  <2> DEFINE road == IF track = None THEN Unknown ELSE bundle[track]
  <2>1. road \in Verdicts BY NoPassIs DEF DiskOK, OthersOK
  <2>2. live' = [at |-> "saving", name |-> None, road |-> road, rows |-> {}]
    BY <1>3 DEF LapJudged, Driving
  <2> HIDE DEF road
  <2> QED BY <1>2, <2>1, <2>2 DEF Places
<1>4. CASE LapSaved
  <2>1. live' = Driving \/ live' = [Driving EXCEPT !.at = "naming"] BY <1>4 DEF LapSaved
  <2>2. [Driving EXCEPT !.at = "naming"]
          = [at |-> "naming", name |-> None, road |-> Unknown, rows |-> {}]
    BY DEF Driving
  <2> QED BY <1>1, <1>2, <2>1, <2>2, NoPassIs DEF Places
<1>5. CASE TrackIdentified
  <2>1. PICK c \in Circuits :
          live' = [at |-> "labelling", name |-> c, road |-> live.road, rows |-> live.rows]
    BY <1>5 DEF TrackIdentified
  <2> QED BY <1>2, <2>1 DEF Places
<1>5a. CASE TrackLabelled
  <2>1. [Driving EXCEPT !.at = "asking"]
          = [at |-> "asking", name |-> None, road |-> Unknown, rows |-> {}]
    BY DEF Driving
  <2> QED BY <1>2, <1>5a, <2>1, NoPassIs DEF TrackLabelled, Places
<1>6. CASE BackfillReads
  <2>1. track \in Circuits BY <1>6 DEF BackfillReads, Lists, OthersOK
  <2>2. bundle[track] \in Verdicts BY <2>1 DEF DiskOK
  <2>3. \/ live' = Driving
        \/ live' = [at |-> "listing", name |-> live.name, road |-> bundle[track],
                     rows |-> live.rows]
    BY <1>6 DEF BackfillReads
  <2> QED BY <1>1, <1>2, <2>2, <2>3 DEF Places
<1>7. CASE BackfillLists
  <2>1. LapsOf(Now) \subseteq DOMAIN rows BY DEF LapsOf
  <2>2. Listed(LapsOf(Now)) \in SUBSET Listings BY <2>1, ListedAre
  <2>3. live' = [at |-> "rows", name |-> live.name, road |-> live.road,
                 rows |-> Listed(LapsOf(Now))]
    BY <1>7 DEF BackfillLists
  <2> QED BY <1>2, <2>2, <2>3 DEF Places
<1>8. CASE BackfillJudges
  <2>1. PICK row \in Newest(live.rows) : live' = [live EXCEPT !.rows = live.rows \ {row}]
    BY <1>8 DEF BackfillJudges
  <2>2. live' = [at |-> live.at, name |-> live.name, road |-> live.road,
                 rows |-> live.rows \ {row}]
    BY <2>1
  <2> QED BY <1>2, <2>2
<1>9. CASE BackfillEnds \/ RecorderCut \/ RestorePauses \/ Restarted
  BY <1>1, <1>9 DEF BackfillEnds, RecorderCut, RestorePauses, Restarted
<1>10. ASSUME \/ SurveySaved \/ BundleEdited \/ Edited \/ Looks \/ SearchNames \/ SearchEnds
              \/ CircuitNamed
              \/ (\E c \in Circuits : Settled(c))
              \/ (\E r \in Runners : \/ Locks(r) \/ PassReads(r) \/ PassLists(r) \/ PassJudges(r)
                                     \/ PassEnds(r) \/ PassFails(r))
              \/ Recheck \/ WorkerTakes \/ WorkerEnds \/ Unwinds \/ NewSession
              \/ RestoreStops \/ RestoreStopped \/ Swapped \/ Refused \/ RestoreTells
              \/ UNCHANGED vars
       PROVE  UNCHANGED live
  BY <1>10
     DEF SurveySaved, BundleEdited, Edited, Looks, SearchBegins, SearchSkips, SearchFails,
         SearchNames, SearchEnds, CircuitNamed, Settled, Locks, PassReads, PassLists, PassJudges,
         PassEnds, PassFails, Recheck, WorkerTakes, WorkerEnds, Unwinds, NewSession, RestoreStops,
         RestoreStopped, Swapped, Refused, RestoreTells, vars, others
<1> QED BY <1>3, <1>4, <1>5, <1>6, <1>7, <1>8, <1>9, <1>10, <1>5a, NextIs

\* A session is the last one until the recorder is done with its lap.
LEMMA NowStays ==
    ASSUME IInv, [Next]_vars, ~Swapped
    PROVE  /\ \/ Now' = Now
              \/ Now' = Now + 1 /\ live' = Driving /\ (live # Driving => Restarted)
           /\ DOMAIN label \subseteq DOMAIN label'
           /\ \A s \in DOMAIN label : label[s] # None => label'[s] # None
           /\ DOMAIN label' = 1 .. Now' /\ Now' \in Nat \ {0}
<1> USE NoneAssumption DEF IInv, Shape
<1>1. DiskOK' BY DiskKept
<1>2. DOMAIN label' = 1 .. Now' /\ Now' \in Nat \ {0}
  <2>1. Len(label') \in Nat \ {0} BY <1>1, EmptySeq DEF DiskOK
  <2>2. DOMAIN label' = 1 .. Len(label') BY <1>1, LenProperties DEF DiskOK
  <2> QED BY <2>1, <2>2 DEF Now
<1>3. ASSUME NEW s \in DOMAIN label, NEW c \in Circuits, label' = [label EXCEPT ![s] = c]
      PROVE  /\ Now' = Now /\ DOMAIN label \subseteq DOMAIN label'
             /\ \A t \in DOMAIN label : label[t] # None => label'[t] # None
  <2>1. Len(label') = Len(label)
    <3>1. s \in 1 .. Len(label) /\ c \in Circuits \cup {None} BY NowIsThere
    <3> QED BY <1>3, <3>1, ExceptSeq DEF DiskOK
  <2> QED BY <1>3, <2>1 DEF Now
<1>4. ASSUME label' = Append(label, None)
      PROVE  /\ Now' = Now + 1 /\ DOMAIN label \subseteq DOMAIN label'
             /\ \A t \in DOMAIN label : label'[t] = label[t]
  <2>1. None \in Circuits \cup {None} OBVIOUS
  <2>2. /\ Len(label') = Len(label) + 1 /\ DOMAIN label \subseteq DOMAIN label'
        /\ \A t \in DOMAIN label : label'[t] = label[t]
    BY <1>4, <2>1, Appended DEF DiskOK
  <2> QED BY <2>2 DEF Now
<1>5. CASE TrackLabelled BY <1>2, <1>3, <1>5, NowIsThere DEF TrackLabelled, LiveOK
<1>6. CASE SearchNames
  <2>1. PICK s \in search.todo, c \in Circuits : label' = [label EXCEPT ![s] = c]
    BY <1>6 DEF SearchNames
  <2>2. s \in DOMAIN label BY DEF OthersOK
  <2> QED BY <1>2, <1>3, <2>1, <2>2
<1>7. CASE CircuitNamed BY <1>2, <1>3, <1>7 DEF CircuitNamed, DiskOK
<1>8. CASE NewSession
  <2>1. live = Driving /\ live' = Driving /\ label' = Append(label, None)
    BY <1>8 DEF NewSession, others
  <2> QED BY <1>2, <1>4, <2>1
<1>9. CASE Restarted
  <2>1. live' = Driving /\ label' = Append(label, None) BY <1>9 DEF Restarted
  <2> QED BY <1>2, <1>4, <1>9, <2>1
<1>10. ASSUME \/ SurveySaved \/ BundleEdited \/ Edited \/ Looks \/ SearchEnds
              \/ (\E c \in Circuits : Settled(c))
              \/ (\E r \in Runners : \/ Locks(r) \/ PassReads(r) \/ PassLists(r) \/ PassJudges(r)
                                     \/ PassEnds(r) \/ PassFails(r))
              \/ Recheck \/ WorkerTakes \/ WorkerEnds \/ Unwinds
              \/ LapJudged \/ LapSaved \/ TrackIdentified \/ BackfillReads \/ BackfillLists
              \/ BackfillJudges \/ BackfillEnds
              \/ RecorderCut \/ RestorePauses \/ RestoreStops \/ RestoreStopped \/ Refused
              \/ RestoreTells
              \/ UNCHANGED vars
       PROVE  UNCHANGED label
  BY <1>10
     DEF SurveySaved, BundleEdited, Edited, Looks, SearchBegins, SearchSkips, SearchFails,
         SearchEnds, TrackIdentified, Settled, Locks, PassReads, PassLists, PassJudges, PassEnds,
         PassFails, Recheck, WorkerTakes, WorkerEnds, Unwinds, LapJudged, LapSaved, BackfillReads,
         BackfillLists, BackfillJudges, BackfillEnds, RecorderCut, RestorePauses, RestoreStops,
         RestoreStopped, Refused, RestoreTells, vars, disk
<1>11. CASE UNCHANGED label BY <1>2, <1>11 DEF Now
<1> QED BY <1>5, <1>6, <1>7, <1>8, <1>9, <1>10, <1>11, NextIs

LEMMA OthersKept ==
    ASSUME IInv, [Next]_vars
    PROVE  OthersOK'
<1> USE NoneAssumption DEF IInv, Shape, OthersOK
<1> DEFINE Names == Circuits \cup {None}
           Stages == {"no", "pausing", "flushing", "stopping", "swapping", "done"}
           Found(s) == /\ s = [todo |-> s.todo, named |-> s.named]
                       /\ s.todo \subseteq DOMAIN label'
<1>1. NoSearch.todo = {} /\ NoSearch.named = {} /\ Found(NoSearch) BY DEF NoSearch
<1>2. CASE Swapped
  <2>1. UNCHANGED <<untold, search>> /\ restore' = "done" /\ track' = None /\ restore = "swapping"
    BY <1>2 DEF Swapped
  <2>2. search' = NoSearch BY <2>1 DEF Alone
  <2> QED BY <1>1, <2>1, <2>2
<1>3. CASE ~Swapped
  <2>1. DOMAIN label \subseteq DOMAIN label' BY <1>3, NowStays
  <2>2. Found(search) BY <2>1
  <2>3. CASE SearchNames
    <3>1. PICK s \in search.todo, c \in Circuits :
            search' = [todo |-> search.todo \ {s}, named |-> search.named \cup {<<s, c>>}]
      BY <2>3 DEF SearchNames
    <3>2. Found(search')
      BY <2>1, <2>2, <3>1
    <3>3. track' \in Names /\ UNCHANGED <<untold, restore>> BY <2>3 DEF SearchNames
    <3> QED BY <3>2, <3>3
  <2>4. CASE SearchSkips
    <3>1. PICK s \in search.todo : search' = [search EXCEPT !.todo = @ \ {s}]
      BY <2>4 DEF SearchSkips
    <3>2. search' = [todo |-> search.todo \ {s}, named |-> search.named] BY <3>1
    <3>3. Found(search') BY <2>2, <3>2
    <3> QED BY <2>4, <3>3 DEF SearchSkips
  <2>5. CASE SearchBegins
    <3> DEFINE todo == {s \in DOMAIN label : label[s] = None /\ LapsOf(s) # {}}
    <3>1. search' = [todo |-> todo, named |-> {}] /\ todo \subseteq DOMAIN label
      BY <2>5 DEF SearchBegins, NoSearch
    <3> HIDE DEF todo
    <3>2. Found(search') BY <2>1, <3>1
    <3> QED BY <2>5, <3>2 DEF SearchBegins
  <2>6. CASE SearchEnds \/ SearchFails
    BY <1>1, <2>6 DEF SearchEnds, SearchFails
  <2>7. CASE Restarted BY <1>1, <2>7 DEF Restarted
  <2>8. CASE \/ BundleEdited \/ Edited \/ LapJudged \/ TrackIdentified \/ NewSession \/ CircuitNamed
             \/ RecorderCut \/ RestorePauses \/ RestoreStops \/ RestoreStopped \/ Refused
             \/ RestoreTells
    <3>1. UNCHANGED search
      BY <2>8
         DEF BundleEdited, Edited, LapJudged, TrackIdentified, NewSession, CircuitNamed,
             RecorderCut, RestorePauses, RestoreStops, RestoreStopped, Refused, RestoreTells
    <3>2. track' \in Names
      BY <2>8
         DEF BundleEdited, Edited, LapJudged, TrackIdentified, NewSession, CircuitNamed,
             RecorderCut, RestorePauses, RestoreStops, RestoreStopped, Refused, RestoreTells
    <3>3. untold' \in Names /\ restore' \in Stages
      BY <2>8
         DEF BundleEdited, Edited, LapJudged, TrackIdentified, NewSession, CircuitNamed,
             RecorderCut, RestorePauses, RestoreStops, RestoreStopped, Refused, RestoreTells
    <3> QED BY <2>2, <3>1, <3>2, <3>3
  <2>9. ASSUME \/ SurveySaved \/ (\E c \in Circuits : Settled(c))
               \/ (\E r \in Runners : \/ Locks(r) \/ PassReads(r) \/ PassLists(r)
                                      \/ PassJudges(r) \/ PassEnds(r) \/ PassFails(r))
               \/ Recheck \/ WorkerTakes \/ WorkerEnds \/ Unwinds
               \/ LapSaved \/ TrackLabelled \/ BackfillReads \/ BackfillLists
               \/ BackfillJudges \/ BackfillEnds \/ UNCHANGED vars
        PROVE  UNCHANGED <<track, untold, restore, search>>
    BY <2>9
       DEF SurveySaved, Settled, Locks, PassReads, PassLists, PassJudges, PassEnds, PassFails,
           Recheck, WorkerTakes, WorkerEnds, Unwinds, LapSaved, TrackLabelled, BackfillReads,
           BackfillLists, BackfillJudges, BackfillEnds, vars, others
  <2> QED
    BY <1>3, <2>2, <2>3, <2>4, <2>5, <2>6, <2>7, <2>8, <2>9, NextIs DEF Looks
<1> QED BY <1>2, <1>3

LEMMA ShapeKept ==
    ASSUME IInv, [Next]_vars
    PROVE  Shape'
BY DiskKept, JudgeKept, PassKept, LiveKept, OthersKept DEF Shape
-----------------------------------------------------------------------------
(* Who is where.                                                           *)

LEMMA PostsKept ==
    ASSUME IInv, [Next]_vars
    PROVE  Posts'
<1> USE NoneAssumption DEF IInv, Shape, JudgeOK, Posts, Runners
<1>1. CASE SurveySaved \/ Edited \/ SearchEnds \/ RestoreTells
  <2>1. /\ pc' = Kicked /\ UNCHANGED <<lock, job, pass>>
        /\ restore' = "swapping" <=> restore = "swapping"
    BY <1>1 DEF SurveySaved, Edited, SearchEnds, RestoreTells, others
  <2> QED BY <2>1, KickedIs
<1>2. CASE Recheck \/ WorkerTakes
  <2>1. UNCHANGED <<lock, pass, restore>> BY <1>2 DEF Recheck, WorkerTakes, others
  <2>2. \E r \in Runners, c \in Circuits :
          pc[r] \in {"none", "loop"} /\ pc' = [pc EXCEPT ![r] = "lock"] /\ job' = [job EXCEPT ![r] = c]
    BY <1>2 DEF Recheck, WorkerTakes, RunsNow, Goes, At
  <2> QED BY <2>1, <2>2
<1>3. CASE WorkerEnds BY <1>3 DEF WorkerEnds, Goes, At, others
<1>4. ASSUME NEW r \in Runners, NEW to \in {"none", "loop"}, LetsGo(r, to),
             to = "loop" => r = "worker", UNCHANGED restore
      PROVE  Posts'
  <2>1. pc' = [pc EXCEPT ![r] = to] /\ job' = [job EXCEPT ![r] = None] BY <1>4, LetsGoIs
  <2>2. CASE lock = r
    <3>1. lock' = None /\ pass' = NoPass BY <1>4, <2>2, LetsGoIs
    <3> QED BY <1>4, <2>1, <2>2, <3>1
  <2>3. CASE lock # r
    <3>1. UNCHANGED <<lock, pass>> BY <1>4, <2>3, LetsGoIs
    <3> QED BY <1>4, <2>1, <2>3, <3>1
  <2> QED BY <2>2, <2>3
<1>5. CASE Unwinds BY <1>4, <1>5 DEF Unwinds, others
<1>6. ASSUME NEW r \in Runners, PassEnds(r) \/ PassFails(r) PROVE Posts'
  <2>1. LetsGo(r, IF r = "manual" THEN "none" ELSE "loop") /\ UNCHANGED restore
    BY <1>6 DEF PassEnds, PassFails, Returned, Recovered, others
  <2> QED BY <1>4, <2>1
<1>7. ASSUME NEW r \in Runners, Locks(r) PROVE Posts'
  <2>1. /\ pc[r] = "lock" /\ pc' = [pc EXCEPT ![r] = "judge"] /\ lock = None /\ lock' = r
        /\ UNCHANGED <<job, pass, restore>>
    BY <1>7 DEF Locks, Goes, At, others
  <2> QED BY <2>1
<1>8. ASSUME NEW r \in Runners, PassReads(r) \/ PassLists(r) PROVE Posts'
  <2>1. /\ pc[r] \in {"judge", "list"} /\ UNCHANGED <<lock, job, restore>>
        /\ pc' = [pc EXCEPT ![r] = "list"] \/ pc' = [pc EXCEPT ![r] = "rows"]
    BY <1>8 DEF PassReads, PassLists, Goes, At, others
  <2>2. lock' \in Runners BY <2>1
  <2> QED BY <2>1, <2>2
<1>9. ASSUME NEW r \in Runners, PassJudges(r) PROVE Posts'
  <2>1. pc[r] = "rows" /\ UNCHANGED <<lock, pc, job, restore>> BY <1>9 DEF PassJudges, At, others
  <2>2. lock' \in Runners BY <2>1
  <2> QED BY <2>1, <2>2
<1>10. CASE RestoreStops \/ RestoreStopped \/ Swapped \/ Refused
  <2>1. UNCHANGED <<pc, job, pass>> BY <1>10 DEF RestoreStops, RestoreStopped, Swapped, Refused
  <2>2. \/ restore' # "swapping" /\ restore # "swapping" /\ UNCHANGED lock
        \/ lock = None /\ lock' = "restore" /\ restore' = "swapping"
        \/ restore = "swapping" /\ lock' = None /\ restore' # "swapping"
    BY <1>10 DEF RestoreStops, RestoreStopped, Swapped, Refused
  <2> QED BY <2>1, <2>2
<1>11. CASE Restarted
  <2>1. /\ restore' = "no" /\ lock' = None /\ pass' = NoPass
        /\ pc' = [r \in Runners |-> "none"] /\ job' = [r \in Runners |-> None]
    BY <1>11 DEF Restarted
  <2> QED BY <2>1
<1>12. CASE \/ BundleEdited \/ Looks \/ SearchNames \/ CircuitNamed \/ LapJudged \/ LapSaved
            \/ TrackIdentified \/ TrackLabelled \/ BackfillReads \/ BackfillLists \/ BackfillJudges
            \/ BackfillEnds \/ NewSession \/ RecorderCut \/ RestorePauses
            \/ (\E c \in Circuits : Settled(c)) \/ UNCHANGED vars
  <2>1. /\ UNCHANGED <<lock, pc, job, pass>>
        /\ restore' = "swapping" <=> restore = "swapping"
    BY <1>12
       DEF BundleEdited, Looks, SearchBegins, SearchSkips, SearchFails, SearchNames, CircuitNamed,
           LapJudged, LapSaved, TrackIdentified, TrackLabelled, BackfillReads, BackfillLists,
           BackfillJudges, BackfillEnds, NewSession, RecorderCut, RestorePauses, Settled, vars,
           judge, others
  <2> QED BY <2>1
<1> QED
  BY <1>1, <1>2, <1>3, <1>5, <1>6, <1>7, <1>8, <1>9, <1>10, <1>11, <1>12, NextIs

\* Nobody joins in while a restore stops the worker and swaps.
LEMMA AloneKept ==
    ASSUME IInv, [Next]_vars
    PROVE  Alone'
<1> USE DEF IInv, Shape, JudgeOK, Alone, Runners
<1> DEFINE Restoring == {"pausing", "flushing", "stopping", "swapping"}
<1>0. NoSearch.todo = {} /\ NoSearch.named = {} BY DEF NoSearch
<1>1. CASE SurveySaved \/ Edited \/ SearchEnds \/ RestoreTells
  <2>1. pc' = Kicked /\ UNCHANGED <<killed, live>>
    BY <1>1 DEF SurveySaved, Edited, SearchEnds, RestoreTells, others
  <2>2. \/ UNCHANGED <<restore, untold, search>>
        \/ untold # None /\ UNCHANGED restore
        \/ search # NoSearch /\ UNCHANGED restore
        \/ restore = "done" /\ restore' = "no"
    BY <1>0, <1>1 DEF SurveySaved, Edited, SearchEnds, RestoreTells, others
  <2> QED BY <2>1, <2>2, KickedIs
<1>2. CASE Recheck
  <2>1. /\ Open /\ pc' = [pc EXCEPT !["manual"] = "lock"]
        /\ UNCHANGED <<killed, live, restore, untold, search>>
    BY <1>2 DEF Recheck, RunsNow, Goes, others
  <2> QED BY <2>1 DEF Open
<1>3. CASE WorkerTakes \/ WorkerEnds
  <2>1. /\ ~killed /\ UNCHANGED <<killed, live, restore, untold, search>>
        /\ pc'["manual"] = pc["manual"]
    BY <1>3 DEF WorkerTakes, WorkerEnds, RunsNow, Goes, At, others
  <2> QED BY <2>1
<1>4. CASE Unwinds
  <2>1. LetsGo("worker", "none") /\ ~killed' /\ UNCHANGED <<live, restore, untold, search>>
    BY <1>4 DEF Unwinds, others
  <2>2. pc'["manual"] = pc["manual"] BY <2>1 DEF LetsGo, Goes
  <2> QED BY <2>1, <2>2
<1>5. ASSUME NEW r \in Runners,
             \/ Locks(r) \/ PassReads(r) \/ PassLists(r) \/ PassJudges(r) \/ PassEnds(r)
             \/ PassFails(r)
      PROVE  Alone'
  <2>1. /\ UNCHANGED <<killed, live, restore, untold, search>> /\ (killed => r # "worker")
        /\ pc[r] \notin {"none", "loop"}
        /\ \E to : pc' = [pc EXCEPT ![r] = to]
    BY <1>5 DEF Locks, PassReads, PassLists, PassJudges, PassEnds, PassFails, LetsGo, Goes, At,
                others
  <2>2. restore \notin Restoring \/ r # "manual" BY <2>1
  <2> QED BY <2>1, <2>2
<1>6. CASE BundleEdited \/ SearchBegins
  <2>1. Open /\ UNCHANGED <<killed, pc, live, restore>>
    BY <1>6 DEF BundleEdited, SearchBegins, judge
  <2> QED BY <2>1 DEF Open
<1>7. CASE SearchNames \/ SearchSkips \/ SearchFails
  <2>1. search # NoSearch /\ UNCHANGED <<killed, pc, live, untold, restore>>
    BY <1>0, <1>7 DEF SearchNames, SearchSkips, SearchFails, judge
  <2> QED BY <2>1
<1>8. CASE \/ LapJudged \/ LapSaved \/ TrackIdentified \/ TrackLabelled \/ BackfillReads
           \/ BackfillLists \/ BackfillJudges \/ BackfillEnds
  <2>1. /\ UNCHANGED <<killed, pc, untold, search>>
        /\ live.at # "no" => UNCHANGED restore
        /\ live.at = "no" => \/ restore \in {"no", "done"} /\ UNCHANGED restore
                             \/ restore = "pausing" /\ restore' = "flushing"
    BY <1>8, NoPassIs
       DEF LapJudged, LapSaved, TrackIdentified, TrackLabelled, BackfillReads, BackfillLists,
           BackfillJudges, BackfillEnds, Open, judge
  <2> QED BY <2>1, NoPassIs
<1>9. CASE RecorderCut
  <2>1. UNCHANGED <<killed, pc, untold, search>> /\ live' = Driving
    BY <1>9 DEF RecorderCut, judge
  <2>2. UNCHANGED restore \/ (restore = "flushing" /\ restore' = "no") BY <1>9 DEF RecorderCut
  <2> QED BY <2>1, <2>2
<1>10. CASE RestorePauses
  <2>1. /\ restore = "no" /\ restore' = "pausing" /\ UNCHANGED <<killed, pc, untold, search>>
        /\ untold = None /\ search = NoSearch /\ pc["manual"] = "none"
    BY <1>10 DEF RestorePauses, judge
  <2> QED BY <2>1
<1>11. CASE RestoreStops
  <2>1. /\ restore \in Restoring /\ restore' = "stopping" /\ live' = Driving
        /\ UNCHANGED <<pc, untold, search>> /\ (killed' => pc'["worker"] # "none")
    BY <1>11 DEF RestoreStops
  <2> QED BY <2>1
<1>12. CASE RestoreStopped
  <2>1. /\ restore = "stopping" /\ ~killed /\ restore' = "swapping"
        /\ UNCHANGED <<killed, pc, live, untold, search>>
    BY <1>12 DEF RestoreStopped
  <2> QED BY <2>1
<1>13. CASE Swapped \/ Refused
  <2>1. restore = "swapping" /\ restore' \in {"done", "no"} /\ UNCHANGED killed
    BY <1>13 DEF Swapped, Refused
  <2> QED BY <2>1
<1>14. CASE Restarted
  <2>1. ~killed' /\ restore' = "no" BY <1>14 DEF Restarted
  <2> QED BY <2>1
<1>15. CASE CircuitNamed \/ NewSession \/ (\E c \in Circuits : Settled(c)) \/ UNCHANGED vars
  <2>1. UNCHANGED <<killed, pc, live, restore, untold, search>>
    BY <1>15 DEF CircuitNamed, NewSession, Settled, vars, judge, others
  <2> QED BY <2>1
<1> QED
  BY <1>1, <1>2, <1>3, <1>4, <1>5, <1>6, <1>7, <1>8, <1>9, <1>10, <1>11, <1>12, <1>13, <1>14,
     <1>15, NextIs
  DEF Looks
-----------------------------------------------------------------------------
(* What lists hold.                                                        *)

\* Rows are added and judged, and keep their session.
LEMMA RowsGrow ==
    ASSUME IInv, [Next]_vars, ~Swapped
    PROVE  /\ DOMAIN rows \subseteq DOMAIN rows'
           /\ \A n \in DOMAIN rows : rows'[n].session = rows[n].session
<1> USE DEF IInv, Shape
<1>1. CASE UNCHANGED rows BY <1>1
<1>2. ASSUME NEW r \in Runners, PassJudges(r)
      PROVE  /\ DOMAIN rows \subseteq DOMAIN rows'
             /\ \A n \in DOMAIN rows : rows'[n].session = rows[n].session
  <2>1. PICK row \in Newest(pass.rows) : rows' = JudgedRow(row, pass.road)
    BY <1>2 DEF PassJudges
  <2>2. row \in Listings /\ row.n \in DOMAIN rows /\ pass.road \in Verdicts
    BY DEF Newest, PassOK, Lists
  <2> QED BY <2>1, <2>2, RowJudged
<1>3. CASE BackfillJudges
  <2>1. PICK row \in Newest(live.rows) : rows' = JudgedRow(row, live.road)
    BY <1>3 DEF BackfillJudges
  <2>2. row \in Listings /\ row.n \in DOMAIN rows /\ live.road \in Verdicts
    BY DEF Newest, LiveOK, Lists, LapsOf
  <2> QED BY <2>1, <2>2, RowJudged
<1>4. CASE LapSaved
  <2> DEFINE x == [session |-> Now, verdict |-> live.road]
  <2>1. x \in Rows BY NowIsThere DEF Rows, LiveOK, Now
  <2>2. rows' = Append(rows, x) BY <1>4 DEF LapSaved
  <2> HIDE DEF x
  <2>3. /\ DOMAIN Append(rows, x) = DOMAIN rows \cup {Len(rows) + 1}
        /\ \A i \in DOMAIN rows : Append(rows, x)[i] = rows[i]
    BY <2>1, Appended DEF DiskOK
  <2> QED BY <2>2, <2>3
<1>5. ASSUME \/ SurveySaved \/ BundleEdited \/ Edited \/ Looks \/ SearchNames \/ SearchEnds
             \/ CircuitNamed
             \/ (\E c \in Circuits : Settled(c))
             \/ (\E r \in Runners : \/ Locks(r) \/ PassReads(r) \/ PassLists(r)
                                    \/ PassEnds(r) \/ PassFails(r))
             \/ Recheck \/ WorkerTakes \/ WorkerEnds \/ Unwinds
             \/ LapJudged \/ TrackIdentified \/ TrackLabelled \/ BackfillReads \/ BackfillLists
             \/ BackfillEnds \/ NewSession
             \/ RecorderCut \/ RestorePauses \/ RestoreStops \/ RestoreStopped \/ Refused
             \/ RestoreTells \/ Restarted
             \/ UNCHANGED vars
      PROVE  UNCHANGED rows
  BY <1>5
     DEF SurveySaved, BundleEdited, Edited, Looks, SearchBegins, SearchSkips, SearchFails,
         SearchNames, SearchEnds, CircuitNamed, Settled, Locks, PassReads, PassLists, PassEnds,
         PassFails, Recheck, WorkerTakes, WorkerEnds, Unwinds, LapJudged, TrackIdentified,
         TrackLabelled, BackfillReads, BackfillLists, BackfillEnds, NewSession, RecorderCut,
         RestorePauses, RestoreStops, RestoreStopped, Refused, RestoreTells, Restarted, vars, disk
<1> QED BY <1>1, <1>2, <1>3, <1>4, <1>5, NextIs

\* What the history notes is of laps there are.
LEMMA LateKept ==
    ASSUME IInv, [Next]_vars
    PROVE  late' \subseteq DOMAIN rows'
<1>1. CASE Swapped BY <1>1 DEF Swapped
<1>2. CASE ~Swapped
  <2>1. /\ late \subseteq DOMAIN rows /\ DOMAIN rows \subseteq DOMAIN rows'
        /\ \A s \in Nat : LapsOf(s) \subseteq DOMAIN rows
        /\ \A row \in pass.rows \cup live.rows : row.n \in DOMAIN rows
    BY <1>2, RowsGrow DEF IInv, Lists, LapsOf
  <2>2. \A rs, ls, laps : Stale(rs, ls, laps) \subseteq laps BY DEF Stale
  <2>3. Now \in Nat /\ \A n \in DOMAIN rows : rows[n].session \in Nat
    BY NowIsThere DEF IInv, Shape, Now, Rows
  <2>4. CASE LapSaved
    <3>1. late' = late \cup Stale(rows', label, {Len(rows')}) BY <2>4 DEF LapSaved
    <3>2. Len(rows') \in DOMAIN rows'
      <4> DEFINE x == [session |-> Now, verdict |-> live.road]
      <4>1. x \in Rows BY NowIsThere DEF Rows, LiveOK, Now, IInv, Shape
      <4>2. rows' = Append(rows, x) BY <2>4 DEF LapSaved
      <4> HIDE DEF x
      <4>3. /\ Len(Append(rows, x)) = Len(rows) + 1
            /\ DOMAIN Append(rows, x) = DOMAIN rows \cup {Len(rows) + 1}
        BY <4>1, Appended DEF IInv, Shape, DiskOK
      <4> QED BY <4>2, <4>3
    <3> QED BY <2>1, <2>2, <3>1, <3>2
  <2>5. ASSUME NEW r \in Runners, PassJudges(r) PROVE late' \subseteq DOMAIN rows'
    <3>1. PICK row \in Newest(pass.rows) :
            late' \subseteq late \cup Stale(rows', label, {row.n})
      BY <2>5 DEF PassJudges
    <3>2. row \in pass.rows BY DEF Newest
    <3> QED BY <2>1, <2>2, <3>1, <3>2
  <2>6. CASE BackfillJudges
    <3>1. PICK row \in Newest(live.rows) :
            late' \subseteq late \cup Stale(rows', label, {row.n})
      BY <2>6 DEF BackfillJudges
    <3>2. row \in live.rows BY DEF Newest
    <3> QED BY <2>1, <2>2, <3>1, <3>2
  <2>7. CASE BackfillReads
    <3>1. late' \subseteq late \cup Stale(rows, label, LapsOf(Now)) BY <2>7 DEF BackfillReads
    <3> QED BY <2>1, <2>2, <2>3, <3>1
  <2>8. CASE CircuitNamed
    <3>1. PICK n \in DOMAIN rows :
            late' = late \cup Stale(rows, label', LapsOf(rows[n].session))
      BY <2>8 DEF CircuitNamed
    <3> QED BY <2>1, <2>2, <2>3, <3>1
  <2>9. CASE SearchFails \/ RecorderCut \/ RestorePauses \/ Restarted
    <3>1. late' \subseteq late \cup Abandoned \cup Unheard
      BY <2>9 DEF SearchFails, RecorderCut, RestorePauses, Restarted
    <3>2. Abandoned \subseteq DOMAIN rows BY <2>1, <2>2, <2>3 DEF Abandoned
    <3>3. \A s : LapsOf(s) \subseteq DOMAIN rows BY DEF LapsOf
    <3>4. Unheard \subseteq DOMAIN rows BY <2>2, <3>3 DEF Unheard
    <3> QED BY <2>1, <3>1, <3>2, <3>4
  <2>10. ASSUME \/ SurveySaved \/ BundleEdited \/ Edited
                \/ SearchBegins \/ SearchSkips \/ SearchNames \/ SearchEnds
                \/ (\E c \in Circuits : Settled(c))
                \/ (\E r \in Runners : \/ Locks(r) \/ PassReads(r) \/ PassLists(r)
                                       \/ PassEnds(r) \/ PassFails(r))
                \/ Recheck \/ WorkerTakes \/ WorkerEnds \/ Unwinds
                \/ LapJudged \/ TrackIdentified \/ TrackLabelled \/ BackfillLists
                \/ BackfillEnds \/ NewSession
                \/ RestoreStops \/ RestoreStopped \/ Refused \/ RestoreTells
                \/ UNCHANGED vars
         PROVE  UNCHANGED late
    BY <2>10
       DEF SurveySaved, BundleEdited, Edited, SearchBegins, SearchSkips, SearchNames,
           SearchEnds, Settled, Locks, PassReads,
           PassLists, PassEnds, PassFails, Recheck, WorkerTakes, WorkerEnds, Unwinds, LapJudged,
           TrackIdentified, TrackLabelled, BackfillLists, BackfillEnds, NewSession, RestoreStops,
           RestoreStopped, Refused, RestoreTells, vars, past
  <2> QED BY <1>2, <2>1, <2>4, <2>5, <2>6, <2>7, <2>8, <2>9, <2>10, NextIs DEF Looks
<1> QED BY <1>1, <1>2

LEMMA PassRowsKept ==
    ASSUME IInv, [Next]_vars, ~Swapped
    PROVE  \A row \in pass'.rows : row.n \in DOMAIN rows'
<1> USE DEF IInv, Shape
<1>1. DOMAIN rows \subseteq DOMAIN rows' BY RowsGrow
<1>2. CASE pass'.rows \subseteq pass.rows BY <1>1, <1>2 DEF Lists
<1>3. CASE pass' = NoPass BY <1>3, NoPassIs
<1>4. ASSUME NEW r \in Runners, PassLists(r)
      PROVE  \A row \in pass'.rows : row.n \in DOMAIN rows'
  <2>1. Covered(job[r]) \subseteq DOMAIN rows BY DEF Covered, LapsOn
  <2>2. pass'.rows = Listed(Covered(job[r])) BY <1>4 DEF PassLists, PassOK
  <2> QED BY <1>1, <2>1, <2>2, ListedAre
<1>5. ASSUME NEW r \in Runners, PassReads(r) PROVE pass'.rows = {}
  BY <1>5 DEF PassReads, NoPass
<1>6. ASSUME NEW r \in Runners, PassJudges(r) PROVE pass'.rows \subseteq pass.rows
  BY <1>6 DEF PassJudges, PassOK
<1>7. ASSUME NEW r \in Runners, PassEnds(r) \/ PassFails(r) \/ Unwinds
      PROVE  pass' = NoPass \/ UNCHANGED pass
  BY <1>7 DEF PassEnds, PassFails, Unwinds, LetsGo
<1>8. CASE Restarted BY <1>3, <1>8 DEF Restarted
<1>9. ASSUME \/ SurveySaved \/ BundleEdited \/ Edited \/ Looks \/ SearchNames \/ SearchEnds
             \/ CircuitNamed
             \/ (\E c \in Circuits : Settled(c)) \/ (\E r \in Runners : Locks(r))
             \/ Recheck \/ WorkerTakes \/ WorkerEnds
             \/ LapJudged \/ LapSaved \/ TrackIdentified \/ TrackLabelled \/ BackfillReads
             \/ BackfillLists
             \/ BackfillJudges \/ BackfillEnds \/ NewSession
             \/ RecorderCut \/ RestorePauses \/ RestoreStops \/ RestoreStopped \/ Refused
             \/ RestoreTells
             \/ UNCHANGED vars
      PROVE  UNCHANGED pass
  BY <1>9
     DEF SurveySaved, BundleEdited, Edited, Looks, SearchBegins, SearchSkips, SearchFails,
         SearchNames, SearchEnds, CircuitNamed, Settled, Locks, Recheck, WorkerTakes, WorkerEnds,
         LapJudged, LapSaved, TrackIdentified, TrackLabelled, BackfillReads, BackfillLists,
         BackfillJudges, BackfillEnds, NewSession, RecorderCut, RestorePauses, RestoreStops,
         RestoreStopped, Refused, RestoreTells, vars, judge
<1> DEFINE worker == "worker"
<1>10. worker \in Runners BY DEF Runners
<1> QED BY <1>2, <1>3, <1>4, <1>5, <1>6, <1>7, <1>8, <1>9, <1>10, NextIs

\* The recorder does not forget its circuit while it is at work.
LEMMA TrackStays ==
    ASSUME IInv, [Next]_vars, live' # Driving, ~Swapped
    PROVE  track # None => track' # None
<1> USE NoneAssumption
<1>1. CASE TrackIdentified \/ CircuitNamed \/ SearchNames
  BY <1>1 DEF TrackIdentified, CircuitNamed, SearchNames
<1>2. CASE NewSession \/ Restarted BY <1>2 DEF NewSession, Restarted
<1>3. ASSUME \/ SurveySaved \/ BundleEdited \/ Edited \/ Looks \/ SearchEnds
             \/ (\E c \in Circuits : Settled(c))
             \/ (\E r \in Runners : \/ Locks(r) \/ PassReads(r) \/ PassLists(r)
                                    \/ PassJudges(r) \/ PassEnds(r) \/ PassFails(r))
             \/ Recheck \/ WorkerTakes \/ WorkerEnds \/ Unwinds
             \/ LapJudged \/ LapSaved \/ TrackLabelled \/ BackfillReads \/ BackfillLists
             \/ BackfillJudges \/ BackfillEnds \/ RecorderCut \/ RestorePauses
             \/ RestoreStops \/ RestoreStopped \/ Refused \/ RestoreTells
             \/ UNCHANGED vars
      PROVE  UNCHANGED track
  BY <1>3
     DEF SurveySaved, BundleEdited, Edited, Looks, SearchBegins, SearchSkips, SearchFails,
         SearchEnds, Settled, Locks, PassReads, PassLists, PassJudges, PassEnds, PassFails,
         Recheck, WorkerTakes, WorkerEnds, Unwinds, LapJudged, LapSaved, TrackLabelled,
         BackfillReads, BackfillLists, BackfillJudges, BackfillEnds, RecorderCut, RestorePauses,
         RestoreStops, RestoreStopped, Refused, RestoreTells, vars, others
<1> QED BY <1>1, <1>2, <1>3, NextIs

LEMMA LiveRowsKept ==
    ASSUME IInv, [Next]_vars, ~Swapped
    PROVE  /\ live'.at \in {"labelling", "asking", "listing", "rows"} => track' # None
           /\ live'.at # "rows" => live'.rows = {}
           /\ \A row \in live'.rows : row.n \in LapsOf(Now)'
<1> USE DEF IInv, Shape
<1> DEFINE Goal == /\ live'.at \in {"labelling", "asking", "listing", "rows"} => track' # None
                   /\ live'.at # "rows" => live'.rows = {}
                   /\ \A row \in live'.rows : row.n \in LapsOf(Now)'
<1>1. CASE live' = Driving BY <1>1, NoPassIs
<1>2. CASE live' # Driving
  <2>1. Now' = Now /\ Now \in DOMAIN label BY <1>2, NowStays, NowIsThere
  <2>2. LapsOf(Now) \subseteq LapsOf(Now)' BY <2>1, RowsGrow DEF LapsOf
  <2>3. track # None => track' # None BY <1>2, TrackStays
  <2>4. ASSUME live'.at \in {"labelling", "asking", "listing", "rows"} => track # None,
               live'.at # "rows" => live'.rows = {},
               live'.rows \subseteq live.rows
        PROVE  Goal
    BY <2>2, <2>3, <2>4 DEF Lists
  <2>5. CASE LapJudged \/ LapSaved
    <3>1. live'.at \in {"saving", "naming"} /\ live'.rows = {}
      BY <1>2, <2>5, NoPassIs DEF LapJudged, LapSaved, Driving
    <3> QED BY <2>4, <3>1
  <2>6. CASE TrackIdentified
    <3>1. live'.rows = {} /\ live'.at = "labelling" BY <2>6 DEF TrackIdentified, Lists, LiveOK
    <3>2. track' # None BY <2>6, NoneAssumption DEF TrackIdentified
    <3> QED BY <3>1, <3>2
  <2>6a. CASE TrackLabelled
    <3>1. live.at = "labelling" /\ live'.rows = {} /\ live'.at = "asking"
      BY <2>6a DEF TrackLabelled, Driving
    <3> QED BY <2>4, <3>1 DEF Lists
  <2>7. CASE BackfillReads
    <3>1. live' = [live EXCEPT !.at = "listing", !.road = bundle[track]] /\ live.at = "asking"
      BY <1>2, <2>7 DEF BackfillReads
    <3>2. live'.rows = live.rows /\ live'.at = "listing" /\ live.rows = {}
      BY <3>1 DEF LiveOK, Lists
    <3> QED BY <2>4, <3>1, <3>2 DEF Lists
  <2>8. CASE BackfillLists
    <3>1. live'.rows = Listed(LapsOf(Now)) /\ live'.at = "rows" /\ live.at = "listing"
      BY <2>8 DEF BackfillLists, LiveOK
    <3>2. LapsOf(Now) \subseteq DOMAIN rows BY DEF LapsOf
    <3>3. \A row \in live'.rows : row.n \in LapsOf(Now) BY <3>1, <3>2, ListedAre
    <3> QED BY <2>2, <2>3, <3>1, <3>3 DEF Lists
  <2>9. CASE BackfillJudges
    <3>1. live'.rows \subseteq live.rows /\ live'.at = "rows" /\ live.at = "rows"
      BY <2>9 DEF BackfillJudges, LiveOK
    <3> QED BY <2>4, <3>1 DEF Lists
  <2>10. CASE BackfillEnds \/ RecorderCut \/ RestorePauses \/ Restarted
    BY <1>2, <2>10 DEF BackfillEnds, RecorderCut, RestorePauses, Restarted
  <2>11. ASSUME \/ SurveySaved \/ BundleEdited \/ Edited \/ Looks \/ SearchNames \/ SearchEnds
                \/ CircuitNamed
                \/ (\E c \in Circuits : Settled(c))
                \/ (\E r \in Runners : \/ Locks(r) \/ PassReads(r) \/ PassLists(r)
                                       \/ PassJudges(r) \/ PassEnds(r) \/ PassFails(r))
                \/ Recheck \/ WorkerTakes \/ WorkerEnds \/ Unwinds \/ NewSession
                \/ RestoreStops \/ RestoreStopped \/ Refused \/ RestoreTells
                \/ UNCHANGED vars
         PROVE  UNCHANGED live
    BY <2>11
       DEF SurveySaved, BundleEdited, Edited, Looks, SearchBegins, SearchSkips, SearchFails,
           SearchNames, SearchEnds, CircuitNamed, Settled, Locks, PassReads, PassLists,
           PassJudges, PassEnds, PassFails, Recheck, WorkerTakes, WorkerEnds, Unwinds, NewSession,
           RestoreStops, RestoreStopped, Refused, RestoreTells, vars, others
  <2>12. CASE UNCHANGED live BY <2>4, <2>12 DEF Lists
  <2> QED BY <2>5, <2>6, <2>7, <2>8, <2>9, <2>10, <2>11, <2>12, <2>6a, NextIs
<1> QED BY <1>1, <1>2

LEMMA ListsKept ==
    ASSUME IInv, [Next]_vars
    PROVE  Lists'
<1>1. CASE Swapped
  <2>1. /\ restore = "swapping" /\ UNCHANGED <<live, pass>> /\ live = Driving /\ pass = NoPass
    BY <1>1, NoneAssumption DEF Swapped, IInv, Alone, Posts, Runners
  <2> QED BY <2>1, LateKept, NoPassIs DEF Lists
<1>2. CASE ~Swapped BY <1>2, LateKept, PassRowsKept, LiveRowsKept DEF Lists
<1> QED BY <1>1, <1>2
-----------------------------------------------------------------------------
(* The runners.                                                            *)

\* The steps that leave every runner where it is, with what it has.
LEMMA RunnersRest ==
    ASSUME \/ BundleEdited \/ Looks \/ SearchNames \/ CircuitNamed
           \/ (\E c \in Circuits : Settled(c))
           \/ LapJudged \/ LapSaved \/ TrackIdentified \/ TrackLabelled \/ BackfillReads
           \/ BackfillLists
           \/ BackfillJudges \/ BackfillEnds \/ NewSession
           \/ RecorderCut \/ RestorePauses \/ RestoreStops \/ RestoreStopped \/ Swapped
           \/ Refused \/ UNCHANGED vars
    PROVE  UNCHANGED <<pc, job, pass>>
BY DEF BundleEdited, Looks, SearchBegins, SearchSkips, SearchFails, SearchNames, CircuitNamed,
       Settled, LapJudged, LapSaved, TrackIdentified, TrackLabelled, BackfillReads, BackfillLists,
       BackfillJudges, BackfillEnds, NewSession, RecorderCut, RestorePauses, RestoreStops,
       RestoreStopped, Swapped, Refused, vars, judge

\* The pass of a circuit was cut short, and nobody is in one.
CutShort(c) == c \in cut /\ \A r \in Runners : pc[r] \notin {"list", "rows"}

LEMMA CutIsExcused ==
    ASSUME NEW n, CutShort(CircuitOf(n))
    PROVE  Excused(n)
BY DEF CutShort, Excused, Passed

\* Whoever leaves a pass, but at its end, leaves its circuit to the history.
LEMMA LeavesIt ==
    ASSUME IInv, [Next]_vars, NEW r \in Runners, job[r] # None,
           PassFails(r) \/ (r = "worker" /\ Unwinds) \/ Restarted
    PROVE  job[r] \in cut' /\ \A q \in Runners : pc'[q] \notin {"list", "rows"}
<1> USE NoneAssumption DEF IInv, Shape, JudgeOK, Runners
<1>1. CASE PassFails(r)
  <2>1. /\ cut' = cut \cup {job[r]} /\ pc' = [pc EXCEPT ![r] = Recovered(r)]
        /\ pc[r] \in {"judge", "list", "rows"}
    BY <1>1 DEF PassFails, LetsGo, Goes, At
  <2>2. Recovered(r) \notin {"list", "rows"} BY DEF Recovered, Returned
  <2>3. \A q \in Runners : q # r => pc[q] \notin {"list", "rows"} BY <2>1 DEF Posts
  <2> QED BY <2>1, <2>2, <2>3
<1>2. CASE r = "worker" /\ Unwinds
  <2>1. /\ cut' = cut \cup {job[r]} /\ pc' = [pc EXCEPT !["worker"] = "none"] /\ killed
    BY <1>2 DEF Unwinds, LetsGo, Goes
  <2>2. pc["manual"] = "none" BY <2>1 DEF Alone
  <2> QED BY <2>1, <2>2
<1>3. CASE Restarted
  <2>1. job[r] \in Circuits OBVIOUS
  <2> QED BY <1>3, <2>1 DEF Restarted
<1> QED BY <1>1, <1>2, <1>3

\* The one who holds the pass goes on with it, ends it, or leaves it.
LEMMA HolderSteps ==
    ASSUME IInv, [Next]_vars, NEW r \in Runners, pc[r] \in {"list", "rows"}
    PROVE  \/ pc'[r] = pc[r] /\ job'[r] = job[r] /\ pass' = pass
           \/ PassLists(r) \/ PassJudges(r) \/ PassEnds(r)
           \/ /\ job[r] \in cut' /\ \A q \in Runners : pc'[q] \notin {"list", "rows"}
              /\ pc'[r] \in {"none", "loop"}
<1>0. ASSUME job[r] # None, PassFails(r) \/ (r = "worker" /\ Unwinds) \/ Restarted
      PROVE  job[r] \in cut' /\ \A q \in Runners : pc'[q] \notin {"list", "rows"}
  BY <1>0, LeavesIt
<1> USE NoneAssumption DEF IInv, Shape, JudgeOK, Posts, Runners
<1>1. job[r] \in Circuits /\ lock = r /\ \A q \in Runners : lock = q => q = r OBVIOUS
<1>2. CASE SurveySaved \/ Edited \/ SearchEnds \/ RestoreTells
  <2>1. pc' = Kicked /\ UNCHANGED <<job, pass>> BY <1>2 DEF SurveySaved, Edited, SearchEnds,
                                                            RestoreTells
  <2> QED BY <2>1, KickedIs
<1>3. CASE WorkerTakes \/ WorkerEnds \/ Recheck
  <2>1. PICK q \in Runners, to \in {"lock", "none"} :
          /\ pc[q] \in {"none", "loop"} /\ pc' = [pc EXCEPT ![q] = to]
          /\ UNCHANGED pass
          /\ UNCHANGED job \/ \E c \in Circuits : job' = [job EXCEPT ![q] = c]
    BY <1>3 DEF WorkerTakes, WorkerEnds, Recheck, RunsNow, Goes, At
  <2> QED BY <2>1
<1>4. ASSUME NEW q \in Runners,
             \/ Locks(q) \/ PassReads(q) \/ PassLists(q) \/ PassJudges(q) \/ PassEnds(q)
             \/ PassFails(q)
      PROVE  q = r /\ ~Locks(r) /\ ~PassReads(r)
  BY <1>1, <1>4 DEF Locks, PassReads, PassLists, PassJudges, PassEnds, PassFails, At
<1>5. CASE PassFails(r)
  <2>1. pc'[r] \in {"none", "loop"} BY <1>5 DEF PassFails, LetsGo, Goes, Recovered, Returned
  <2>2. job[r] # None BY <1>1
  <2>3. job[r] \in cut' /\ \A q \in Runners : pc'[q] \notin {"list", "rows"} BY <1>0, <1>5, <2>2
  <2> QED BY <2>1, <2>3
<1>6. CASE Unwinds
  <2>1. killed /\ pc'["worker"] = "none" BY <1>6 DEF Unwinds, LetsGo, Goes
  <2>2. r = "worker" BY <2>1 DEF Alone
  <2> QED BY <1>0, <1>1, <1>6, <2>1, <2>2
<1>7. CASE Restarted
  <2>1. pc'[r] = "none" BY <1>7 DEF Restarted
  <2> QED BY <1>0, <1>1, <1>7, <2>1
<1>8. CASE UNCHANGED <<pc, job, pass>> BY <1>8
<1> QED BY <1>2, <1>3, <1>4, <1>5, <1>6, <1>7, <1>8, RunnersRest, NextIs

\* Who is in a pass was, or has just read the bundle or listed the laps.
LEMMA HolderWas ==
    ASSUME IInv, [Next]_vars, NEW r \in Runners, pc'[r] \in {"list", "rows"}
    PROVE  \/ PassReads(r)
           \/ PassLists(r)
           \/ pc'[r] = pc[r] /\ job'[r] = job[r] /\ (pass' = pass \/ PassJudges(r))
<1> USE NoneAssumption DEF IInv, Shape, JudgeOK, Posts, Runners
<1>1. CASE pc[r] \in {"list", "rows"}
  <2>1. ~PassEnds(r) /\ (PassJudges(r) => UNCHANGED <<pc, job>>)
    BY DEF PassEnds, LetsGo, Goes, Returned, PassJudges
  <2> QED BY <1>1, <2>1, HolderSteps
<1>2. CASE pc[r] \notin {"list", "rows"}
  <2>1. CASE SurveySaved \/ Edited \/ SearchEnds \/ RestoreTells
    <3>1. pc' = Kicked BY <2>1 DEF SurveySaved, Edited, SearchEnds, RestoreTells
    <3> QED BY <1>2, <3>1, KickedIs
  <2>2. CASE WorkerTakes \/ WorkerEnds \/ Recheck
    <3>1. PICK q \in Runners, to \in {"lock", "none"} : pc' = [pc EXCEPT ![q] = to]
      BY <2>2 DEF WorkerTakes, WorkerEnds, Recheck, RunsNow, Goes
    <3> QED BY <1>2, <3>1
  <2>3. ASSUME NEW q \in Runners, Locks(q) \/ PassReads(q) \/ PassLists(q) PROVE q = r /\ ~Locks(r)
    BY <1>2, <2>3 DEF Locks, PassReads, PassLists, Goes
  <2>4. ASSUME NEW q \in Runners, PassJudges(q) \/ PassEnds(q) \/ PassFails(q) PROVE FALSE
    BY <1>2, <2>4 DEF PassJudges, PassEnds, PassFails, LetsGo, Goes, Recovered, Returned
  <2>5. CASE Unwinds BY <1>2, <2>5 DEF Unwinds, LetsGo, Goes
  <2>6. CASE Restarted BY <2>6 DEF Restarted
  <2>7. CASE UNCHANGED <<pc, job, pass>> BY <1>2, <2>7
  <2> QED BY <2>1, <2>2, <2>3, <2>4, <2>5, <2>6, <2>7, RunnersRest, NextIs
<1> QED BY <1>1, <1>2
\* A pass asked for is asked for until somebody takes it up.
LEMMA WantedStays ==
    ASSUME IInv, [Next]_vars, NEW c \in Circuits, Wanted(c)
    PROVE  \/ Wanted(c)'
           \/ \E r \in Runners : pc'[r] = "lock" /\ job'[r] = c
           \/ CutShort(c)'
<1> USE NoneAssumption DEF IInv, Shape, JudgeOK, Runners, Wanted
<1>1. CASE Edited
  <2>1. /\ untold \in Circuits /\ due' = [due EXCEPT ![untold] = "ready"]
    BY <1>1 DEF Edited, OthersOK
  <2>2. c = untold \/ due[c] # "no" OBVIOUS
  <2> QED BY <2>1, <2>2
<1>2. ASSUME SurveySaved \/ SearchEnds \/ RestoreTells \/ \E d \in Circuits : Settled(d)
      PROVE  Wanted(c)'
  <2>1. due[c] # "no" => due'[c] # "no"
    BY <1>2 DEF SurveySaved, SearchEnds, RestoreTells, Settled
  <2>2. UNCHANGED untold BY <1>2 DEF SurveySaved, SearchEnds, RestoreTells, Settled, others
  <2> QED BY <2>1, <2>2
<1>3. CASE WorkerTakes \/ Recheck
  <2>1. PICK q \in Runners, d \in Circuits : RunsNow(q, d) /\ UNCHANGED untold
    BY <1>3 DEF WorkerTakes, Recheck, others
  <2>2. CASE c = d BY <2>1, <2>2 DEF RunsNow, Goes
  <2>3. CASE c # d BY <2>1, <2>3 DEF RunsNow
  <2> QED BY <2>2, <2>3
<1>4. CASE RestoreStopped
  <2>1. untold = None /\ cut' = cut \cup {d \in Circuits : due[d] # "no"}
    BY <1>4 DEF RestoreStopped, Alone
  <2>2. \A q \in Runners : pc'[q] \notin {"list", "rows"} BY <1>4 DEF RestoreStopped, Posts
  <2> QED BY <2>1, <2>2 DEF CutShort
<1>5. CASE Restarted
  <2>1. c \in cut' BY <1>5 DEF Restarted
  <2>2. \A q \in Runners : pc'[q] \notin {"list", "rows"} BY <1>5 DEF Restarted
  <2> QED BY <2>1, <2>2 DEF CutShort
<1>6. ASSUME \/ CircuitNamed \/ Looks \/ SearchNames
             \/ (\E r \in Runners : \/ Locks(r) \/ PassReads(r) \/ PassLists(r) \/ PassJudges(r)
                                    \/ PassEnds(r) \/ PassFails(r))
             \/ WorkerEnds \/ Unwinds
             \/ LapJudged \/ LapSaved \/ TrackIdentified \/ TrackLabelled \/ BackfillReads
             \/ BackfillLists
             \/ BackfillJudges \/ BackfillEnds \/ NewSession
             \/ RecorderCut \/ RestorePauses \/ RestoreStops \/ Swapped \/ Refused \/ UNCHANGED vars
      PROVE  UNCHANGED <<due, untold>>
  BY <1>6
     DEF CircuitNamed, Looks, SearchBegins, SearchSkips, SearchFails, SearchNames, Locks,
         PassReads, PassLists, PassJudges, PassEnds, PassFails, WorkerEnds, Unwinds, LapJudged,
         LapSaved, TrackIdentified, TrackLabelled, BackfillReads, BackfillLists, BackfillJudges,
         BackfillEnds, NewSession, RecorderCut, RestorePauses, RestoreStops, Swapped, Refused,
         vars, judge, others
<1>7. CASE UNCHANGED <<due, untold>> BY <1>7
<1>8. CASE BundleEdited
  <2>1. untold = None /\ UNCHANGED due BY <1>8 DEF BundleEdited, judge
  <2> QED BY <2>1
<1> QED BY <1>1, <1>2, <1>3, <1>4, <1>5, <1>6, <1>7, <1>8, NextIs

\* Who is before the bundle gets to it.
LEMMA BeginsStays ==
    ASSUME IInv, [Next]_vars, NEW r \in Runners, NEW c \in Circuits, Begins(r, c)
    PROVE  \/ job'[r] = c /\ (pc'[r] = pc[r] \/ (Locks(r) /\ pc'[r] = "judge"))
           \/ PassReads(r)
           \/ CutShort(c)'
<1>0. ASSUME PassFails(r) \/ (r = "worker" /\ Unwinds) \/ Restarted PROVE CutShort(c)'
  <2>1. job[r] = c /\ c # None BY NoneAssumption DEF Begins
  <2> QED BY <1>0, <2>1, LeavesIt DEF CutShort
<1> USE NoneAssumption DEF IInv, Shape, JudgeOK, Posts, Runners, Begins
<1>1. CASE SurveySaved \/ Edited \/ SearchEnds \/ RestoreTells
  <2>1. pc' = Kicked /\ UNCHANGED job BY <1>1 DEF SurveySaved, Edited, SearchEnds, RestoreTells
  <2> QED BY <2>1, KickedIs
<1>2. CASE WorkerTakes \/ WorkerEnds \/ Recheck
  <2>1. PICK q \in Runners, to \in {"lock", "none"} :
          /\ pc[q] \in {"none", "loop"} /\ pc' = [pc EXCEPT ![q] = to]
          /\ UNCHANGED job \/ \E d \in Circuits : job' = [job EXCEPT ![q] = d]
    BY <1>2 DEF WorkerTakes, WorkerEnds, Recheck, RunsNow, Goes, At
  <2> QED BY <2>1
<1>3. ASSUME NEW q \in Runners, Locks(q) \/ PassReads(q)
      PROVE  /\ UNCHANGED job /\ \E to \in {"judge", "list"} : pc' = [pc EXCEPT ![q] = to]
             /\ Locks(q) => pc'[q] = "judge"
  BY <1>3 DEF Locks, PassReads, Goes, At
<1>4. ASSUME NEW q \in Runners, PassLists(q) \/ PassJudges(q) \/ PassEnds(q)
      PROVE  pc'[r] = pc[r] /\ job'[r] = job[r]
  <2>1. pc[q] \in {"list", "rows"} /\ q # r BY <1>4 DEF PassLists, PassJudges, PassEnds, At
  <2> QED BY <1>4, <2>1 DEF PassLists, PassJudges, PassEnds, LetsGo, Goes
<1>5. ASSUME NEW q \in Runners, PassFails(q)
      PROVE  q = r \/ (pc'[r] = pc[r] /\ job'[r] = job[r])
  BY <1>5 DEF PassFails, LetsGo, Goes
<1>6. CASE Unwinds
  <2>1. r = "worker" \/ (pc'[r] = pc[r] /\ job'[r] = job[r]) BY <1>6 DEF Unwinds, LetsGo, Goes
  <2> QED BY <1>0, <1>6, <2>1
<1>7. CASE UNCHANGED <<pc, job, pass>> BY <1>7
<1> QED BY <1>0, <1>1, <1>2, <1>3, <1>4, <1>5, <1>6, <1>7, RunnersRest, NextIs
-----------------------------------------------------------------------------
(* Bundles replaced, and passes by them.                                   *)

\* A bundle that is replaced is queued for a pass in the same step, or next.
LEMMA ReplacedIsWanted ==
    ASSUME IInv, [Next]_vars
    PROVE  \/ UNCHANGED bundle
           \/ /\ UNCHANGED <<label, rows, lock, job, pass, late, cut, live, restore>>
              /\ \E d \in Circuits : /\ Wanted(d)'
                                     /\ \A c \in Circuits : c # d => bundle'[c] = bundle[c]
<1> USE DEF IInv, Shape, DiskOK, JudgeOK
<1>1. CASE SurveySaved
  <2>1. PICK d \in Circuits : Replaced(d) /\ due' = [due EXCEPT ![d] = "settling"]
    BY <1>1 DEF SurveySaved
  <2>2. Wanted(d)' BY <2>1 DEF Wanted
  <2>3. \A c \in Circuits : c # d => bundle'[c] = bundle[c] BY <2>1 DEF Replaced
  <2> QED BY <1>1, <2>2, <2>3 DEF SurveySaved, others
<1>2. CASE BundleEdited
  <2>1. PICK d \in Circuits : Replaced(d) /\ untold' = d BY <1>2 DEF BundleEdited
  <2>2. Wanted(d)' BY <2>1 DEF Wanted
  <2>3. \A c \in Circuits : c # d => bundle'[c] = bundle[c] BY <2>1 DEF Replaced
  <2> QED BY <1>2, <2>2, <2>3 DEF BundleEdited, judge
<1>3. ASSUME \/ Edited \/ Looks \/ SearchNames \/ SearchEnds \/ CircuitNamed
             \/ (\E c \in Circuits : Settled(c))
             \/ (\E r \in Runners : \/ Locks(r) \/ PassReads(r) \/ PassLists(r) \/ PassJudges(r)
                                    \/ PassEnds(r) \/ PassFails(r))
             \/ Recheck \/ WorkerTakes \/ WorkerEnds \/ Unwinds
             \/ LapJudged \/ LapSaved \/ TrackIdentified \/ TrackLabelled \/ BackfillReads
             \/ BackfillLists
             \/ BackfillJudges \/ BackfillEnds \/ NewSession
             \/ RecorderCut \/ RestorePauses \/ RestoreStops \/ RestoreStopped \/ Swapped
             \/ Refused \/ RestoreTells \/ Restarted
             \/ UNCHANGED vars
      PROVE  UNCHANGED bundle
  BY <1>3
     DEF Edited, Looks, SearchBegins, SearchSkips, SearchFails, SearchNames, SearchEnds,
         CircuitNamed, Settled, Locks, PassReads, PassLists, PassJudges, PassEnds, PassFails,
         Recheck, WorkerTakes, WorkerEnds, Unwinds, LapJudged, LapSaved, TrackIdentified,
         TrackLabelled, BackfillReads, BackfillLists, BackfillJudges, BackfillEnds, NewSession,
         RecorderCut, RestorePauses, RestoreStops, RestoreStopped, Swapped, Refused, RestoreTells,
         Restarted, vars, disk
<1> QED BY <1>1, <1>2, <1>3, NextIs

LEMMA OutdatedKept ==
    ASSUME IInv, [Next]_vars
    PROVE  Outdated'
<1> DEFINE Followed(r, c) == Wanted(c) \/ \E q \in Runners \ {r} : job[q] = c /\ pc[q] = "lock"
<1> SUFFICES ASSUME NEW r \in Runners, pc'[r] \in {"list", "rows"},
                    NEW c, job'[r] = c, pass'.road # bundle'[c]
             PROVE  Followed(r, c)'
  BY DEF Outdated
<1>1. CASE PassReads(r)
  <2>1. /\ pass' = [NoPass EXCEPT !.road = bundle[job[r]]] /\ UNCHANGED job /\ UNCHANGED bundle
    BY <1>1 DEF PassReads, disk
  <2>2. pass'.road = bundle[job[r]] BY <2>1 DEF NoPass
  <2> QED BY <2>1, <2>2
<1>2. CASE ~PassReads(r)
  <2>1. /\ pc[r] \in {"list", "rows"} /\ job'[r] = job[r] /\ pass'.road = pass.road
        /\ pc[r] # pc'[r] => PassLists(r)
    <3>1. CASE PassLists(r)
      BY <3>1 DEF PassLists, IInv, Shape, PassOK, At
    <3>2. PassJudges(r) => pass'.road = pass.road BY DEF PassJudges, IInv, Shape, PassOK
    <3> QED BY <1>2, <3>1, <3>2, HolderWas
  <2>2. c \in Circuits /\ c = job[r] BY <2>1 DEF IInv, Shape, Posts, JudgeOK
  <2>3. lock = r BY <2>1 DEF IInv, Posts
  <2>4. CASE bundle'[c] # bundle[c]
    <3>1. Wanted(c)' BY <2>2, <2>4, ReplacedIsWanted DEF Wanted
    <3> QED BY <3>1
  <2>5. CASE bundle'[c] = bundle[c]
    <3>1. Followed(r, c) BY <2>1, <2>2, <2>5 DEF IInv, Outdated
    <3>2. ~CutShort(c)' BY DEF CutShort
    <3>3. CASE Wanted(c)
      <4>1. Wanted(c)' \/ \E q \in Runners : pc'[q] = "lock" /\ job'[q] = c
        BY <2>2, <3>2, <3>3, WantedStays DEF Wanted, CutShort
      <4> QED BY <2>1, <2>2, <4>1
    <3>4. ASSUME NEW q \in Runners \ {r}, job[q] = c, pc[q] = "lock"
          PROVE  Followed(r, c)'
      <4>1. Begins(q, c) BY <3>4 DEF Begins
      <4>2. ~Locks(q) BY <2>3, NoneAssumption DEF Locks
      <4>3. ~PassReads(q) BY <3>4 DEF PassReads, At
      <4>4. job'[q] = c /\ pc'[q] = pc[q] BY <2>2, <3>2, <4>1, <4>2, <4>3, BeginsStays DEF CutShort
      <4> QED BY <3>4, <4>4
    <3> QED BY <2>1, <2>2, <3>1, <3>3, <3>4
  <2> QED BY <2>4, <2>5
<1> QED BY <1>1, <1>2

\* What a pass is to correct, it goes on to correct.
LEMMA PassCorrects ==
    ASSUME IInv, NEW r \in Runners, PassJudges(r), NEW n \in DOMAIN rows,
           Corrects(pass.rows, n, pass.road)
    PROVE  rows'[n].verdict = pass.road \/ Corrects(pass'.rows, n, pass.road)
<1> USE DEF IInv, Shape
<1>1. PICK row \in Newest(pass.rows) :
        rows' = JudgedRow(row, pass.road) /\ pass' = [pass EXCEPT !.rows = @ \ {row}]
  BY DEF PassJudges
<1>2. row \in pass.rows /\ pass'.rows = pass.rows \ {row} BY <1>1 DEF Newest, PassOK
<1>3. PICK other \in pass.rows : other.n = n /\ other.verdict # pass.road BY DEF Corrects
<1>4. CASE other = row
  <2>1. row \in Listings /\ row.n \in DOMAIN rows /\ pass.road \in Verdicts
    BY <1>2 DEF PassOK, Lists
  <2> QED BY <1>1, <1>3, <1>4, <2>1, RowJudged
<1>5. CASE other # row BY <1>2, <1>3, <1>5 DEF Corrects
<1> QED BY <1>4, <1>5

\* A lap keeps its row, but where it is judged.
LEMMA RowStays ==
    ASSUME IInv, [Next]_vars, ~Swapped, NEW n \in DOMAIN rows
    PROVE  \/ rows'[n] = rows[n]
           \/ \E q \in Runners : PassJudges(q)
           \/ (BackfillJudges /\ rows[n].session = Now)
<1> USE DEF IInv, Shape
<1>1. CASE BackfillJudges
  <2>1. PICK row \in Newest(live.rows) : rows' = JudgedRow(row, live.road)
    BY <1>1 DEF BackfillJudges
  <2>2. row \in Listings /\ row.n \in DOMAIN rows /\ rows[row.n].session = Now
        /\ live.road \in Verdicts
    BY DEF Newest, LiveOK, Lists, LapsOf
  <2> QED BY <1>1, <2>1, <2>2, RowJudged
<1>2. CASE LapSaved
  <2> DEFINE x == [session |-> Now, verdict |-> live.road]
  <2>1. x \in Rows BY NowIsThere DEF Rows, LiveOK, Now
  <2>2. rows' = Append(rows, x) BY <1>2 DEF LapSaved
  <2> HIDE DEF x
  <2> QED BY <2>1, <2>2, Appended DEF DiskOK
<1>3. ASSUME \/ SurveySaved \/ BundleEdited \/ Edited \/ Looks \/ SearchNames \/ SearchEnds
             \/ CircuitNamed
             \/ (\E c \in Circuits : Settled(c))
             \/ (\E r \in Runners : \/ Locks(r) \/ PassReads(r) \/ PassLists(r)
                                    \/ PassEnds(r) \/ PassFails(r))
             \/ Recheck \/ WorkerTakes \/ WorkerEnds \/ Unwinds
             \/ LapJudged \/ TrackIdentified \/ TrackLabelled \/ BackfillReads \/ BackfillLists
             \/ BackfillEnds \/ NewSession
             \/ RecorderCut \/ RestorePauses \/ RestoreStops \/ RestoreStopped \/ Refused
             \/ RestoreTells \/ Restarted
             \/ UNCHANGED vars
      PROVE  UNCHANGED rows
  BY <1>3
     DEF SurveySaved, BundleEdited, Edited, Looks, SearchBegins, SearchSkips, SearchFails,
         SearchNames, SearchEnds, CircuitNamed, Settled, Locks, PassReads, PassLists, PassEnds,
         PassFails, Recheck, WorkerTakes, WorkerEnds, Unwinds, LapJudged, TrackIdentified,
         TrackLabelled, BackfillReads, BackfillLists, BackfillEnds, NewSession, RecorderCut,
         RestorePauses, RestoreStops, RestoreStopped, Refused, RestoreTells, Restarted, vars, disk
<1> QED BY <1>1, <1>2, <1>3, NextIs

\* Only who has the lock judges.
LEMMA JudgeHasIt ==
    ASSUME IInv, NEW r \in Runners, pc[r] \in {"judge", "list", "rows"},
           NEW q \in Runners, PassJudges(q)
    PROVE  q = r
BY DEF IInv, Posts, PassJudges, At

LEMMA RedoneKept ==
    ASSUME IInv, [Next]_vars
    PROVE  Redone'
<1> USE DEF IInv, Shape
<1> SUFFICES ASSUME NEW r \in Runners, pc'[r] = "rows", NEW n \in pass'.old
             PROVE  /\ n \in DOMAIN rows' /\ rows'[n].session # Now'
                    /\ rows'[n].verdict = pass'.road \/ Corrects(pass'.rows, n, pass'.road)
  BY DEF Redone, Corrects
<1>1. ~Swapped
  <2>1. CASE Swapped
    <3>1. pc[r] = "rows" /\ lock = "restore" BY <2>1 DEF Swapped, Posts
    <3> QED BY <3>1, NoneAssumption DEF Posts, Runners
  <2> QED BY <2>1
<1>2. ~PassReads(r) BY DEF PassReads, Goes, JudgeOK
<1>3. CASE PassLists(r)
  <2>1. /\ pass'.road = pass.road /\ pass'.rows = Listed(LapsOn(job[r]))
        /\ pass'.old = (late \cap LapsOn(job[r])) \ LapsOf(Now)
        /\ UNCHANGED <<label, rows>>
    BY <1>3 DEF PassLists, PassOK, Covered, disk
  <2>2. n \in LapsOn(job[r]) /\ LapsOn(job[r]) \subseteq DOMAIN rows /\ n \notin LapsOf(Now)
    BY <2>1 DEF LapsOn
  <2>3. PICK row \in Listed(LapsOn(job[r])) : row.n = n BY <2>2, ListedAre
  <2>4. row.verdict = rows[n].verdict BY <2>2, <2>3, ListedAre
  <2> QED BY <2>1, <2>2, <2>3, <2>4 DEF LapsOf, Now, Corrects
<1>4. CASE ~PassLists(r)
  <2>1. pc[r] = "rows" /\ (pass' = pass \/ PassJudges(r)) BY <1>2, <1>4, HolderWas
  <2>2. /\ pass'.old = pass.old /\ pass'.road = pass.road
    BY <2>1 DEF PassJudges, PassOK
  <2>3. /\ n \in DOMAIN rows /\ rows[n].session # Now
        /\ rows[n].verdict = pass.road \/ Corrects(pass.rows, n, pass.road)
    BY <2>1, <2>2 DEF Redone
  <2>4. n \in DOMAIN rows' /\ rows'[n].session = rows[n].session BY <1>1, <2>3, RowsGrow
  <2>5. rows'[n].session # Now'
    <3>1. rows[n].session \in DOMAIN label BY <2>3 DEF DiskOK
    <3>2. Len(label) \in Nat /\ rows[n].session \in 1 .. Len(label) BY <3>1, NowIsThere
    <3>3. Now' = Now \/ Now' = Now + 1 BY <1>1, NowStays
    <3>4. rows[n].session # Len(label) + 1 BY <3>2
    <3> QED BY <2>3, <2>4, <3>3, <3>4 DEF Now
  <2>6. CASE PassJudges(r)
    <3>1. CASE Corrects(pass.rows, n, pass.road) BY <2>2, <2>3, <2>4, <2>5, <2>6, <3>1, PassCorrects
    <3>2. CASE rows[n].verdict = pass.road
      <4>1. PICK row \in Newest(pass.rows) : rows' = JudgedRow(row, pass.road)
        BY <2>6 DEF PassJudges
      <4>2. row \in Listings /\ row.n \in DOMAIN rows /\ pass.road \in Verdicts
        BY DEF Newest, PassOK, Lists
      <4>3. rows'[n].verdict = pass.road BY <2>3, <3>2, <4>1, <4>2, RowJudged
      <4> QED BY <2>2, <2>4, <2>5, <4>3
    <3> QED BY <2>3, <3>1, <3>2
  <2>7. CASE pass' = pass /\ ~PassJudges(r)
    <3>1. \A q \in Runners : ~PassJudges(q) BY <2>1, <2>7, JudgeHasIt
    <3>2. rows'[n] = rows[n] BY <1>1, <2>3, <3>1, RowStays
    <3> QED BY <2>3, <2>4, <2>5, <2>7, <3>2
  <2> QED BY <2>1, <2>6, <2>7
<1> QED BY <1>3, <1>4
-----------------------------------------------------------------------------
(* Nobody forgets a lap.                                                   *)

\* A lap the history notes stays noted, until a pass over its circuit has
\* written its verdict.
LEMMA LateStays ==
    ASSUME IInv, [Next]_vars, ~Swapped, NEW n \in late
    PROVE  \/ n \in late'
           \/ \E r \in Runners : /\ PassJudges(r) /\ CircuitOf(n) = job[r]
                                 /\ rows'[n].verdict = pass.road
<1>1. ASSUME NEW r \in Runners, PassJudges(r), n \notin late'
      PROVE  CircuitOf(n) = job[r] /\ rows'[n].verdict = pass.road
  BY <1>1 DEF PassJudges, CircuitOf
<1>2. ASSUME \/ SurveySaved \/ BundleEdited \/ Edited \/ Looks \/ SearchNames \/ SearchEnds
             \/ CircuitNamed
             \/ (\E c \in Circuits : Settled(c))
             \/ (\E r \in Runners : \/ Locks(r) \/ PassReads(r) \/ PassLists(r)
                                    \/ PassEnds(r) \/ PassFails(r))
             \/ Recheck \/ WorkerTakes \/ WorkerEnds \/ Unwinds
             \/ LapJudged \/ LapSaved \/ TrackIdentified \/ TrackLabelled \/ BackfillReads
             \/ BackfillLists
             \/ BackfillJudges \/ BackfillEnds \/ NewSession
             \/ RecorderCut \/ RestorePauses \/ RestoreStops \/ RestoreStopped \/ Refused
             \/ RestoreTells \/ Restarted
             \/ UNCHANGED vars
      PROVE  late \subseteq late'
  BY <1>2
     DEF SurveySaved, BundleEdited, Edited, Looks, SearchBegins, SearchSkips, SearchFails,
         SearchNames, SearchEnds, CircuitNamed, Settled, Locks, PassReads, PassLists, PassEnds,
         PassFails, Recheck, WorkerTakes, WorkerEnds, Unwinds, LapJudged, LapSaved,
         TrackIdentified, TrackLabelled, BackfillReads, BackfillLists, BackfillJudges,
         BackfillEnds, NewSession, RecorderCut, RestorePauses, RestoreStops, RestoreStopped,
         Refused, RestoreTells, Restarted, vars, past
<1> QED BY <1>1, <1>2, NextIs

\* A pass that lists by the bundle as it is, is going to correct the lap.
LEMMA ListsToCorrect ==
    ASSUME IInv, NEW r \in Runners, PassLists(r), NEW n \in DOMAIN rows,
           CircuitOf(n) = job[r], rows[n].verdict # pass.road
    PROVE  /\ pc'[r] = "rows" /\ pass'.road = pass.road
           /\ Corrects(pass'.rows, n, pass.road)
<1> USE DEF IInv, Shape
<1>1. /\ pass'.rows = Listed(LapsOn(job[r])) /\ pass'.road = pass.road /\ pc'[r] = "rows"
  BY DEF PassLists, PassOK, Covered, Goes, JudgeOK
<1>2. n \in LapsOn(job[r]) /\ LapsOn(job[r]) \subseteq DOMAIN rows BY DEF LapsOn, CircuitOf
<1>3. PICK row \in Listed(LapsOn(job[r])) : row.n = n BY <1>2, ListedAre
<1>4. row.verdict = rows[n].verdict BY <1>2, <1>3, ListedAre
<1> QED BY <1>1, <1>3, <1>4 DEF Corrects

LEMMA FixesStays ==
    ASSUME IInv, [Next]_vars, NEW n \in DOMAIN rows, NEW c \in Circuits,
           CircuitOf(n) = c, CircuitOf(n)' = c, bundle'[c] = bundle[c],
           Stained(n), Stained(n)', NEW r \in Runners, Fixes(r, n)
    PROVE  Fixes(r, n)' \/ CutShort(c)'
<1>1. /\ pc[r] \in {"list", "rows"} /\ job[r] = c /\ pass.road = bundle[c]
      /\ pc[r] = "rows" => Corrects(pass.rows, n, pass.road)
  BY DEF Fixes
<1>2. rows[n].verdict # bundle[c] /\ rows'[n].verdict # bundle[c] BY DEF Stained
<1>3. CASE pc'[r] = pc[r] /\ job'[r] = job[r] /\ pass' = pass
  <2>1. Corrects(pass.rows, n, pass.road) => Corrects(pass'.rows, n, pass'.road)
    BY <1>3 DEF Corrects
  <2> QED BY <1>1, <1>3, <2>1 DEF Fixes, Corrects
<1>4. CASE PassLists(r)
  <2>1. UNCHANGED job BY <1>4 DEF PassLists
  <2>2. pc'[r] = "rows" /\ pass'.road = pass.road /\ Corrects(pass'.rows, n, pass.road)
    BY <1>1, <1>2, <1>4, ListsToCorrect
  <2> QED BY <1>1, <2>1, <2>2 DEF Fixes, Corrects
<1>5. CASE PassJudges(r)
  <2>1. pc[r] = "rows" /\ UNCHANGED <<pc, job>> /\ pass'.road = pass.road
    BY <1>5 DEF PassJudges, At, IInv, Shape, PassOK
  <2>2. Corrects(pass'.rows, n, pass.road) BY <1>1, <1>2, <1>5, <2>1, PassCorrects
  <2> QED BY <1>1, <2>1, <2>2 DEF Fixes, Corrects
<1>6. ~PassEnds(r) BY <1>1 DEF PassEnds, At, Corrects
<1>7. CASE job[r] \in cut' /\ \A q \in Runners : pc'[q] \notin {"list", "rows"}
  BY <1>1, <1>7 DEF CutShort
<1> QED BY <1>1, <1>3, <1>4, <1>5, <1>6, <1>7, HolderSteps

LEMMA BackfillStays ==
    ASSUME IInv, [Next]_vars, NEW n \in DOMAIN rows, NEW c \in Circuits,
           CircuitOf(n) = c, CircuitOf(n)' = c, bundle'[c] = bundle[c],
           Stained(n), Stained(n)', Backfills(n)
    PROVE  Backfills(n)' \/ n \in late'
<1> USE DEF IInv, Shape
<1>1. /\ live.at \in {"asking", "listing", "rows"} /\ rows[n].session = Now
      /\ label[Now] = c
      /\ live.at # "asking" => live.road = bundle[c]
      /\ live.at = "rows" => Corrects(live.rows, n, live.road)
  BY DEF Backfills, CircuitOf
<1>2. live # Driving BY <1>1, NoPassIs
<1>3. ~Swapped BY <1>2 DEF Swapped, Alone
<1>4. n \in LapsOf(Now) /\ n \in Stale(rows, label, LapsOf(Now))
  <2>1. n \in LapsOf(Now) BY <1>1 DEF LapsOf
  <2> QED BY <2>1 DEF Stale, Stained, CircuitOf
<1>5. rows'[n].verdict # bundle[c] BY DEF Stained
<1>6. CASE RecorderCut \/ RestorePauses \/ Restarted
  <2>1. n \in Abandoned BY <1>1, <1>4 DEF Abandoned
  <2> QED BY <1>6, <2>1 DEF RecorderCut, RestorePauses, Restarted
<1>7. CASE ~Restarted /\ ~RecorderCut /\ ~RestorePauses
  <2>1. Now' = Now /\ rows'[n].session = Now' BY <1>1, <1>2, <1>3, <1>7, NowStays, RowsGrow
  <2>2. CASE BackfillReads
    <3>1. CASE bundle[track] = Unknown \/ bundle[track] # bundle[c]
      <4>1. late' = late \cup Stale(rows, label, LapsOf(Now))
        BY <1>1, <2>2, <3>1 DEF BackfillReads
      <4> QED BY <1>4, <4>1
    <3>2. CASE bundle[track] # Unknown /\ bundle[track] = bundle[c]
      <4>1. live' = [live EXCEPT !.at = "listing", !.road = bundle[track]]
        BY <2>2, <3>2 DEF BackfillReads
      <4>2. live'.at = "listing" /\ live'.road = bundle[c] BY <3>2, <4>1 DEF LiveOK
      <4> QED BY <2>1, <4>2 DEF Backfills
    <3> QED BY <3>1, <3>2
  <2>3. CASE BackfillLists
    <3>1. /\ live.at = "listing" /\ live'.at = "rows" /\ live'.road = live.road
          /\ live'.rows = Listed(LapsOf(Now))
      BY <2>3 DEF BackfillLists, LiveOK
    <3>2. LapsOf(Now) \subseteq DOMAIN rows BY DEF LapsOf
    <3>3. PICK row \in Listed(LapsOf(Now)) : row.n = n BY <1>4, <3>2, ListedAre
    <3>4. row.verdict = rows[n].verdict BY <3>2, <3>3, ListedAre
    <3>5. row.verdict # bundle[c] BY <3>4 DEF Stained
    <3>6. Corrects(live'.rows, n, live'.road) BY <1>1, <3>1, <3>3, <3>5 DEF Corrects
    <3> QED BY <1>1, <2>1, <3>1, <3>6 DEF Backfills, Corrects
  <2>4. CASE BackfillJudges
    <3>1. PICK row \in Newest(live.rows) :
            rows' = JudgedRow(row, live.road) /\ live' = [live EXCEPT !.rows = @ \ {row}]
      BY <2>4 DEF BackfillJudges
    <3>2. /\ live.at = "rows" /\ live'.at = "rows" /\ live'.road = live.road
          /\ live'.rows = live.rows \ {row}
      BY <2>4, <3>1 DEF BackfillJudges, LiveOK
    <3>3. PICK other \in live.rows : other.n = n /\ other.verdict # live.road
      BY <1>1, <3>2 DEF Corrects
    <3>4. other # row
      <4>1. row \in Listings /\ row.n \in DOMAIN rows /\ live.road \in Verdicts
        BY DEF Newest, LiveOK, Lists, LapsOf
      <4> QED BY <1>1, <1>5, <3>1, <3>2, <3>3, <4>1, RowJudged
    <3>5. Corrects(live'.rows, n, live'.road) BY <3>2, <3>3, <3>4 DEF Corrects
    <3> QED BY <1>1, <2>1, <3>2, <3>5 DEF Backfills, Corrects
  <2>5. ~LapJudged /\ ~LapSaved /\ ~TrackIdentified /\ ~TrackLabelled
    BY <1>1, <1>2 DEF LapJudged, LapSaved, TrackIdentified, TrackLabelled
  <2>6. ~BackfillEnds BY <1>1 DEF BackfillEnds, Corrects
  <2>7. ASSUME \/ SurveySaved \/ BundleEdited \/ Edited \/ Looks \/ SearchNames \/ SearchEnds
               \/ CircuitNamed
               \/ (\E d \in Circuits : Settled(d))
               \/ (\E r \in Runners : \/ Locks(r) \/ PassReads(r) \/ PassLists(r)
                                      \/ PassJudges(r) \/ PassEnds(r) \/ PassFails(r))
               \/ Recheck \/ WorkerTakes \/ WorkerEnds \/ Unwinds \/ NewSession
               \/ RestoreStops \/ RestoreStopped \/ Refused \/ RestoreTells
               \/ UNCHANGED vars
        PROVE  UNCHANGED live
    BY <2>7
       DEF SurveySaved, BundleEdited, Edited, Looks, SearchBegins, SearchSkips, SearchFails,
           SearchNames, SearchEnds, CircuitNamed, Settled, Locks, PassReads, PassLists,
           PassJudges, PassEnds, PassFails, Recheck, WorkerTakes, WorkerEnds, Unwinds, NewSession,
           RestoreStops, RestoreStopped, Refused, RestoreTells, vars, others
  <2>8. CASE UNCHANGED live
    <3>1. Corrects(live.rows, n, live.road) => Corrects(live.rows, n, live.road)'
      BY <2>8 DEF Corrects
    <3> QED BY <1>1, <2>1, <2>8, <3>1 DEF Backfills
  <2> QED BY <1>3, <1>7, <2>2, <2>3, <2>4, <2>5, <2>6, <2>7, <2>8, NextIs
<1> QED BY <1>6, <1>7

\* A pass by a bundle replaced, over the lap's circuit, is followed by another.
LEMMA FollowedIsMinded ==
    ASSUME IInv, NEW r \in Runners, PassLists(r) \/ PassJudges(r), NEW n,
           NEW c \in Circuits, job[r] = c, CircuitOf(n)' = c, pass.road # bundle[c]
    PROVE  Minded(n)'
<1>1. pc[r] \in {"list", "rows"} BY DEF PassLists, PassJudges, At
<1>2. UNCHANGED <<due, untold, job>> /\ \A q \in Runners \ {r} : pc'[q] = pc[q]
  BY DEF PassLists, PassJudges, others, Goes, IInv, Shape, JudgeOK
<1>3. CASE Wanted(c) BY <1>2, <1>3 DEF Minded, Wanted
<1>4. ASSUME NEW q \in Runners \ {r}, job[q] = c, pc[q] = "lock" PROVE Minded(n)'
  BY <1>2, <1>4 DEF Minded, Begins
<1> QED BY <1>1, <1>3, <1>4 DEF IInv, Outdated

\* A circuit the history has given up is taken up again with each of its laps.
LEMMA ExcusedStays ==
    ASSUME IInv, [Next]_vars, ~Swapped, NEW n \in DOMAIN rows, NEW c \in Circuits,
           CircuitOf(n) = c, CircuitOf(n)' = c, bundle'[c] = bundle[c],
           Stained(n), Excused(n)
    PROVE  Excused(n)' \/ Minded(n)'
<1> USE DEF IInv, Shape
<1>1. ~Passed(n) /\ (c \in cut \/ restore = "done") BY DEF Excused
<1>2. ASSUME NEW r \in Runners, pc'[r] = "rows", job'[r] = c, n \in pass'.all
      PROVE  Minded(n)'
  <2>1. ~PassReads(r) BY <1>2 DEF PassReads, Goes, JudgeOK
  <2>2. CASE PassLists(r)
    <3>1. job[r] = c /\ UNCHANGED job BY <1>2, <2>2 DEF PassLists
    <3>2. CASE pass.road = bundle[c]
      <4>1. rows[n].verdict # pass.road BY <3>2 DEF Stained
      <4>2. pc'[r] = "rows" /\ pass'.road = pass.road /\ Corrects(pass'.rows, n, pass.road)
        BY <2>2, <3>1, <4>1, ListsToCorrect
      <4>3. Fixes(r, n)' BY <3>1, <3>2, <4>2 DEF Fixes, Corrects
      <4> QED BY <4>3 DEF Minded
    <3>3. CASE pass.road # bundle[c] BY <2>2, <3>1, <3>3, FollowedIsMinded
    <3> QED BY <3>2, <3>3
  <2>3. CASE ~PassLists(r)
    <3>1. pc[r] = "rows" /\ job[r] = c /\ pass'.all = pass.all
      BY <1>2, <2>1, <2>3, HolderWas DEF PassJudges, PassOK
    <3> QED BY <1>1, <1>2, <3>1 DEF Passed
  <2> QED BY <2>2, <2>3
<1>3. CASE Passed(n)'
  <2>1. \E r \in Runners : pc'[r] = "rows" /\ job'[r] = c /\ n \in pass'.all BY <1>3 DEF Passed
  <2> QED BY <1>2, <2>1
<1>4. CASE ~Passed(n)' /\ c \in cut /\ c \notin cut'
  <2>1. ASSUME NEW r \in Runners, PassReads(r) PROVE Minded(n)'
    <3>1. /\ job[r] = c /\ pass' = [NoPass EXCEPT !.road = bundle[job[r]]]
          /\ pc'[r] = "list" /\ UNCHANGED job
      BY <1>4, <2>1 DEF PassReads, Goes, JudgeOK
    <3>2. pass'.road = bundle[c] BY <3>1 DEF NoPass
    <3>3. Fixes(r, n)' BY <3>1, <3>2 DEF Fixes
    <3> QED BY <3>3 DEF Minded
  <2>2. ASSUME \/ SurveySaved \/ BundleEdited \/ Edited \/ Looks \/ SearchNames \/ SearchEnds
               \/ CircuitNamed
               \/ (\E d \in Circuits : Settled(d))
               \/ (\E r \in Runners : \/ Locks(r) \/ PassLists(r) \/ PassJudges(r)
                                      \/ PassEnds(r) \/ PassFails(r))
               \/ Recheck \/ WorkerTakes \/ WorkerEnds \/ Unwinds
               \/ LapJudged \/ LapSaved \/ TrackIdentified \/ TrackLabelled \/ BackfillReads
               \/ BackfillLists
               \/ BackfillJudges \/ BackfillEnds \/ NewSession
               \/ RecorderCut \/ RestorePauses \/ RestoreStops \/ RestoreStopped \/ Refused
               \/ RestoreTells \/ Restarted
               \/ UNCHANGED vars
        PROVE  cut \subseteq cut'
    BY <2>2
       DEF SurveySaved, BundleEdited, Edited, Looks, SearchBegins, SearchSkips, SearchFails,
           SearchNames, SearchEnds, CircuitNamed, Settled, Locks, PassLists, PassJudges, PassEnds,
           PassFails, Recheck, WorkerTakes, WorkerEnds, Unwinds, LapJudged, LapSaved,
           TrackIdentified, TrackLabelled, BackfillReads, BackfillLists, BackfillJudges,
           BackfillEnds, NewSession, RecorderCut, RestorePauses, RestoreStops, RestoreStopped,
           Refused, RestoreTells, Restarted, vars, past
  <2> QED BY <1>4, <2>1, <2>2, NextIs
<1>5. CASE ~Passed(n)' /\ restore = "done" /\ restore' # "done"
  <2>1. CASE RestoreTells
    <3>1. c \in Requeued BY DEF Requeued, LapsOn, CircuitOf
    <3>2. due'[c] = "ready" BY <2>1, <3>1 DEF RestoreTells
    <3> QED BY <3>2 DEF Minded, Wanted
  <2>2. ASSUME \/ SurveySaved \/ BundleEdited \/ Edited \/ Looks \/ SearchNames \/ SearchEnds
               \/ CircuitNamed
               \/ (\E d \in Circuits : Settled(d))
               \/ (\E r \in Runners : \/ Locks(r) \/ PassReads(r) \/ PassLists(r)
                                      \/ PassJudges(r) \/ PassEnds(r) \/ PassFails(r))
               \/ Recheck \/ WorkerTakes \/ WorkerEnds \/ Unwinds
               \/ LapJudged \/ LapSaved \/ TrackIdentified \/ TrackLabelled \/ BackfillReads
               \/ BackfillLists
               \/ BackfillJudges \/ BackfillEnds \/ NewSession
               \/ RecorderCut \/ RestorePauses \/ RestoreStops \/ RestoreStopped \/ Refused
               \/ Restarted
               \/ UNCHANGED vars
        PROVE  UNCHANGED restore \/ restore # "done"
    BY <2>2
       DEF SurveySaved, BundleEdited, Edited, Looks, SearchBegins, SearchSkips, SearchFails,
           SearchNames, SearchEnds, CircuitNamed, Settled, Locks, PassReads, PassLists,
           PassJudges, PassEnds, PassFails, Recheck, WorkerTakes, WorkerEnds, Unwinds, LapJudged,
           LapSaved, TrackIdentified, TrackLabelled, BackfillReads, BackfillLists, BackfillJudges,
           BackfillEnds, NewSession, RecorderCut, RestorePauses, RestoreStops, RestoreStopped,
           Refused, Restarted, vars, others
  <2> QED BY <1>5, <2>1, <2>2, NextIs
<1>6. CASE ~Passed(n)' /\ (c \in cut' \/ restore' = "done") BY <1>6 DEF Excused
<1> QED BY <1>1, <1>3, <1>4, <1>5, <1>6

\* A session that a request has named has a pass asked for in the end, or its
\* laps are noted.
LEMMA NamedStays ==
    ASSUME IInv, [Next]_vars, ~Swapped, NEW n \in DOMAIN rows, NEW c \in Circuits,
           CircuitOf(n) = c, Stained(n), <<rows[n].session, c>> \in search.named
    PROVE  \/ <<rows[n].session, c>> \in search'.named
           \/ Wanted(c)'
           \/ n \in late'
<1> DEFINE p == <<rows[n].session, c>>
<1>1. CASE SearchNames \/ SearchSkips
  <2>1. search = [todo |-> search.todo, named |-> search.named] BY DEF IInv, Shape, OthersOK
  <2>2. search.named \subseteq search'.named BY <1>1, <2>1 DEF SearchNames, SearchSkips
  <2> QED BY <2>2
<1>2. CASE SearchEnds
  <2>1. \E q \in search.named : q[2] = c
    <3>1. p[2] = c OBVIOUS
    <3> QED BY <3>1
  <2>2. due'[c] = "ready" BY <1>2, <2>1 DEF SearchEnds
  <2> QED BY <2>2 DEF Wanted
<1>3. CASE SearchFails \/ Restarted
  <2>1. n \in LapsOf(rows[n].session) BY DEF LapsOf
  <2>2. p \in search.named /\ p[1] = rows[n].session OBVIOUS
  <2>3. n \in UNION {LapsOf(q[1]) : q \in search.named} BY <2>1, <2>2
  <2>4. n \in Unheard BY <2>3 DEF Unheard, Stale, Stained, CircuitOf
  <2> QED BY <1>3, <2>4 DEF SearchFails, Restarted
<1>4. CASE SearchBegins BY <1>4 DEF SearchBegins, NoSearch
<1>5. ASSUME \/ SurveySaved \/ BundleEdited \/ Edited \/ CircuitNamed
             \/ (\E d \in Circuits : Settled(d))
             \/ (\E r \in Runners : \/ Locks(r) \/ PassReads(r) \/ PassLists(r) \/ PassJudges(r)
                                    \/ PassEnds(r) \/ PassFails(r))
             \/ Recheck \/ WorkerTakes \/ WorkerEnds \/ Unwinds
             \/ LapJudged \/ LapSaved \/ TrackIdentified \/ TrackLabelled \/ BackfillReads
             \/ BackfillLists
             \/ BackfillJudges \/ BackfillEnds \/ NewSession \/ RecorderCut
             \/ RestorePauses \/ RestoreStops \/ RestoreStopped \/ Refused \/ RestoreTells
             \/ UNCHANGED vars
      PROVE  UNCHANGED search
  BY <1>5
     DEF SurveySaved, BundleEdited, Edited, CircuitNamed, Settled, Locks, PassReads, PassLists,
         PassJudges, PassEnds, PassFails, Recheck, WorkerTakes, WorkerEnds, Unwinds, LapJudged,
         LapSaved, TrackIdentified, TrackLabelled, BackfillReads, BackfillLists, BackfillJudges,
         BackfillEnds, NewSession, RecorderCut, RestorePauses, RestoreStops, RestoreStopped,
         Refused, RestoreTells, vars, others
<1> QED BY <1>1, <1>2, <1>3, <1>4, <1>5, NextIs DEF Looks

\* Whoever has seen to the lap still does, or somebody has taken over.
LEMMA StillMinded ==
    ASSUME IInv, [Next]_vars, ~Swapped, NEW n \in DOMAIN rows, NEW c \in Circuits,
           CircuitOf(n) = c, CircuitOf(n)' = c, bundle'[c] = bundle[c],
           Stained(n), Stained(n)'
    PROVE  Minded(n)' \/ Excused(n)'
<1>1. CutShort(c)' => Excused(n)' BY DEF CutShort, Excused, Passed
<1>2. ASSUME NEW r \in Runners, Begins(r, c) PROVE Minded(n)' \/ Excused(n)'
  <2>1. CASE job'[r] = c /\ pc'[r] \in {"lock", "judge"} BY <2>1 DEF Minded, Begins
  <2>2. CASE PassReads(r)
    <3>1. /\ job[r] = c /\ pass' = [NoPass EXCEPT !.road = bundle[job[r]]]
          /\ pc'[r] = "list" /\ UNCHANGED job
      BY <1>2, <2>2 DEF PassReads, Goes, Begins, IInv, Shape, JudgeOK
    <3>2. pass'.road = bundle[c] BY <3>1 DEF NoPass
    <3>3. Fixes(r, n)' BY <3>1, <3>2 DEF Fixes
    <3> QED BY <3>3 DEF Minded
  <2>3. pc[r] \in {"lock", "judge"} BY <1>2 DEF Begins
  <2> QED BY <1>1, <1>2, <2>1, <2>2, <2>3, BeginsStays
<1>3. CASE n \in late
  <2>1. ASSUME NEW r \in Runners, PassJudges(r), CircuitOf(n) = job[r],
               rows'[n].verdict = pass.road
        PROVE  Minded(n)'
    <3>1. pass.road # bundle[c] BY <2>1 DEF Stained
    <3> QED BY <2>1, <3>1, FollowedIsMinded
  <2>2. n \in late' => Minded(n)' BY DEF Minded
  <2> QED BY <1>3, <2>1, <2>2, LateStays
<1>4. CASE Wanted(c)
  <2>1. Wanted(c)' => Minded(n)' BY DEF Minded, Wanted
  <2>2. ASSUME NEW r \in Runners, pc'[r] = "lock", job'[r] = c PROVE Minded(n)'
    BY <2>2 DEF Minded, Begins
  <2> QED BY <1>1, <1>4, <2>1, <2>2, WantedStays
<1>5. ASSUME NEW r \in Runners, Fixes(r, n) PROVE Minded(n)' \/ Excused(n)'
  <2>1. Fixes(r, n)' => Minded(n)' BY DEF Minded
  <2> QED BY <1>1, <1>5, <2>1, FixesStays
<1>6. CASE Backfills(n)
  <2>1. Backfills(n)' \/ n \in late' BY <1>6, BackfillStays
  <2> QED BY <2>1 DEF Minded
<1>7. CASE Excused(n) BY <1>7, ExcusedStays
<1>8. CASE Named(n)
  <2>1. rows'[n].session = rows[n].session BY RowsGrow
  <2>2. Named(n)' \/ Wanted(c)' \/ n \in late' BY <1>8, <2>1, NamedStays DEF Named
  <2> QED BY <2>2 DEF Minded, Wanted
<1>9. Minded(n) \/ Excused(n) BY DEF IInv, Minds
<1> QED BY <1>2, <1>3, <1>4, <1>5, <1>6, <1>7, <1>8, <1>9 DEF Minded

\* A session that is given another circuit has its laps asked for, or noted.
LEMMA RelabelledIsMinded ==
    ASSUME IInv, [Next]_vars, ~Swapped, NEW n \in DOMAIN rows,
           Stained(n)', CircuitOf(n)' # CircuitOf(n)
    PROVE  Minded(n)'
<1> USE DEF IInv, Shape
<1>1. rows'[n].session = rows[n].session /\ rows[n].session \in DOMAIN label
  BY RowsGrow DEF DiskOK
<1>2. label'[rows[n].session] # label[rows[n].session] BY <1>1 DEF CircuitOf
<1>3. CASE TrackLabelled
  <2>1. live'.at = "asking" /\ UNCHANGED rows BY <1>3 DEF TrackLabelled, Driving
  <2>2. rows[n].session = Now BY <1>1, <1>2, <1>3 DEF TrackLabelled, Now
  <2>3. Now' = Now
    <3>1. live' # Driving BY <2>1, NoPassIs
    <3> QED BY <3>1, NowStays
  <2> QED BY <2>1, <2>2, <2>3 DEF Minded, Backfills
<1>4. CASE SearchNames
  <2>1. PICK s \in search.todo, c \in Circuits :
          /\ label' = [label EXCEPT ![s] = c]
          /\ search' = [todo |-> search.todo \ {s}, named |-> search.named \cup {<<s, c>>}]
    BY <1>4 DEF SearchNames
  <2>2. rows[n].session = s /\ CircuitOf(n)' = c BY <1>1, <1>2, <2>1 DEF CircuitOf
  <2>3. Named(n)' BY <1>1, <2>1, <2>2 DEF Named
  <2> QED BY <2>3 DEF Minded
<1>5. CASE CircuitNamed
  <2>1. PICK m \in DOMAIN rows, c \in Circuits :
          /\ label' = [label EXCEPT ![rows[m].session] = c]
          /\ late' = late \cup Stale(rows, label', LapsOf(rows[m].session))
    BY <1>5 DEF CircuitNamed
  <2>2. UNCHANGED <<bundle, rows>> BY <1>5 DEF CircuitNamed
  <2>3. rows[n].session = rows[m].session BY <1>1, <1>2, <2>1
  <2>4. n \in LapsOf(rows[m].session) BY <2>3 DEF LapsOf
  <2>5. n \in Stale(rows, label', LapsOf(rows[m].session))
    BY <2>2, <2>4 DEF Stale, Stained, CircuitOf
  <2> QED BY <2>1, <2>5 DEF Minded
<1>6. CASE NewSession \/ Restarted
  <2>1. label' = Append(label, None) BY <1>6 DEF NewSession, Restarted
  <2>2. None \in Circuits \cup {None} OBVIOUS
  <2>3. \A s \in DOMAIN label : Append(label, None)[s] = label[s] BY <2>2, Appended DEF DiskOK
  <2> QED BY <1>1, <1>2, <2>1, <2>3
<1>7. ASSUME \/ SurveySaved \/ BundleEdited \/ Edited \/ Looks \/ SearchEnds
             \/ (\E c \in Circuits : Settled(c))
             \/ (\E r \in Runners : \/ Locks(r) \/ PassReads(r) \/ PassLists(r) \/ PassJudges(r)
                                    \/ PassEnds(r) \/ PassFails(r))
             \/ Recheck \/ WorkerTakes \/ WorkerEnds \/ Unwinds
             \/ LapJudged \/ LapSaved \/ TrackIdentified \/ BackfillReads \/ BackfillLists
             \/ BackfillJudges \/ BackfillEnds
             \/ RecorderCut \/ RestorePauses \/ RestoreStops \/ RestoreStopped \/ Refused
             \/ RestoreTells
             \/ UNCHANGED vars
      PROVE  UNCHANGED label
  BY <1>7
     DEF SurveySaved, BundleEdited, Edited, Looks, SearchBegins, SearchSkips, SearchFails,
         SearchEnds, TrackIdentified, Settled, Locks, PassReads, PassLists, PassJudges, PassEnds,
         PassFails, Recheck, WorkerTakes, WorkerEnds, Unwinds, LapJudged, LapSaved, BackfillReads,
         BackfillLists, BackfillJudges, BackfillEnds, RecorderCut, RestorePauses, RestoreStops,
         RestoreStopped, Refused, RestoreTells, vars, disk
<1> QED BY <1>2, <1>3, <1>4, <1>5, <1>6, <1>7, NextIs

\* A lap that is given the verdict of another bundle is noted, or the bundle's
\* pass is followed by another.
LEMMA JudgedIsMinded ==
    ASSUME IInv, [Next]_vars, ~Swapped, NEW n \in DOMAIN rows, NEW c \in Circuits,
           CircuitOf(n) = c, CircuitOf(n)' = c, bundle'[c] = bundle[c],
           rows'[n] # rows[n], Stained(n)'
    PROVE  Minded(n)'
<1> USE DEF IInv, Shape
<1>1. rows'[n].verdict # bundle[c] BY DEF Stained
<1>2. ASSUME NEW r \in Runners, PassJudges(r) PROVE Minded(n)'
  <2>1. PICK row \in Newest(pass.rows) :
          /\ rows' = JudgedRow(row, pass.road)
          /\ late' = IF label[rows[row.n].session] # job[r]
                     THEN late \cup Stale(rows', label, {row.n})
                     ELSE IF rows'[row.n].verdict = pass.road THEN late \ {row.n} ELSE late
    BY <1>2 DEF PassJudges
  <2>2. row \in Listings /\ row.n \in DOMAIN rows /\ pass.road \in Verdicts
    BY DEF Newest, PassOK, Lists
  <2>3. row.n = n /\ rows'[n].verdict = pass.road BY <2>1, <2>2, RowJudged
  <2>4. CASE c = job[r]
    <3>1. pass.road # bundle[c] BY <1>1, <2>3
    <3> QED BY <1>2, <2>4, <3>1, FollowedIsMinded
  <2>5. CASE c # job[r]
    <3>1. label[rows[n].session] = c /\ UNCHANGED <<bundle, label>>
      BY <1>2 DEF CircuitOf, PassJudges
    <3>2. n \in Stale(rows', label, {n}) BY <3>1 DEF Stale, Stained, CircuitOf
    <3>3. n \in late' BY <2>1, <2>3, <2>5, <3>1, <3>2
    <3> QED BY <3>3 DEF Minded
  <2> QED BY <2>4, <2>5
<1>3. CASE BackfillJudges /\ rows[n].session = Now
  <2>1. PICK row \in Newest(live.rows) :
          /\ rows' = JudgedRow(row, live.road)
          /\ late' = IF live.road = bundle[label[Now]] THEN late
                     ELSE late \cup Stale(rows', label, {row.n})
    BY <1>3 DEF BackfillJudges
  <2>2. row \in Listings /\ row.n \in DOMAIN rows /\ live.road \in Verdicts
    BY DEF Newest, LiveOK, Lists, LapsOf
  <2>3. row.n = n /\ rows'[n].verdict = live.road BY <2>1, <2>2, RowJudged
  <2>4. label[Now] = c /\ live.road # bundle[c] BY <1>1, <1>3, <2>3 DEF CircuitOf
  <2>5. UNCHANGED <<bundle, label>> BY <1>3 DEF BackfillJudges
  <2>6. n \in Stale(rows', label, {n}) BY <2>5 DEF Stale, Stained, CircuitOf
  <2>7. n \in late' BY <2>1, <2>3, <2>4, <2>6
  <2> QED BY <2>7 DEF Minded
<1> QED BY <1>2, <1>3, RowStays

\* A lap that is saved with another verdict than its bundle's is noted.
LEMMA SavedIsMinded ==
    ASSUME IInv, [Next]_vars, ~Swapped, NEW n \in DOMAIN rows' \ DOMAIN rows, Stained(n)'
    PROVE  Minded(n)'
<1> USE DEF IInv, Shape
<1>1. CASE LapSaved
  <2> DEFINE x == [session |-> Now, verdict |-> live.road]
  <2>1. x \in Rows BY NowIsThere DEF Rows, LiveOK, Now
  <2>2. rows' = Append(rows, x) BY <1>1 DEF LapSaved
  <2> HIDE DEF x
  <2>3. /\ Len(Append(rows, x)) = Len(rows) + 1
        /\ DOMAIN Append(rows, x) = DOMAIN rows \cup {Len(rows) + 1}
    BY <2>1, Appended DEF DiskOK
  <2>4. n = Len(rows') BY <2>2, <2>3
  <2>5. /\ late' = late \cup Stale(rows', label, {Len(rows')}) /\ UNCHANGED <<bundle, label>>
    BY <1>1 DEF LapSaved
  <2>6. n \in Stale(rows', label, {n}) BY <2>5 DEF Stale, Stained, CircuitOf
  <2>7. n \in late' BY <2>4, <2>5, <2>6
  <2> QED BY <2>7 DEF Minded
<1>2. ASSUME NEW r \in Runners, PassJudges(r) PROVE DOMAIN rows' = DOMAIN rows
  <2>1. PICK row \in Newest(pass.rows) : rows' = JudgedRow(row, pass.road)
    BY <1>2 DEF PassJudges
  <2>2. row \in Listings /\ row.n \in DOMAIN rows /\ pass.road \in Verdicts
    BY DEF Newest, PassOK, Lists
  <2> QED BY <2>1, <2>2, RowJudged
<1>3. CASE BackfillJudges
  <2>1. PICK row \in Newest(live.rows) : rows' = JudgedRow(row, live.road)
    BY <1>3 DEF BackfillJudges
  <2>2. row \in Listings /\ row.n \in DOMAIN rows /\ live.road \in Verdicts
    BY DEF Newest, LiveOK, Lists, LapsOf
  <2> QED BY <2>1, <2>2, RowJudged
<1>4. ASSUME \/ SurveySaved \/ BundleEdited \/ Edited \/ Looks \/ SearchNames \/ SearchEnds
             \/ CircuitNamed
             \/ (\E c \in Circuits : Settled(c))
             \/ (\E r \in Runners : \/ Locks(r) \/ PassReads(r) \/ PassLists(r)
                                    \/ PassEnds(r) \/ PassFails(r))
             \/ Recheck \/ WorkerTakes \/ WorkerEnds \/ Unwinds
             \/ LapJudged \/ TrackIdentified \/ TrackLabelled \/ BackfillReads \/ BackfillLists
             \/ BackfillEnds \/ NewSession
             \/ RecorderCut \/ RestorePauses \/ RestoreStops \/ RestoreStopped \/ Refused
             \/ RestoreTells \/ Restarted
             \/ UNCHANGED vars
      PROVE  UNCHANGED rows
  BY <1>4
     DEF SurveySaved, BundleEdited, Edited, Looks, SearchBegins, SearchSkips, SearchFails,
         SearchNames, SearchEnds, CircuitNamed, Settled, Locks, PassReads, PassLists, PassEnds,
         PassFails, Recheck, WorkerTakes, WorkerEnds, Unwinds, LapJudged, TrackIdentified,
         TrackLabelled, BackfillReads, BackfillLists, BackfillEnds, NewSession, RecorderCut,
         RestorePauses, RestoreStops, RestoreStopped, Refused, RestoreTells, Restarted, vars, disk
<1> QED BY <1>1, <1>2, <1>3, <1>4, NextIs

LEMMA MindsKept ==
    ASSUME IInv, [Next]_vars
    PROVE  Minds'
<1> USE DEF IInv, Shape
<1> SUFFICES ASSUME NEW n \in DOMAIN rows', Stained(n)'
             PROVE  Minded(n)' \/ Excused(n)'
  BY DEF Minds
<1>1. CASE Swapped
  <2>1. /\ restore' = "done" /\ pc' = pc /\ lock = "restore" BY <1>1 DEF Swapped, Posts
  <2>2. \A r \in Runners : pc[r] # "rows" BY <2>1, NoneAssumption DEF Posts, Runners
  <2> QED BY <2>1, <2>2 DEF Excused, Passed
<1>2. CASE ~Swapped /\ n \notin DOMAIN rows BY <1>2, SavedIsMinded
<1>3. CASE ~Swapped /\ n \in DOMAIN rows
  <2>1. CASE CircuitOf(n)' # CircuitOf(n) BY <1>3, <2>1, RelabelledIsMinded
  <2>2. CASE CircuitOf(n)' = CircuitOf(n)
    <3>1. PICK c \in Circuits : CircuitOf(n) = c /\ CircuitOf(n)' = c
      BY <1>3, <2>2, NowIsThere DEF Stained
    <3>2. CASE bundle'[c] # bundle[c]
      <4>1. Wanted(c)' BY <3>1, <3>2, ReplacedIsWanted DEF Wanted
      <4> QED BY <3>1, <4>1 DEF Minded, Wanted
    <3>3. CASE bundle'[c] = bundle[c] /\ Stained(n) BY <1>3, <3>1, <3>3, StillMinded
    <3>4. CASE bundle'[c] = bundle[c] /\ ~Stained(n)
      <4>1. rows'[n] # rows[n] BY <3>1, <3>4 DEF Stained
      <4> QED BY <1>3, <3>1, <3>4, <4>1, JudgedIsMinded
    <3> QED BY <3>2, <3>3, <3>4
  <2> QED BY <2>1, <2>2
<1> QED BY <1>1, <1>2, <1>3
-----------------------------------------------------------------------------
(* The theorems.                                                           *)

LEMMA Started ==
    ASSUME Init
    PROVE  IInv
<1> USE NoneAssumption DEF Init
<1>1. label \in Seq(Circuits \cup {None}) /\ label # <<>> /\ rows \in Seq(Rows)
      /\ DOMAIN rows = {}
  OBVIOUS
<1>2. DiskOK BY <1>1 DEF DiskOK, Verdicts
<1>3. JudgeOK BY DEF JudgeOK, Runners
<1>4. PassOK /\ LiveOK BY NoPassIs DEF PassOK, LiveOK, NoPass, Driving, Places
<1>5. OthersOK BY DEF OthersOK, NoSearch
<1>6. Posts /\ Alone BY DEF Posts, Alone, Runners
<1>7. Lists BY <1>1, NoPassIs DEF Lists
<1>8. Minds BY <1>1 DEF Minds
<1>9. Outdated /\ Redone BY DEF Outdated, Redone
<1> QED BY <1>2, <1>3, <1>4, <1>5, <1>6, <1>7, <1>8, <1>9 DEF IInv, Shape

LEMMA Kept ==
    ASSUME IInv, [Next]_vars
    PROVE  IInv'
BY ShapeKept, PostsKept, AloneKept, ListsKept, MindsKept, OutdatedKept, RedoneKept DEF IInv

LEMMA Inductive ==
    Spec => []IInv
BY Started, Kept, PTL DEF Spec

\* rejudge.py, _run, bundle_changed and run_now, with the recorder's verdicts
\* and the requests that name circuits: whatever was asked for, dropped, cut
\* short or renamed, wherever the recorder was stopped or failed, and in which
\* order, a stored lap that has not the verdict of its circuit's bundle when all
\* is quiet is one the history accounts for: judged by a bundle replaced or for
\* a circuit renamed, left by a backfill or a request that did not get to its
\* end, or on a circuit whose pass was cut short.
THEOREM NobodyForgotten ==
    Spec => []VerdictsFollow
<1>1. ASSUME IInv PROVE VerdictsFollow
  <2> SUFFICES ASSUME AtRest, NEW n \in DOMAIN rows, Stained(n)
               PROVE  n \in late \/ label[rows[n].session] \in cut
    BY AllStaleIs DEF VerdictsFollow, Accounted
  <2>1. PICK c \in Circuits : CircuitOf(n) = c
    BY <1>1, NowIsThere DEF IInv, Shape, Stained
  <2>2. ~Wanted(c) BY <2>1, NoneAssumption DEF AtRest, Wanted
  <2>3. \A r \in Runners : ~Begins(r, c) /\ ~Fixes(r, n)
    BY <2>1, NoneAssumption DEF AtRest, Begins, Fixes
  <2>4. ~Backfills(n) BY NoPassIs DEF AtRest, Backfills
  <2>5. ~Named(n) BY DEF AtRest, NoSearch, Named
  <2>6. Minded(n) \/ Excused(n) BY <1>1 DEF IInv, Minds
  <2> QED BY <2>1, <2>2, <2>3, <2>4, <2>5, <2>6 DEF Minded, Excused, AtRest, CircuitOf
<1> QED BY <1>1, Inductive, PTL

\* _pass, to its end: with nothing else in store for the circuit, all the laps
\* it listed and that are still the circuit's have the verdict of the bundle,
\* but those judged meanwhile by another; what was left behind before it is
\* put right in any case.
THEOREM ReCheckFinishesIt ==
    Spec => PassHeals
<1> DEFINE Heals ==
      \A r \in Runners :
        (PassEnds(r) /\ live = Driving /\ ~Queued(job[r]) /\ \A q \in Runners \ {r} : job[q] # job[r]) =>
            pass.all \cap LapsOn(job[r]) \cap AllStale \subseteq late \ pass.old
<1>1. ASSUME IInv PROVE Heals
  <2> SUFFICES ASSUME NEW r \in Runners, PassEnds(r), live = Driving, ~Queued(job[r]),
                      \A q \in Runners \ {r} : job[q] # job[r],
                      NEW n \in pass.all \cap LapsOn(job[r]) \cap AllStale
               PROVE  n \in late \ pass.old
    OBVIOUS
  <2>1. n \in DOMAIN rows /\ Stained(n) /\ CircuitOf(n) = job[r]
    BY AllStaleIs DEF LapsOn, CircuitOf
  <2>2. pc[r] = "rows" /\ pass.rows = {} /\ lock = r
    BY <1>1 DEF PassEnds, At, IInv, Posts
  <2>3. ~Wanted(job[r]) BY DEF Queued, Wanted
  <2>3a. ~Named(n)
    <3>1. \A p \in search.named : p[2] # job[r] BY DEF Queued
    <3> QED BY <2>1, <3>1 DEF Named
  <2>4. \A q \in Runners : ~Begins(q, job[r]) /\ ~Fixes(q, n)
    BY <2>1, <2>2 DEF Begins, Fixes, Corrects
  <2>5. ~Backfills(n) BY NoPassIs DEF Backfills
  <2>6. Passed(n) BY <2>1, <2>2 DEF Passed
  <2>7. n \in late BY <1>1, <2>1, <2>3, <2>4, <2>5, <2>6, <2>3a DEF IInv, Minds, Minded, Excused
  <2>8. pass.road = bundle[job[r]] BY <1>1, <2>2, <2>3 DEF IInv, Outdated
  <2>9. n \notin pass.old
    <3>1. rows[n].verdict # pass.road BY <2>1, <2>8 DEF Stained
    <3>2. ~Corrects(pass.rows, n, pass.road) BY <2>2 DEF Corrects
    <3> QED BY <1>1, <2>2, <3>1, <3>2 DEF IInv, Redone
  <2> QED BY <2>7, <2>9
<1>2. Heals => [Heals]_vars OBVIOUS
<1> QED BY <1>1, Inductive, PTL DEF PassHeals
=============================================================================
