------------------------------ MODULE SyncProofs ------------------------------
(***************************************************************************)
(* The adapters that remember what the sync service has had its say on,    *)
(* for every value of the constants.                                       *)
(*                                                                         *)
(* First the sessions adapter: its types; what a crash finds again; what   *)
(* its records say of the service; the order in which the service is told  *)
(* of a drive.  Then the tracks adapter.                                   *)
(***************************************************************************)
EXTENDS SessionsSync, MCAdapters, FiniteSetTheorems, SequenceTheorems, TLAPS

\* Taking one place out of a queue moves those behind it up by one.
LEMMA RemoveAtPlaces ==
    ASSUME NEW q \in Queues, NEW i \in DOMAIN q
    PROVE  /\ RemoveAt(q, i) \in Seq(LapIds) /\ Len(RemoveAt(q, i)) = Len(q) - 1
           /\ \A k \in 1..(Len(q) - 1) :
                 RemoveAt(q, i)[k] = IF k < i THEN q[k] ELSE q[k + 1]
<1> DEFINE a == SubSeq(q, 1, i - 1)
           b == SubSeq(q, i + 1, Len(q))
<1>1. q \in Seq(LapIds) /\ IsInjective(q) BY DEF Queues
<1>2. /\ Len(q) \in Nat /\ DOMAIN q = 1..Len(q)
      /\ \A k \in 1..Len(q) : q[k] \in LapIds
  BY <1>1, LenProperties
<1>3. PICK n \in Nat : n = Len(q) BY <1>2
<1>4. i \in 1..n BY <1>2, <1>3
<1>5. /\ a \in Seq(LapIds) /\ Len(a) = i - 1
      /\ \A k \in 1..(i - 1) : a[k] = q[k]
  <2>1. \A k \in 1..(i - 1) : q[k] \in LapIds BY <1>2, <1>3, <1>4
  <2>2. /\ a \in Seq(LapIds)
        /\ Len(a) = IF 1 <= i - 1 THEN (i - 1) - 1 + 1 ELSE 0
        /\ \A k \in 1..((i - 1) - 1 + 1) : a[k] = q[1 + k - 1]
    BY <2>1, <1>4, SubSeqProperties
  <2> HIDE DEF a
  <2> QED BY <2>2, <1>4
<1>6. /\ b \in Seq(LapIds) /\ Len(b) = n - i
      /\ \A k \in 1..(n - i) : b[k] = q[i + k]
  <2>1. \A k \in (i + 1)..n : q[k] \in LapIds BY <1>2, <1>3, <1>4
  <2>2. /\ b \in Seq(LapIds)
        /\ Len(b) = IF i + 1 <= n THEN n - (i + 1) + 1 ELSE 0
        /\ \A k \in 1..(n - (i + 1) + 1) : b[k] = q[(i + 1) + k - 1]
    BY <2>1, <1>3, <1>4, SubSeqProperties
  <2> HIDE DEF b
  <2>3. Len(b) = n - i
    <3>1. n \in Int /\ i \in Int /\ i <= n BY <1>4
    <3>2. n - (i + 1) + 1 = n - i /\ (~(i + 1 <= n) => n - i = 0) BY <3>1
    <3> QED BY <2>2, <3>2
  <2>4. ASSUME NEW k \in 1..(n - i) PROVE b[k] = q[i + k]
    <3>1. k \in 1..(n - (i + 1) + 1) /\ (i + 1) + k - 1 = i + k BY <1>4
    <3> QED BY <3>1, <2>2
  <2> QED BY <2>2, <2>3, <2>4
<1> HIDE DEF a, b
<1>7. /\ a \o b \in Seq(LapIds) /\ Len(a \o b) = n - 1
      /\ \A k \in 1..(n - 1) : (a \o b)[k] = IF k < i THEN q[k] ELSE q[k + 1]
  <2>1. /\ a \o b \in Seq(LapIds) /\ Len(a \o b) = Len(a) + Len(b)
        /\ \A k \in 1..(Len(a) + Len(b)) :
              (a \o b)[k] = IF k <= Len(a) THEN a[k] ELSE b[k - Len(a)]
    BY <1>5, <1>6, ConcatProperties
  <2>2. ASSUME NEW k \in 1..(n - 1)
        PROVE  (a \o b)[k] = IF k < i THEN q[k] ELSE q[k + 1]
    <3>1. (a \o b)[k] = IF k <= i - 1 THEN a[k] ELSE b[k - (i - 1)]
      BY <2>1, <1>4, <1>5, <1>6
    <3>2. CASE k < i BY <3>1, <3>2, <1>4, <1>5
    <3>3. CASE ~(k < i)
      <4>1. k - (i - 1) \in 1..(n - i) /\ i + (k - (i - 1)) = k + 1 BY <3>3, <1>4
      <4> QED BY <4>1, <3>1, <3>3, <1>4, <1>6
    <3> QED BY <3>2, <3>3
  <2> QED BY <2>1, <2>2, <1>4, <1>5, <1>6
<1>8. RemoveAt(q, i) = a \o b BY DEF RemoveAt, a, b
<1> QED BY <1>3, <1>7, <1>8

\* Taking one place out of a queue leaves a queue.
LEMMA RemoveAtType ==
    ASSUME NEW q \in Queues, NEW i \in DOMAIN q
    PROVE  RemoveAt(q, i) \in Queues
<1> DEFINE z == RemoveAt(q, i)
<1>1. q \in Seq(LapIds) /\ IsInjective(q) BY DEF Queues
<1>2. Len(q) \in Nat /\ DOMAIN q = 1..Len(q) BY <1>1, LenProperties
<1>3. PICK n \in Nat : n = Len(q) BY <1>2
<1>4. i \in 1..n BY <1>2, <1>3
<1>5. /\ z \in Seq(LapIds) /\ Len(z) = n - 1
      /\ \A k \in 1..(n - 1) : z[k] = IF k < i THEN q[k] ELSE q[k + 1]
  BY <1>3, RemoveAtPlaces
<1> HIDE DEF z
<1>6. IsInjective(z)
  <2>1. DOMAIN z = 1..(n - 1) BY <1>5, LenProperties
  <2> SUFFICES ASSUME NEW j \in 1..(n - 1), NEW k \in 1..(n - 1),
                      z[j] = z[k]
               PROVE  j = k
    BY <2>1 DEF IsInjective
  <2>2. \A x, y \in 1..n : q[x] = q[y] => x = y BY <1>1, <1>2, <1>3 DEF IsInjective
  <2>3. \A k1 \in 1..(n - 1) :
           /\ (IF k1 < i THEN k1 ELSE k1 + 1) \in 1..n
           /\ z[k1] = q[IF k1 < i THEN k1 ELSE k1 + 1]
    BY <1>5, <1>4
  <2>4. (IF j < i THEN j ELSE j + 1) = (IF k < i THEN k ELSE k + 1) BY <2>2, <2>3
  <2> QED BY <2>4, <1>4
<1> QED BY <1>5, <1>6 DEF Queues, z

\* Removing a lap from a queue that holds it leaves a queue.
LEMMA WithoutType ==
    ASSUME NEW q \in Queues, NEW l \in ToSet(q)
    PROVE  Without(q, l) \in Queues
<1>1. PICK i \in DOMAIN q : q[i] = l BY DEF ToSet
<1>2. (CHOOSE k \in DOMAIN q : q[k] = l) \in DOMAIN q BY <1>1
<1> QED BY <1>2, RemoveAtType DEF Without

\* Appending a lap a queue does not hold leaves a queue.
LEMMA AppendType ==
    ASSUME NEW q \in Queues, NEW l \in LapIds, l \notin ToSet(q)
    PROVE  Append(q, l) \in Queues
<1>1. q \in Seq(LapIds) /\ IsInjective(q) BY DEF Queues
<1>2. Len(q) \in Nat /\ DOMAIN q = 1..Len(q) BY <1>1, LenProperties
<1>3. /\ Append(q, l) \in Seq(LapIds) /\ Len(Append(q, l)) = Len(q) + 1
      /\ \A i \in 1..Len(q) : Append(q, l)[i] = q[i]
      /\ Append(q, l)[Len(q) + 1] = l
  BY <1>1, AppendProperties
<1>4. DOMAIN Append(q, l) = 1..(Len(q) + 1) BY <1>3, LenProperties
<1>5. \A i \in 1..Len(q) : q[i] # l BY <1>2 DEF ToSet
<1>6. \A i, k \in 1..Len(q) : q[i] = q[k] => i = k BY <1>1, <1>2 DEF IsInjective
<1>7. IsInjective(Append(q, l))
  <2> DEFINE z == Append(q, l)
  <2> HIDE DEF z
  <2> SUFFICES ASSUME NEW i \in 1..(Len(q) + 1), NEW k \in 1..(Len(q) + 1), z[i] = z[k]
               PROVE  i = k
    BY <1>4 DEF IsInjective, z
  <2> QED BY <1>3, <1>5, <1>6, <1>2 DEF z
<1> QED BY <1>3, <1>7 DEF Queues

\* Dropping the first n laps of a queue leaves a queue.
LEMMA DropType ==
    ASSUME NEW q \in Queues, NEW n \in Nat
    PROVE  SubSeq(q, n + 1, Len(q)) \in Queues
<1>1. q \in Seq(LapIds) /\ IsInjective(q) BY DEF Queues
<1>2. /\ Len(q) \in Nat /\ DOMAIN q = 1..Len(q)
      /\ \A k \in 1..Len(q) : q[k] \in LapIds
  BY <1>1, LenProperties
<1>3. PICK m \in Nat : m = Len(q) BY <1>2
<1> DEFINE b == SubSeq(q, n + 1, m)
<1>4. /\ b \in Seq(LapIds)
      /\ Len(b) = IF n + 1 <= m THEN m - (n + 1) + 1 ELSE 0
      /\ \A k \in 1..(m - (n + 1) + 1) : b[k] = q[(n + 1) + k - 1]
  <2>1. \A k \in (n + 1)..m : q[k] \in LapIds BY <1>2, <1>3
  <2> QED BY <2>1, SubSeqProperties
<1> HIDE DEF b
<1>5. DOMAIN b = 1..Len(b) BY <1>4, LenProperties
<1>6. \A x, y \in 1..m : q[x] = q[y] => x = y BY <1>1, <1>2, <1>3 DEF IsInjective
<1>7. IsInjective(b)
  <2> SUFFICES ASSUME NEW j \in DOMAIN b, NEW k \in DOMAIN b, b[j] = b[k]
               PROVE  j = k
    BY DEF IsInjective
  <2>1. /\ j \in 1..(m - (n + 1) + 1) /\ k \in 1..(m - (n + 1) + 1)
        /\ (n + 1) + j - 1 \in 1..m /\ (n + 1) + k - 1 \in 1..m
    BY <1>4, <1>5
  <2>2. (n + 1) + j - 1 = (n + 1) + k - 1 BY <2>1, <1>4, <1>6
  <2> QED BY <2>1, <2>2
<1> QED BY <1>3, <1>4, <1>7 DEF Queues, b

-----------------------------------------------------------------------------
(* The types of the values the actions build.                              *)

LEMMA EmptyQueue == <<>> \in Queues
<1>1. <<>> \in Seq(LapIds) /\ Len(<<>>) = 0 BY EmptySeq
<1>2. DOMAIN <<>> = {} BY <1>1, LenProperties
<1> QED BY <1>1, <1>2 DEF Queues, IsInjective

LEMMA NoRecordType == NoRecord \in Record /\ NewRecord \in Record
<1>1. 0 \in 0..MaxRemote /\ [l \in LapIds |-> "none"] \in [LapIds -> Verdicts]
  BY BoundsAssumption DEF Verdicts
<1> QED BY <1>1, EmptyQueue DEF NoRecord, NewRecord, Record

LEMMA NoJobType ==
    /\ NoJob \in Job /\ Spawned \in Job /\ Ready \in Job
    /\ NoJob.at = "off" /\ Spawned.at = "new" /\ Ready.at = "ready"
<1>1. /\ 0 \in 0..MaxLap /\ 0 \in 0..MaxRemote /\ 0 \in 0..MaxRulings
      /\ 0 \in Sessions \cup {0} /\ HomeUrl \in Urls /\ NoLap \in Lap \cup {NoLap}
  BY BoundsAssumption, ServiceAssumption
<1> QED BY <1>1 DEF NoJob, Spawned, Ready, Job, JobFields, Kinds, Replies

\* One field of a record replaced by a value of its type.
LEMMA RecordFields ==
    ASSUME NEW r \in Record
    PROVE  /\ \A x \in BOOLEAN :
                /\ [r EXCEPT !.circuit = x] \in Record
                /\ [r EXCEPT !.trackPending = x] \in Record
                /\ [r EXCEPT !.trackError = x] \in Record
                /\ [r EXCEPT !.endPending = x] \in Record
                /\ [r EXCEPT !.ended = x] \in Record
                /\ [r EXCEPT !.analysisPending = x] \in Record
                /\ [r EXCEPT !.closed = x] \in Record
           /\ \A q \in Queues : [r EXCEPT !.queue = q] \in Record
           /\ \A t \in 0..MaxRemote : [r EXCEPT !.remote = t] \in Record
BY DEF Record

LEMMA TrimType ==
    ASSUME NEW rs \in [Sessions -> Record]
    PROVE  /\ TrimQueue(rs) \in [Sessions -> Record]
           /\ Trimmed(rs) \subseteq LapIds
<1>1. ASSUME NEW s \in Sessions
      PROVE  /\ rs[s].queue \in Queues /\ Cardinality(Overflow(rs, s)) \in Nat
             /\ \A i \in Overflow(rs, s) : rs[s].queue[i] \in LapIds
  <2>1. rs[s].queue \in Queues BY DEF Record
  <2>2. rs[s].queue \in Seq(LapIds) BY <2>1 DEF Queues
  <2>3. /\ Len(rs[s].queue) \in Nat /\ DOMAIN rs[s].queue = 1..Len(rs[s].queue)
        /\ \A k \in 1..Len(rs[s].queue) : rs[s].queue[k] \in LapIds
    BY <2>2, LenProperties
  <2>4. IsFiniteSet(DOMAIN rs[s].queue) BY <2>3, FS_Interval
  <2>5. Overflow(rs, s) \subseteq DOMAIN rs[s].queue BY DEF Overflow
  <2>6. IsFiniteSet(Overflow(rs, s)) BY <2>4, <2>5, FS_Subset
  <2> QED BY <2>1, <2>3, <2>5, <2>6, FS_CardinalityType
<1>2. ASSUME NEW s \in Sessions
      PROVE  [rs[s] EXCEPT !.queue =
                 SubSeq(@, Cardinality(Overflow(rs, s)) + 1, Len(@))] \in Record
  <2>1. SubSeq(rs[s].queue, Cardinality(Overflow(rs, s)) + 1, Len(rs[s].queue)) \in Queues
    BY <1>1, DropType
  <2> QED BY <2>1, RecordFields
<1> QED BY <1>1, <1>2 DEF TrimQueue, Trimmed

LEMMA EndedRecordType ==
    ASSUME NEW r \in Record PROVE EndedRecord(r) \in Record
BY NoRecordType DEF EndedRecord, Record

LEMMA ClosePreviousType ==
    ASSUME rec \in [Sessions -> Record] PROVE ClosePrevious \in [Sessions -> Record]
<1>1. \A s \in Sessions : EndedRecord(rec[s]) \in Record BY EndedRecordType
<1> QED BY <1>1, NoRecordType DEF ClosePrevious

LEMMA WithLapType ==
    ASSUME NEW r \in Record, NEW l \in LapIds, NEW known \in BOOLEAN
    PROVE  WithLap(r, l, known) \in Record
<1> DEFINE q == IF l \in ToSet(r.queue) THEN r.queue ELSE Append(r.queue, l)
           late == r.remote # 0 /\ ~r.trackError /\ known /\ ~r.circuit
           c == IF r.remote = 0 \/ late THEN r.circuit \/ known ELSE r.circuit
<1>1. q \in Queues BY AppendType DEF Record
<1>2. c \in BOOLEAN /\ (r.trackPending \/ late) \in BOOLEAN BY DEF Record
<1>3. WithLap(r, l, known) =
        [r EXCEPT !.circuit = c, !.trackPending = r.trackPending \/ late, !.queue = q]
  BY DEF WithLap
<1> HIDE DEF q, late, c
<1> QED BY <1>1, <1>2, <1>3 DEF Record

LEMMA DisownedType ==
    ASSUME NEW S, job \in [Workers -> Job]
    PROVE  /\ Disowned(S) \in [Workers -> Job]
           /\ \A w \in Workers : Disowned(S)[w].at = job[w].at
<1>1. ASSUME NEW j \in Job PROVE [j EXCEPT !.own = FALSE] \in Job
  BY DEF Job, JobFields
<1>2. \A w \in Workers : [job[w] EXCEPT !.own = FALSE].at = job[w].at
  BY DEF Job, JobFields
<1> HIDE DEF Job
<1> QED BY <1>1, <1>2 DEF Disowned

-----------------------------------------------------------------------------
(* The workers' part of the state under the operators that change it.      *)

\* A worker moves on within its coroutine.
LEMMA StepType ==
    ASSUME WorkerTypeOK, NEW w \in Workers, NEW v \in Job, v.at # "off",
           job' = [job EXCEPT ![w] = v], UNCHANGED <<task, cancelled>>
    PROVE  WorkerTypeOK'
BY DEF WorkerTypeOK

\* A worker's coroutine ends.
LEMMA EndsType ==
    ASSUME WorkerTypeOK, NEW w \in Workers, w \notin cancelled,
           NEW j \in [Workers -> Job], \A v \in Workers : j[v].at = job[v].at,
           job' = [j EXCEPT ![w] = NoJob], task' = 0, UNCHANGED cancelled
    PROVE  WorkerTypeOK'
BY NoJobType DEF WorkerTypeOK

LEMMA KickType ==
    ASSUME WorkerTypeOK, NEW j \in [Workers -> Job],
           \A v \in Workers : j[v].at = job[v].at, Kick(j)
    PROVE  WorkerTypeOK'
<1>1. CASE Active /\ task = 0
  <2>1. PICK w \in Workers : /\ j[w].at = "off" /\ task' = w
                             /\ job' = [j EXCEPT ![w] = Spawned]
                             /\ cancelled' = cancelled
    BY <1>1 DEF Kick
  <2> QED BY <2>1, NoJobType DEF WorkerTypeOK
<1>2. CASE ~(Active /\ task = 0)
  BY <1>2 DEF Kick, WorkerTypeOK
<1> QED BY <1>1, <1>2

LEMMA HaltType ==
    ASSUME WorkerTypeOK, NEW j \in [Workers -> Job],
           \A v \in Workers : j[v].at = job[v].at, Halt(j)
    PROVE  WorkerTypeOK'
BY DEF WorkerTypeOK, Halt

LEMMA DisownsType ==
    ASSUME WorkerTypeOK, NEW S, job' = Disowned(S), UNCHANGED <<task, cancelled>>
    PROVE  WorkerTypeOK'
<1>1. job \in [Workers -> Job] BY DEF WorkerTypeOK
<1> QED BY <1>1, DisownedType DEF WorkerTypeOK

LEMMA WriteType ==
    ASSUME NEW r \in [Sessions -> Record], recUrl \in Urls, Write(r)
    PROVE  disk' \in [url: Urls, recs: [Sessions -> Record]]
BY DEF Write

-----------------------------------------------------------------------------
(* The recorder's actions.                                                 *)

LEMMA SessionStartedType == TypeOK /\ SessionStarted => TypeOK'
<1> SUFFICES ASSUME TypeOK, SessionStarted PROVE TypeOK' OBVIOUS
<1> USE DEF TypeOK
<1>1. DbTypeOK'
  <2>1. opened' \in 0..MaxSession /\ open' \in 0..opened'
    BY BoundsAssumption DEF SessionStarted, DbTypeOK
  <2> QED BY <2>1 DEF SessionStarted, DbTypeOK
<1>2. AdapterTypeOK'
  <2>1. ClosePrevious \in [Sessions -> Record] BY ClosePreviousType DEF AdapterTypeOK
  <2>2. rec' \in [Sessions -> Record] BY <2>1, NoRecordType DEF SessionStarted
  <2>3. disk' \in [url: Urls, recs: [Sessions -> Record]]
    BY <2>1, WriteType DEF SessionStarted, AdapterTypeOK
  <2> QED BY <2>2, <2>3 DEF SessionStarted, AdapterTypeOK
<1>3. WorkerTypeOK'
  <2>1. PICK S : IF ClosingKicks THEN Kick(Disowned(S))
                 ELSE job' = Disowned(S) /\ UNCHANGED <<task, cancelled>>
    BY DEF SessionStarted
  <2>2. CASE ClosingKicks BY <2>1, <2>2, DisownedType, KickType DEF WorkerTypeOK
  <2>3. CASE ~ClosingKicks BY <2>1, <2>3, DisownsType
  <2> QED BY <2>2, <2>3
<1>4. ClientTypeOK' /\ ServerTypeOK'
  BY DEF SessionStarted, ClientTypeOK, ServerTypeOK, clientVars, serverVars
<1> QED BY <1>1, <1>2, <1>3, <1>4

LEMMA LapSavedType == ASSUME NEW l \in LapIds PROVE TypeOK /\ LapSaved(l) => TypeOK'
<1> SUFFICES ASSUME TypeOK, LapSaved(l) PROVE TypeOK' OBVIOUS
<1> USE DEF TypeOK
<1>0. open \in Sessions /\ circuit' \in BOOLEAN
  <2>1. open \in Sessions BY BoundsAssumption DEF LapSaved, DbTypeOK, Sessions
  <2>2. circuit' \in BOOLEAN BY DEF LapSaved, DbTypeOK
  <2> QED BY <2>1, <2>2
<1>1. DbTypeOK'
  <2>1. [session |-> open, lap |-> finished + 1, ver |-> 0] \in Lap
    BY <1>0, BoundsAssumption DEF LapSaved, DbTypeOK, Lap
  <2> QED BY <1>0, <2>1, BoundsAssumption DEF LapSaved, DbTypeOK
<1> DEFINE held  == IF rec[open].held THEN rec[open] ELSE NewRecord
           owed == [rec EXCEPT ![open] = WithLap(held, l, circuit')]
<1>2. owed \in [Sessions -> Record]
  BY <1>0, NoRecordType, WithLapType DEF AdapterTypeOK
<1>3. CASE rec[open].closed
  <2>1. UNCHANGED <<rec, dropped, disk, workerVars, recUrl, hold>>
    BY <1>3 DEF LapSaved
  <2>2. AdapterTypeOK' /\ WorkerTypeOK' BY <2>1 DEF AdapterTypeOK, WorkerTypeOK, workerVars
  <2> QED BY <1>1, <2>2 DEF LapSaved, ClientTypeOK, ServerTypeOK, clientVars, serverVars
<1>4. CASE ~rec[open].closed
  <2>1. /\ rec' = TrimQueue(owed) /\ dropped' = dropped \cup Trimmed(owed)
        /\ Write(rec') /\ Kick(job) /\ UNCHANGED <<recUrl, hold>>
    BY <1>4 DEF LapSaved
  <2> HIDE DEF owed
  <2>2. rec' \in [Sessions -> Record] /\ dropped' \subseteq LapIds
    BY <1>2, <2>1, TrimType DEF AdapterTypeOK
  <2>3. AdapterTypeOK' BY <2>1, <2>2, WriteType DEF AdapterTypeOK
  <2>4. WorkerTypeOK' BY <2>1, KickType DEF WorkerTypeOK
  <2> QED BY <1>1, <2>3, <2>4
          DEF LapSaved, ClientTypeOK, ServerTypeOK, clientVars, serverVars
<1> QED BY <1>3, <1>4

LEMMA RulingCommittedType ==
    ASSUME NEW l \in LapIds PROVE TypeOK /\ RulingCommitted(l) => TypeOK'
<1> SUFFICES ASSUME TypeOK, RulingCommitted(l) PROVE TypeOK' OBVIOUS
<1> USE DEF TypeOK
<1>1. rows[l] \in Lap BY DEF RulingCommitted, Stored, DbTypeOK
<1>2. rulings' \in 0..MaxRulings /\ rulings' = rulings + 1
  BY BoundsAssumption DEF RulingCommitted, DbTypeOK
<1>3. [rows[l] EXCEPT !.ver = rulings + 1] \in Lap BY <1>1, <1>2 DEF Lap
<1>4. rows[l].session \in Sessions BY <1>1 DEF Lap
<1>5. DbTypeOK' BY <1>2, <1>3, <1>4 DEF RulingCommitted, DbTypeOK
<1> QED BY <1>5 DEF RulingCommitted, AdapterTypeOK, WorkerTypeOK, ClientTypeOK,
                    ServerTypeOK, adapterVars, workerVars, clientVars, serverVars

LEMMA LapChangedType ==
    ASSUME NEW l \in LapIds, NEW s \in Sessions PROVE TypeOK /\ LapChanged(l, s) => TypeOK'
<1> SUFFICES ASSUME TypeOK, LapChanged(l, s) PROVE TypeOK' OBVIOUS
<1> USE DEF TypeOK
<1> DEFINE r == rec[s]
           q == IF r.laps[l] = "synced" /\ l \notin ToSet(r.queue)
                THEN Append(r.queue, l) ELSE r.queue
           n == [r EXCEPT !.analysisPending = r.analysisPending \/ (r.ended /\ ~r.endPending),
                          !.queue = q]
<1>1. n \in Record
  <2>1. r \in Record /\ r.queue \in Queues BY DEF AdapterTypeOK, Record
  <2>2. q \in Queues BY <2>1, AppendType
  <2> HIDE DEF q, r
  <2>3. (r.analysisPending \/ (r.ended /\ ~r.endPending)) \in BOOLEAN BY <2>1 DEF Record
  <2> QED BY <2>1, <2>2, <2>3 DEF Record
<1>2. /\ rec' = rec \/ rec' = [rec EXCEPT ![s] = n]
      /\ disk' = disk \/ Write(rec')
      /\ Kick(job) \/ UNCHANGED workerVars
      /\ UNCHANGED <<recUrl, hold, dropped>>
  BY DEF LapChanged
<1> HIDE DEF n
<1>3. rec' \in [Sessions -> Record] BY <1>1, <1>2 DEF AdapterTypeOK
<1>4. AdapterTypeOK' BY <1>2, <1>3, WriteType DEF AdapterTypeOK
<1>5. WorkerTypeOK'
  <2>1. CASE Kick(job) BY <2>1, KickType DEF WorkerTypeOK
  <2>2. CASE UNCHANGED workerVars BY <2>2 DEF WorkerTypeOK, workerVars
  <2> QED BY <1>2, <2>1, <2>2
<1>6. DbTypeOK' BY DEF LapChanged, DbTypeOK
<1> QED BY <1>4, <1>5, <1>6
        DEF LapChanged, ClientTypeOK, ServerTypeOK, clientVars, serverVars

LEMMA LapDeletedType ==
    ASSUME NEW l \in LapIds PROVE TypeOK /\ LapDeleted(l) => TypeOK'
BY BoundsAssumption
   DEF TypeOK, LapDeleted, Disturb, DbTypeOK, AdapterTypeOK, WorkerTypeOK, ClientTypeOK,
       ServerTypeOK, adapterVars, workerVars, clientVars, serverVars

LEMMA SessionDeletedType ==
    ASSUME NEW s \in Sessions PROVE TypeOK /\ SessionDeleted(s) => TypeOK'
<1> SUFFICES ASSUME TypeOK, SessionDeleted(s) PROVE TypeOK' OBVIOUS
<1> USE DEF TypeOK
<1>1. DbTypeOK'
  <2>1. rows' \in [LapIds -> Lap \cup {NoLap}] BY DEF SessionDeleted, DbTypeOK
  <2>2. open' \in 0..opened' BY BoundsAssumption DEF SessionDeleted, DbTypeOK
  <2>3. circuit' \in BOOLEAN BY DEF SessionDeleted, DbTypeOK
  <2> QED BY <2>1, <2>2, <2>3 DEF SessionDeleted, DbTypeOK
<1>2. rec' \in [Sessions -> Record] BY NoRecordType DEF SessionDeleted, AdapterTypeOK
<1>3. AdapterTypeOK' BY <1>2, WriteType DEF SessionDeleted, AdapterTypeOK
<1>4. WorkerTypeOK' BY DisownsType DEF SessionDeleted
<1>5. ClientTypeOK' /\ ServerTypeOK'
  BY BoundsAssumption
     DEF SessionDeleted, Disturb, ClientTypeOK, ServerTypeOK, clientVars, serverVars
<1> QED BY <1>1, <1>3, <1>4, <1>5

LEMMA AllClearedType == TypeOK /\ AllCleared => TypeOK'
<1> SUFFICES ASSUME TypeOK, AllCleared PROVE TypeOK' OBVIOUS
<1> USE DEF TypeOK
<1>1. DbTypeOK'
  <2>1. rows' \in [LapIds -> Lap \cup {NoLap}] BY DEF AllCleared, DbTypeOK
  <2>2. open' \in 0..opened' BY BoundsAssumption DEF AllCleared, DbTypeOK
  <2>3. circuit' \in BOOLEAN BY DEF AllCleared, DbTypeOK
  <2> QED BY <2>1, <2>2, <2>3 DEF AllCleared, DbTypeOK
<1>2. rec' \in [Sessions -> Record] BY NoRecordType DEF AllCleared, AdapterTypeOK
<1>3. AdapterTypeOK' BY <1>2, WriteType DEF AllCleared, AdapterTypeOK
<1>4. WorkerTypeOK' BY DisownsType DEF AllCleared
<1>5. ClientTypeOK' /\ ServerTypeOK'
  BY BoundsAssumption
     DEF AllCleared, Disturb, ClientTypeOK, ServerTypeOK, clientVars, serverVars
<1> QED BY <1>1, <1>3, <1>4, <1>5

-----------------------------------------------------------------------------
(* The worker's actions.                                                   *)

\* The parts of the state no worker touches.
LEMMA WorkerLeavesType ==
    ASSUME TypeOK, UNCHANGED <<dbVars, caps, url, resetting, bringUp, serverVars>>,
           on' \in BOOLEAN, chaos' \in 0..MaxChaos
    PROVE  DbTypeOK' /\ ClientTypeOK' /\ ServerTypeOK'
BY DEF TypeOK, DbTypeOK, ClientTypeOK, ServerTypeOK, dbVars, serverVars

\* The adapter's part, once the records have their type and the file was
\* written or left alone.
LEMMA AdapterStepType ==
    ASSUME TypeOK, rec' \in [Sessions -> Record], UNCHANGED <<recUrl, dropped>>,
           hold' \in BOOLEAN, Write(rec') \/ disk' = disk
    PROVE  AdapterTypeOK'
BY WriteType DEF TypeOK, AdapterTypeOK

LEMMA ReadyType ==
    ASSUME TypeOK, NEW w \in Workers, job' = [job EXCEPT ![w] = Ready],
           UNCHANGED <<task, cancelled>>
    PROVE  WorkerTypeOK'
BY StepType, NoJobType DEF TypeOK

LEMMA WorkerStopsType ==
    ASSUME NEW w \in Workers PROVE TypeOK /\ WorkerStops(w) => TypeOK'
<1> SUFFICES ASSUME TypeOK, WorkerStops(w) PROVE TypeOK' OBVIOUS
<1>1. WorkerTypeOK'
  BY EndsType DEF TypeOK, WorkerTypeOK, WorkerStops, Turn, Ends
<1>2. AdapterTypeOK' BY DEF TypeOK, AdapterTypeOK, WorkerStops
<1>3. DbTypeOK' /\ ClientTypeOK' /\ ServerTypeOK'
  BY DEF TypeOK, WorkerStops, DbTypeOK, ClientTypeOK, ServerTypeOK, dbVars,
         clientVars, serverVars
<1> QED BY <1>1, <1>2, <1>3 DEF TypeOK

LEMMA WorkerIdlesType ==
    ASSUME NEW w \in Workers PROVE TypeOK /\ WorkerIdles(w) => TypeOK'
<1> SUFFICES ASSUME TypeOK, WorkerIdles(w) PROVE TypeOK' OBVIOUS
<1>1. WorkerTypeOK'
  <2>1. PICK S : job' = [Disowned(S) EXCEPT ![w] = NoJob] BY DEF WorkerIdles
  <2>2. /\ Disowned(S) \in [Workers -> Job]
        /\ \A v \in Workers : Disowned(S)[v].at = job[v].at
    BY DisownedType DEF TypeOK, WorkerTypeOK
  <2> QED BY <2>1, <2>2, EndsType DEF TypeOK, WorkerIdles, Turn
<1>2. AdapterTypeOK'
  <2>1. rec' \in [Sessions -> Record]
    BY NoRecordType DEF TypeOK, AdapterTypeOK, WorkerIdles, Pruned
  <2>2. Write(rec') BY DEF WorkerIdles
  <2> QED BY <2>1, <2>2, AdapterStepType DEF WorkerIdles, TypeOK, AdapterTypeOK
<1>3. DbTypeOK' /\ ClientTypeOK' /\ ServerTypeOK'
  BY DEF TypeOK, WorkerIdles, DbTypeOK, ClientTypeOK, ServerTypeOK, dbVars,
         clientVars, serverVars
<1> QED BY <1>1, <1>2, <1>3 DEF TypeOK

LEMMA SettledType ==
    ASSUME NEW r \in Record, NEW v \in {"synced", "rejected", "skipped", "not_taken"}
    PROVE  Settled(r, v) \in Record
BY DEF Settled, Record

LEMMA PushNextType ==
    ASSUME NEW w \in Workers PROVE TypeOK /\ PushNext(w) => TypeOK'
<1> SUFFICES ASSUME TypeOK, PushNext(w) PROVE TypeOK' OBVIOUS
<1> DEFINE begun(s, at, kind, l) ==
              [Ready EXCEPT !.at = at, !.kind = kind, !.lap = l, !.session = s,
                            !.own = TRUE, !.target = rec[s].remote, !.url = url,
                            !.names = NamesCircuit(rec[s])]
           begin(s, at, kind, l) ==
              job' = [job EXCEPT ![w] = begun(s, at, kind, l)] /\ UNCHANGED <<rec, disk>>
<1>1. PICK s \in Sessions :
         \/ begin(s, "sent", "start", 0) \/ begin(s, "sent", "name", 0)
         \/ rec[s].queue # <<>> /\ begin(s, "load", "lap", Head(rec[s].queue))
         \/ begin(s, "load", "end", 0) \/ begin(s, "load", "analysis", 0)
         \/ /\ rec' = [rec EXCEPT ![s] = Settled(rec[s], "not_taken")] /\ Write(rec')
            /\ job' = [job EXCEPT ![w] = Ready]
  <2>1. PICK s \in Sessions :
          IF rec[s].remote = 0 THEN begin(s, "sent", "start", 0)
          ELSE IF NamesNow(rec[s]) THEN begin(s, "sent", "name", 0)
          ELSE IF rec[s].queue # <<>> THEN begin(s, "load", "lap", Head(rec[s].queue))
          ELSE IF rec[s].endPending THEN begin(s, "load", "end", 0)
          ELSE IF "analysis_version" \in Hints THEN begin(s, "load", "analysis", 0)
          ELSE /\ rec' = [rec EXCEPT ![s] = Settled(rec[s], "not_taken")]
               /\ Write(rec')
               /\ job' = [job EXCEPT ![w] = Ready]
    BY DEF PushNext
  <2> HIDE DEF begin
  <2> QED BY <2>1
<1>2. rec[s] \in Record /\ UNCHANGED <<task, cancelled, recUrl, hold, dropped>>
  BY DEF TypeOK, AdapterTypeOK, PushNext
<1>3. ASSUME NEW at \in {"sent", "load"}, NEW kind \in Kinds, NEW l \in 0..MaxLap,
             kind = "lap" => l # 0 /\ at = "load", begin(s, at, kind, l)
      PROVE  WorkerTypeOK' /\ AdapterTypeOK'
  <2>1. NamesCircuit(rec[s]) \in BOOLEAN BY <1>2 DEF NamesCircuit, Record
  <2>2. url \in Urls /\ rec[s].remote \in 0..MaxRemote
    BY <1>2 DEF TypeOK, ClientTypeOK, Record
  <2>3. begun(s, at, kind, l) \in Job /\ begun(s, at, kind, l).at = at
    <3>1. s # 0 BY DEF Sessions
    <3> QED BY <3>1, <2>1, <2>2, <1>3, NoJobType DEF Job, JobFields
  <2> HIDE DEF begun
  <2>4. WorkerTypeOK' BY <1>2, <1>3, <2>3, StepType DEF TypeOK
  <2>5. AdapterTypeOK' BY <1>2, <1>3 DEF TypeOK, AdapterTypeOK
  <2> QED BY <2>4, <2>5
<1>4. WorkerTypeOK' /\ AdapterTypeOK'
  <2>1. ASSUME rec[s].queue # <<>> PROVE Head(rec[s].queue) \in 0..MaxLap /\ Head(rec[s].queue) # 0
    <3>1. rec[s].queue \in Seq(LapIds) BY <1>2 DEF Record, Queues
    <3>2. Head(rec[s].queue) \in LapIds BY <3>1, <2>1, HeadTailProperties
    <3> QED BY <3>2, BoundsAssumption DEF LapIds
  <2>2. ASSUME rec' = [rec EXCEPT ![s] = Settled(rec[s], "not_taken")], Write(rec'),
               job' = [job EXCEPT ![w] = Ready]
        PROVE  WorkerTypeOK' /\ AdapterTypeOK'
    <3>1. rec' \in [Sessions -> Record]
      BY <1>2, <2>2, SettledType DEF TypeOK, AdapterTypeOK
    <3>2. hold' \in BOOLEAN BY <1>2 DEF TypeOK, AdapterTypeOK
    <3> QED BY <3>1, <3>2, <1>2, <2>2, AdapterStepType, ReadyType
  <2> HIDE DEF begin
  <2>3. 0 \in 0..MaxLap BY BoundsAssumption
  <2> QED BY <1>1, <1>3, <2>1, <2>2, <2>3 DEF Kinds
<1>5. DbTypeOK' /\ ClientTypeOK' /\ ServerTypeOK'
  BY DEF TypeOK, PushNext, DbTypeOK, ClientTypeOK, ServerTypeOK, dbVars,
         clientVars, serverVars
<1> QED BY <1>4, <1>5 DEF TypeOK

\* A worker's request leaves: what it carries has its type.
LEMMA SendType ==
    ASSUME TypeOK, NEW w \in Workers, NEW j \in JobFields, Send(w, j),
           j.own => j.session # 0,
           j.kind = "lap" => j.lap # 0 /\ j.doc # NoLap,
           UNCHANGED <<task, cancelled>>
    PROVE  WorkerTypeOK'
<1>1. [j EXCEPT !.at = "sent", !.url = url] \in Job
  BY DEF TypeOK, ClientTypeOK, Job, JobFields
<1>2. [j EXCEPT !.at = "sent", !.url = url].at # "off" BY DEF JobFields
<1> HIDE DEF Job
<1> QED BY <1>1, <1>2, StepType DEF Send, TypeOK

LEMMA ResolvesType ==
    ASSUME TypeOK, NEW w \in Workers, w \notin cancelled, NEW l, NEW v \in Verdicts,
           Resolves(w, l, v), UNCHANGED <<recUrl, hold, dropped, cancelled>>
    PROVE  WorkerTypeOK' /\ AdapterTypeOK'
<1> DEFINE s == job[w].session
           r == rec[s]
           n == [r EXCEPT !.queue = Without(r.queue, l), !.laps[l] = v]
<1>0. hold' \in BOOLEAN BY DEF TypeOK, AdapterTypeOK
<1>1. CASE job[w].own /\ l \notin ToSet(r.queue)
  <2>1. Ends(w) /\ UNCHANGED <<rec, disk>> BY <1>1 DEF Resolves
  <2>2. WorkerTypeOK' BY <2>1, EndsType DEF TypeOK, WorkerTypeOK, Ends
  <2>3. AdapterTypeOK' BY <2>1 DEF TypeOK, AdapterTypeOK
  <2> QED BY <2>2, <2>3
<1>2. CASE job[w].own /\ l \in ToSet(r.queue)
  <2>1. /\ rec' = [rec EXCEPT ![s] = n] /\ Write(rec')
        /\ job' = [job EXCEPT ![w] = Ready] /\ UNCHANGED task
    BY <1>2 DEF Resolves
  <2>2. s \in Sessions BY <1>2 DEF TypeOK, WorkerTypeOK, Job, JobFields
  <2>3. r \in Record BY <2>2 DEF TypeOK, AdapterTypeOK
  <2>4. Without(r.queue, l) \in Queues BY <2>3, <1>2, WithoutType DEF Record
  <2>5. n \in Record
    <3>1. [r.laps EXCEPT ![l] = v] \in [LapIds -> Verdicts] BY <2>3 DEF Record
    <3>2. n = [[r EXCEPT !.queue = Without(r.queue, l)]
                  EXCEPT !.laps = [r.laps EXCEPT ![l] = v]]
      BY <2>3 DEF Record
    <3> HIDE DEF r, n
    <3> QED BY <2>3, <2>4, <3>1, <3>2 DEF Record
  <2> HIDE DEF n
  <2>6. rec' \in [Sessions -> Record] BY <2>1, <2>5 DEF TypeOK, AdapterTypeOK
  <2> QED BY <2>1, <2>6, <1>0, AdapterStepType, ReadyType
<1>3. CASE ~job[w].own
  <2>1. /\ rec' = rec /\ Write(rec')
        /\ job' = [job EXCEPT ![w] = Ready] /\ UNCHANGED task
    BY <1>3 DEF Resolves
  <2>2. rec' \in [Sessions -> Record] BY <2>1 DEF TypeOK, AdapterTypeOK
  <2> QED BY <2>1, <2>2, <1>0, AdapterStepType, ReadyType
<1> QED BY <1>1, <1>2, <1>3

LEMMA LapLoadedType ==
    ASSUME NEW w \in Workers PROVE TypeOK /\ LapLoaded(w) => TypeOK'
<1> SUFFICES ASSUME TypeOK, LapLoaded(w) PROVE TypeOK' OBVIOUS
<1>1. /\ w \notin cancelled /\ job[w] \in Job /\ job[w].kind = "lap"
      /\ UNCHANGED <<recUrl, hold, dropped, cancelled>>
      /\ UNCHANGED <<dbVars, caps, url, resetting, bringUp, serverVars>> /\ on' = on
  BY DEF LapLoaded, Loading, TypeOK, WorkerTypeOK, clientVars
<1>2. on' \in BOOLEAN /\ chaos' \in 0..MaxChaos
  BY <1>1, BoundsAssumption DEF LapLoaded, Disturb, TypeOK, ClientTypeOK
<1>3. WorkerTypeOK' /\ AdapterTypeOK'
  <2>1. CASE /\ rows[job[w].lap] # NoLap
             /\ Send(w, [job[w] EXCEPT !.doc = rows[job[w].lap]])
             /\ UNCHANGED <<rec, disk, task>>
    <3> DEFINE j == [job[w] EXCEPT !.doc = rows[job[w].lap]]
    <3>1. job[w].lap \in LapIds BY <1>1 DEF Job, JobFields, LapIds
    <3>2. rows[job[w].lap] \in Lap \cup {NoLap} BY <3>1 DEF TypeOK, DbTypeOK
    <3>3. /\ j \in JobFields /\ (j.own => j.session # 0)
          /\ j.kind = "lap" => j.lap # 0 /\ j.doc # NoLap
      BY <1>1, <3>2, <2>1 DEF Job, JobFields
    <3>4. Send(w, j) /\ UNCHANGED <<task, cancelled>> BY <2>1, <1>1
    <3> HIDE DEF j
    <3>6. WorkerTypeOK' BY <3>3, <3>4, SendType
    <3>5. AdapterTypeOK' BY <2>1, <1>1 DEF TypeOK, AdapterTypeOK
    <3> QED BY <3>5, <3>6
  <2>2. CASE Resolves(w, job[w].lap, "none") \/ Resolves(w, job[w].lap, "rejected")
    BY <2>2, <1>1, ResolvesType DEF Verdicts
  <2> QED BY <2>1, <2>2 DEF LapLoaded
<1> QED BY <1>1, <1>2, <1>3, WorkerLeavesType DEF TypeOK

LEMMA TotalsLoadedType ==
    ASSUME NEW w \in Workers PROVE TypeOK /\ TotalsLoaded(w) => TypeOK'
<1> SUFFICES ASSUME TypeOK, TotalsLoaded(w) PROVE TypeOK' OBVIOUS
<1> DEFINE n == IF job[w].own THEN NamesCircuit(rec[job[w].session]) ELSE job[w].names
           j == [job[w] EXCEPT !.names = n]
<1>1. job[w] \in Job /\ job[w].kind = "end" BY DEF TotalsLoaded, Loading, TypeOK, WorkerTypeOK
<1>2. n \in BOOLEAN
  <2>1. CASE job[w].own BY <2>1 DEF NamesCircuit
  <2>2. CASE ~job[w].own BY <2>2, <1>1 DEF Job, JobFields
  <2> QED BY <2>1, <2>2
<1> HIDE DEF n
<1>3. j \in JobFields /\ (j.own => j.session # 0) /\ j.kind = "end"
  BY <1>1, <1>2 DEF Job, JobFields
<1>4. Send(w, j) /\ UNCHANGED <<task, cancelled>> BY DEF TotalsLoaded, n
<1> HIDE DEF j
<1>5. WorkerTypeOK' BY <1>3, <1>4, SendType
<1>6. AdapterTypeOK' BY DEF TotalsLoaded, TypeOK, AdapterTypeOK
<1>7. DbTypeOK' /\ ClientTypeOK' /\ ServerTypeOK'
  BY DEF TypeOK, TotalsLoaded, DbTypeOK, ClientTypeOK, ServerTypeOK, dbVars,
         clientVars, serverVars
<1> QED BY <1>5, <1>6, <1>7 DEF TypeOK

LEMMA AnalysisLoadedType ==
    ASSUME NEW w \in Workers PROVE TypeOK /\ AnalysisLoaded(w) => TypeOK'
<1> SUFFICES ASSUME TypeOK, AnalysisLoaded(w) PROVE TypeOK' OBVIOUS
<1> DEFINE s == job[w].session
           settle(status) ==
               /\ rec' = IF job[w].own THEN [rec EXCEPT ![s] = Settled(rec[s], status)]
                                       ELSE rec
               /\ Write(rec')
               /\ job' = [job EXCEPT ![w] = Ready]
               /\ UNCHANGED task
<1>1. /\ job[w] \in Job /\ job[w].kind = "analysis"
      /\ UNCHANGED <<recUrl, hold, dropped, cancelled, task>>
      /\ UNCHANGED <<dbVars, caps, url, resetting, bringUp, serverVars>> /\ on' = on
  BY DEF AnalysisLoaded, Loading, TypeOK, WorkerTypeOK, clientVars
<1>2. on' \in BOOLEAN /\ chaos' \in 0..MaxChaos /\ hold' \in BOOLEAN
  BY <1>1, BoundsAssumption
     DEF AnalysisLoaded, Disturb, TypeOK, ClientTypeOK, AdapterTypeOK
<1>3. ASSUME NEW v \in 0..MaxRulings, Send(w, [job[w] EXCEPT !.ver = v]),
             UNCHANGED <<rec, disk>>
      PROVE  WorkerTypeOK' /\ AdapterTypeOK'
  <2> DEFINE j == [job[w] EXCEPT !.ver = v]
  <2>1. j \in JobFields /\ (j.own => j.session # 0) /\ j.kind = "analysis"
    BY <1>1 DEF Job, JobFields
  <2> HIDE DEF j
  <2>2. WorkerTypeOK' BY <2>1, <1>1, <1>3, SendType DEF j
  <2>3. AdapterTypeOK' BY <1>1, <1>3 DEF TypeOK, AdapterTypeOK
  <2> QED BY <2>2, <2>3
<1>4. ASSUME NEW v \in {"skipped", "rejected"}, settle(v)
      PROVE  WorkerTypeOK' /\ AdapterTypeOK'
  <2>1. rec' \in [Sessions -> Record]
    BY <1>4, SettledType DEF TypeOK, AdapterTypeOK
  <2> QED BY <2>1, <1>1, <1>2, <1>4, AdapterStepType, ReadyType
<1>5. \/ \E v \in 0..MaxRulings :
            Send(w, [job[w] EXCEPT !.ver = v]) /\ UNCHANGED <<rec, disk>>
      \/ settle("skipped") \/ settle("rejected")
  BY DEF AnalysisLoaded
<1> HIDE DEF settle
<1> QED BY <1>1, <1>2, <1>3, <1>4, <1>5, WorkerLeavesType DEF TypeOK

-----------------------------------------------------------------------------
(* The service and its answers.                                            *)

LEMMA AnswersType ==
    ASSUME TypeOK, NEW w \in Workers, job[w].at = "sent",
           NEW reply \in Replies, NEW t \in 0..MaxRemote,
           Answers(w, reply, t), UNCHANGED <<task, cancelled>>
    PROVE  WorkerTypeOK'
<1> DEFINE j == [job[w] EXCEPT !.at = "answered", !.reply = reply, !.target = t]
<1>1. job[w] \in Job /\ job \in [Workers -> Job] BY DEF TypeOK, WorkerTypeOK
<1>2. j \in Job /\ j.at # "off" BY <1>1 DEF Job, JobFields
<1>3. job' = [job EXCEPT ![w] = j] BY <1>1 DEF Answers
<1> HIDE DEF j
<1> QED BY <1>2, <1>3, StepType DEF TypeOK

LEMMA HoldingType ==
    ASSUME NEW j \in Job, j.at = "sent", NEW r \in RemoteSession
    PROVE  Holding(j, r) \in RemoteSession
<1>0. j.kind \in Kinds /\ j.names \in BOOLEAN /\ j.url \in Urls /\ j.ver \in 0..MaxRulings
      /\ j.session \in Sessions \cup {0}
  BY DEF Job, JobFields
<1>1. NoRemote \in RemoteSession
  BY BoundsAssumption, ServiceAssumption DEF NoRemote, RemoteSession
<1>2. CASE j.kind = "start"
  <2>1. j.session \in 0..MaxSession BY <1>0, BoundsAssumption DEF Sessions
  <2> QED BY <1>0, <1>1, <1>2, <2>1 DEF Holding, RemoteSession
<1>3. CASE j.kind = "name" \/ j.kind = "end"
  <2>1. (r.circuit \/ j.names) \in BOOLEAN BY <1>0 DEF RemoteSession
  <2>2. CASE j.kind = "name" BY <2>1, <2>2 DEF Holding, RemoteSession
  <2>3. CASE j.kind = "end" BY <2>1, <2>3 DEF Holding, RemoteSession
  <2> QED BY <1>3, <2>2, <2>3
<1>4. CASE j.kind = "lap"
  <2>1. j.doc \in Lap BY <1>4 DEF Job, JobFields
  <2>2. ({d \in r.laps : d.lap # j.doc.lap} \cup {j.doc}) \in SUBSET Lap
    BY <2>1 DEF RemoteSession
  <2> QED BY <2>2, <1>4 DEF Holding, RemoteSession
<1>5. CASE j.kind = "analysis"
  <2>1. j.ver \in (-1)..MaxRulings BY <1>0, BoundsAssumption
  <2> QED BY <2>1, <1>5 DEF Holding, RemoteSession
<1> QED BY <1>0, <1>2, <1>3, <1>4, <1>5 DEF Kinds

LEMMA ServiceTakesType ==
    ASSUME NEW w \in Workers PROVE TypeOK /\ ServiceTakes(w) => TypeOK'
<1> SUFFICES ASSUME TypeOK, ServiceTakes(w) PROVE TypeOK' OBVIOUS
<1>1. PICK t \in RemoteIds :
         /\ remote' = [remote EXCEPT ![t] = Holding(job[w], remote[t])]
         /\ \/ Answers(w, "ok", t) /\ UNCHANGED chaos
            \/ Answers(w, "transient", job[w].target) /\ Disturb
  BY DEF ServiceTakes
<1>2. job[w] \in Job /\ job[w].at = "sent" /\ UNCHANGED <<task, cancelled>>
  BY DEF ServiceTakes, TypeOK, WorkerTypeOK
<1>3. t \in 0..MaxRemote /\ job[w].target \in 0..MaxRemote
  BY <1>2, BoundsAssumption DEF RemoteIds, Job, JobFields
<1>4. WorkerTypeOK' BY <1>1, <1>2, <1>3, AnswersType DEF Replies
<1>5. remote[t] \in RemoteSession BY DEF TypeOK, ServerTypeOK
<1>6. Holding(job[w], remote[t]) \in RemoteSession BY <1>2, <1>5, HoldingType
<1>7. ServerTypeOK' BY <1>1, <1>6 DEF ServiceTakes, TypeOK, ServerTypeOK
<1>8. chaos' \in 0..MaxChaos
  BY <1>1, BoundsAssumption DEF Disturb, TypeOK, ClientTypeOK
<1>9. DbTypeOK' /\ AdapterTypeOK' /\ ClientTypeOK'
  BY <1>8 DEF TypeOK, ServiceTakes, DbTypeOK, AdapterTypeOK, ClientTypeOK, dbVars, clientVars
<1> QED BY <1>4, <1>7, <1>9 DEF TypeOK

LEMMA ServiceDeclinesType ==
    ASSUME NEW w \in Workers PROVE TypeOK /\ ServiceDeclines(w) => TypeOK'
<1> SUFFICES ASSUME TypeOK, ServiceDeclines(w) PROVE TypeOK' OBVIOUS
<1>1. PICK reply \in Replies : Answers(w, reply, job[w].target)
  BY DEF ServiceDeclines, Replies
<1>2. job[w] \in Job /\ job[w].at = "sent" /\ UNCHANGED <<task, cancelled>>
  BY DEF ServiceDeclines, TypeOK, WorkerTypeOK
<1>3. job[w].target \in 0..MaxRemote BY <1>2 DEF Job, JobFields
<1>4. WorkerTypeOK' BY <1>1, <1>2, <1>3, AnswersType
<1>5. chaos' \in 0..MaxChaos
  BY BoundsAssumption DEF ServiceDeclines, Disturb, TypeOK, ClientTypeOK
<1>6. DbTypeOK' /\ AdapterTypeOK' /\ ClientTypeOK' /\ ServerTypeOK'
  BY <1>5 DEF TypeOK, ServiceDeclines, DbTypeOK, AdapterTypeOK, ClientTypeOK, ServerTypeOK,
              dbVars, clientVars, serverVars
<1> QED BY <1>4, <1>6 DEF TypeOK

LEMMA ServiceOtherType ==
    TypeOK /\ (OfferChanges \/ \E r \in RemoteIds : SessionExpires(r)) => TypeOK'
<1>1. ASSUME TypeOK, OfferChanges PROVE TypeOK'
  BY <1>1, BoundsAssumption
     DEF OfferChanges, Disturb, TypeOK, DbTypeOK, AdapterTypeOK, WorkerTypeOK, ClientTypeOK,
         ServerTypeOK, dbVars, adapterVars, workerVars, clientVars
<1>2. ASSUME TypeOK, NEW r \in RemoteIds, SessionExpires(r) PROVE TypeOK'
  <2>1. remote' \in [RemoteIds -> RemoteSession]
    BY <1>2 DEF SessionExpires, TypeOK, ServerTypeOK, RemoteSession
  <2> QED
    BY <1>2, <2>1, BoundsAssumption
       DEF SessionExpires, Disturb, TypeOK, DbTypeOK, AdapterTypeOK, WorkerTypeOK,
           ClientTypeOK, ServerTypeOK, dbVars, adapterVars, workerVars, clientVars
<1> QED BY <1>1, <1>2

\* A worker notes r in its record.
LEMMA RecordsType ==
    ASSUME TypeOK, NEW w \in Workers, NEW r, job[w].own => r \in Record,
           Records(w, r), UNCHANGED <<task, cancelled, recUrl, hold, dropped>>
    PROVE  WorkerTypeOK' /\ AdapterTypeOK'
<1>1. rec' \in [Sessions -> Record] BY DEF Records, TypeOK, AdapterTypeOK
<1>2. hold' \in BOOLEAN BY DEF TypeOK, AdapterTypeOK
<1> QED BY <1>1, <1>2, AdapterStepType, ReadyType DEF Records

LEMMA OpenedAsType ==
    ASSUME NEW r \in Record, NEW t \in 0..MaxRemote, NEW named \in BOOLEAN
    PROVE  OpenedAs(r, t, named) \in Record
<1>1. (r.trackPending \/ (r.circuit /\ ~named)) \in BOOLEAN BY DEF Record
<1> QED BY <1>1 DEF OpenedAs, Record

\* What a worker that has its answer knows of its own record.
LEMMA AnsweredType ==
    ASSUME TypeOK, NEW w \in Workers, NEW replies, Answered(w, replies)
    PROVE  /\ job[w] \in Job /\ w \notin cancelled
           /\ (IF job[w].own THEN rec[job[w].session] ELSE NoRecord) \in Record
BY NoRecordType DEF Answered, TypeOK, WorkerTypeOK, AdapterTypeOK, Job, JobFields

LEMMA AcceptedType ==
    ASSUME NEW w \in Workers PROVE TypeOK /\ Accepted(w) => TypeOK'
<1> SUFFICES ASSUME TypeOK, Accepted(w) PROVE TypeOK' OBVIOUS
<1> DEFINE r == IF job[w].own THEN rec[job[w].session] ELSE NoRecord
<1>1. /\ job[w] \in Job /\ w \notin cancelled /\ r \in Record
      /\ UNCHANGED <<recUrl, hold, dropped, cancelled>>
      /\ UNCHANGED <<dbVars, caps, url, resetting, bringUp, serverVars, chaos>> /\ on' = on
  BY AnsweredType DEF Accepted, clientVars
<1>2. on' \in BOOLEAN /\ chaos' \in 0..MaxChaos BY <1>1 DEF TypeOK, ClientTypeOK
<1>3. job[w].kind \in Kinds /\ job[w].target \in 0..MaxRemote /\ job[w].names \in BOOLEAN
  BY <1>1 DEF Job, JobFields
<1>4. \/ /\ job[w].kind = "start" /\ UNCHANGED task
         /\ Records(w, OpenedAs(r, job[w].target, job[w].names))
      \/ /\ job[w].kind = "name" /\ UNCHANGED task
         /\ Records(w, [r EXCEPT !.trackPending = FALSE])
      \/ job[w].kind = "lap" /\ Resolves(w, job[w].lap, "synced")
      \/ /\ job[w].kind = "end" /\ UNCHANGED task
         /\ Records(w, [r EXCEPT !.endPending = FALSE, !.trackPending = FALSE])
      \/ /\ job[w].kind = "analysis" /\ UNCHANGED task
         /\ Records(w, Settled(r, "synced"))
  BY <1>3 DEF Accepted, Kinds
<1>5. /\ OpenedAs(r, job[w].target, job[w].names) \in Record
      /\ [r EXCEPT !.trackPending = FALSE] \in Record
      /\ [r EXCEPT !.endPending = FALSE, !.trackPending = FALSE] \in Record
      /\ Settled(r, "synced") \in Record
  <2> HIDE DEF r
  <2>1. OpenedAs(r, job[w].target, job[w].names) \in Record BY <1>1, <1>3, OpenedAsType
  <2>2. Settled(r, "synced") \in Record BY <1>1, SettledType
  <2>3. [r EXCEPT !.trackPending = FALSE] \in Record BY <1>1 DEF Record
  <2>4. [r EXCEPT !.endPending = FALSE, !.trackPending = FALSE] \in Record
    BY <1>1 DEF Record
  <2> QED BY <2>1, <2>2, <2>3, <2>4
<1> HIDE DEF r
<1>6. WorkerTypeOK' /\ AdapterTypeOK'
  <2>1. CASE Resolves(w, job[w].lap, "synced")
    BY <2>1, <1>1, ResolvesType DEF Verdicts
  <2> QED BY <2>1, <1>1, <1>4, <1>5, RecordsType
<1> QED BY <1>1, <1>2, <1>6, WorkerLeavesType DEF TypeOK

LEMMA RefusedType ==
    ASSUME NEW w \in Workers PROVE TypeOK /\ Refused(w) => TypeOK'
<1> SUFFICES ASSUME TypeOK, Refused(w) PROVE TypeOK' OBVIOUS
<1> DEFINE r == IF job[w].own THEN rec[job[w].session] ELSE NoRecord
           q == IF job[w].lap \in ToSet(r.queue) THEN Without(r.queue, job[w].lap)
                                                  ELSE r.queue
<1>1. /\ job[w] \in Job /\ w \notin cancelled /\ r \in Record
      /\ UNCHANGED <<recUrl, hold, dropped, cancelled, task>>
      /\ UNCHANGED <<dbVars, caps, url, resetting, bringUp, serverVars, chaos>> /\ on' = on
  BY AnsweredType DEF Refused, clientVars
<1>2. on' \in BOOLEAN /\ chaos' \in 0..MaxChaos BY <1>1 DEF TypeOK, ClientTypeOK
<1>3. \/ Records(w, Settled(r, "rejected"))
      \/ Records(w, [r EXCEPT !.trackPending = FALSE, !.trackError = TRUE])
      \/ Records(w, [r EXCEPT !.queue = q, !.laps[job[w].lap] = "rejected"])
      \/ Records(w, Closed(r))
  BY DEF Refused
<1>4. q \in Queues BY <1>1, WithoutType DEF Record
<1> HIDE DEF r, q
<1>5. /\ Settled(r, "rejected") \in Record
      /\ [r EXCEPT !.trackPending = FALSE, !.trackError = TRUE] \in Record
      /\ [r EXCEPT !.queue = q, !.laps[job[w].lap] = "rejected"] \in Record
      /\ Closed(r) \in Record
  <2>1. Settled(r, "rejected") \in Record BY <1>1, SettledType
  <2>2. [r EXCEPT !.trackPending = FALSE, !.trackError = TRUE] \in Record
    BY <1>1 DEF Record
  <2>3. [r EXCEPT !.queue = q, !.laps[job[w].lap] = "rejected"] \in Record
    <3>1. [r.laps EXCEPT ![job[w].lap] = "rejected"] \in [LapIds -> Verdicts]
      BY <1>1 DEF Record, Verdicts
    <3>2. [r EXCEPT !.queue = q, !.laps[job[w].lap] = "rejected"] =
            [[r EXCEPT !.queue = q]
                EXCEPT !.laps = [r.laps EXCEPT ![job[w].lap] = "rejected"]]
      BY <1>1 DEF Record
    <3> QED BY <1>1, <1>4, <3>1, <3>2 DEF Record
  <2>4. Closed(r) \in Record BY <1>1, EmptyQueue DEF Closed, Record
  <2> QED BY <2>1, <2>2, <2>3, <2>4
<1>6. WorkerTypeOK' /\ AdapterTypeOK' BY <1>1, <1>3, <1>5, RecordsType
<1> QED BY <1>1, <1>2, <1>6, WorkerLeavesType DEF TypeOK

LEMMA HeldBackType ==
    ASSUME NEW w \in Workers
    PROVE  TypeOK /\ (HeldBack(w) \/ SwitchedOffByService(w)) => TypeOK'
<1> SUFFICES ASSUME TypeOK, HeldBack(w) \/ SwitchedOffByService(w) PROVE TypeOK' OBVIOUS
<1>1. job' = [job EXCEPT ![w] = Ready] /\ UNCHANGED <<task, cancelled>>
  BY DEF HeldBack, SwitchedOffByService
<1>2. WorkerTypeOK' BY <1>1, ReadyType
<1>3. AdapterTypeOK' BY DEF HeldBack, SwitchedOffByService, TypeOK, AdapterTypeOK
<1>4. DbTypeOK' /\ ClientTypeOK' /\ ServerTypeOK'
  BY DEF HeldBack, SwitchedOffByService, TypeOK, DbTypeOK, ClientTypeOK, ServerTypeOK,
         dbVars, clientVars, serverVars
<1> QED BY <1>2, <1>3, <1>4 DEF TypeOK

LEMMA UnwindsType ==
    ASSUME NEW w \in Workers PROVE TypeOK /\ Unwinds(w) => TypeOK'
<1> SUFFICES ASSUME TypeOK, Unwinds(w) PROVE TypeOK' OBVIOUS
<1>1. WorkerTypeOK' BY NoJobType DEF Unwinds, TypeOK, WorkerTypeOK
<1> QED BY <1>1 DEF Unwinds, TypeOK, DbTypeOK, AdapterTypeOK, ClientTypeOK, ServerTypeOK,
                    dbVars, clientVars, serverVars

LEMMA BackoffOverType == TypeOK /\ BackoffOver => TypeOK'
BY DEF BackoffOver, TypeOK, DbTypeOK, AdapterTypeOK, WorkerTypeOK, ClientTypeOK,
       ServerTypeOK, dbVars, workerVars, clientVars, serverVars

-----------------------------------------------------------------------------
(* The client's actions.                                                   *)

\* What the client leaves alone: the database, the service.
LEMMA ClientLeavesType ==
    ASSUME TypeOK, UNCHANGED <<dbVars, serverVars>>
    PROVE  DbTypeOK' /\ ServerTypeOK'
BY DEF TypeOK, DbTypeOK, ServerTypeOK, dbVars, serverVars

LEMMA HaltsType ==
    ASSUME TypeOK, Halt(job) PROVE WorkerTypeOK'
<1>1. job \in [Workers -> Job] BY DEF TypeOK, WorkerTypeOK
<1> QED BY <1>1, HaltType DEF TypeOK

LEMMA KicksType ==
    ASSUME TypeOK, Kick(job) PROVE WorkerTypeOK'
<1>1. job \in [Workers -> Job] BY DEF TypeOK, WorkerTypeOK
<1> QED BY <1>1, KickType DEF TypeOK

LEMMA SameWorkersType ==
    ASSUME TypeOK, UNCHANGED workerVars PROVE WorkerTypeOK'
BY DEF TypeOK, WorkerTypeOK, workerVars

LEMMA SwitchedType == TypeOK /\ (SwitchedOn \/ SwitchedOff) => TypeOK'
<1> SUFFICES ASSUME TypeOK, SwitchedOn \/ SwitchedOff PROVE TypeOK' OBVIOUS
<1>1. ClientTypeOK'
  <2>1. chaos' \in 0..MaxChaos
    BY BoundsAssumption DEF SwitchedOn, SwitchedOff, Disturb, TypeOK, ClientTypeOK
  <2>2. bringUp' \in {"none", "asking", "acting"} /\ on' \in BOOLEAN
    BY DEF SwitchedOn, SwitchedOff, Apply, TypeOK, ClientTypeOK
  <2> QED BY <2>1, <2>2 DEF SwitchedOn, SwitchedOff, TypeOK, ClientTypeOK
<1>2. WorkerTypeOK'
  BY HaltsType, SameWorkersType DEF SwitchedOn, SwitchedOff, adapterVars
<1>3. AdapterTypeOK'
  BY DEF SwitchedOn, SwitchedOff, adapterVars, TypeOK, AdapterTypeOK
<1> QED BY <1>1, <1>2, <1>3, ClientLeavesType DEF SwitchedOn, SwitchedOff, TypeOK

LEMMA LearnType ==
    ASSUME TypeOK, Learn(Offered)
    PROVE  WorkerTypeOK' /\ caps' \in {"unknown", "known", "absent"}
BY HaltsType, SameWorkersType DEF Learn, Offered

LEMMA BringUpAsksType == TypeOK /\ (BringUpAsks \/ ConnectionTested) => TypeOK'
<1> SUFFICES ASSUME TypeOK, BringUpAsks \/ ConnectionTested PROVE TypeOK' OBVIOUS
<1>1. WorkerTypeOK' /\ caps' \in {"unknown", "known", "absent"}
  BY LearnType, SameWorkersType
     DEF BringUpAsks, ConnectionTested, TypeOK, ClientTypeOK
<1>2. ClientTypeOK'
  BY <1>1, BoundsAssumption DEF BringUpAsks, ConnectionTested, Disturb, TypeOK, ClientTypeOK
<1>3. AdapterTypeOK' BY DEF BringUpAsks, ConnectionTested, TypeOK, AdapterTypeOK
<1> QED BY <1>1, <1>2, <1>3, ClientLeavesType DEF BringUpAsks, ConnectionTested, TypeOK

LEMMA BringUpActsType == TypeOK /\ (BringUpActs \/ PushPressed) => TypeOK'
<1> SUFFICES ASSUME TypeOK, BringUpActs \/ PushPressed PROVE TypeOK' OBVIOUS
<1>1. WorkerTypeOK' BY HaltsType, KicksType DEF BringUpActs, PushPressed
<1>2. AdapterTypeOK' BY DEF BringUpActs, PushPressed, TypeOK, AdapterTypeOK
<1>3. ClientTypeOK' BY DEF BringUpActs, PushPressed, TypeOK, ClientTypeOK, clientVars
<1> QED BY <1>1, <1>2, <1>3, ClientLeavesType DEF BringUpActs, PushPressed, TypeOK

LEMMA ConnectionChangedType ==
    ASSUME NEW u \in Urls PROVE TypeOK /\ ConnectionChanged(u) => TypeOK'
<1> SUFFICES ASSUME TypeOK, ConnectionChanged(u) PROVE TypeOK' OBVIOUS
<1>1. ClientTypeOK'
  BY BoundsAssumption DEF ConnectionChanged, Disturb, TypeOK, ClientTypeOK
<1>2. WorkerTypeOK' /\ AdapterTypeOK'
  BY SameWorkersType DEF ConnectionChanged, adapterVars, TypeOK, AdapterTypeOK
<1> QED BY <1>1, <1>2, ClientLeavesType DEF ConnectionChanged, TypeOK

\* The records a state file yields have their type.
LEMMA ReloadedType ==
    ASSUME NEW f \in [url: Urls, recs: [Sessions -> Record]], NEW u
    PROVE  Reloaded(f, u) \in [Sessions -> Record]
BY NoRecordType DEF Reloaded

LEMMA ConnectionResetType == TypeOK /\ ConnectionReset => TypeOK'
<1> SUFFICES ASSUME TypeOK, ConnectionReset PROVE TypeOK' OBVIOUS
<1>1. ClientTypeOK' BY DEF ConnectionReset, Apply, TypeOK, ClientTypeOK
<1>2. AdapterTypeOK'
  BY ReloadedType DEF ConnectionReset, TypeOK, AdapterTypeOK, ClientTypeOK
<1>3. WorkerTypeOK'
  BY DisownedType, HaltType DEF ConnectionReset, TypeOK, WorkerTypeOK
<1> QED BY <1>1, <1>2, <1>3, ClientLeavesType DEF ConnectionReset, TypeOK

\* A new process over a state file of the right type.
LEMMA StartedType ==
    ASSUME TypeOK, NEW f \in [url: Urls, recs: [Sessions -> Record]],
           Started(f), chaos' \in 0..MaxChaos
    PROVE  TypeOK'
<1>1. url' \in Urls /\ bringUp' \in {"none", "asking", "acting"}
  BY DEF Started, TypeOK, AdapterTypeOK, ClientTypeOK
<1>2. ClientTypeOK' BY <1>1 DEF Started, TypeOK, ClientTypeOK
<1>3. AdapterTypeOK' BY <1>1, ReloadedType DEF Started, TypeOK, AdapterTypeOK
<1>4. WorkerTypeOK' BY NoJobType DEF Started, WorkerTypeOK
<1>5. 0 \in 0..opened' BY BoundsAssumption DEF Started, TypeOK, DbTypeOK
<1>6. DbTypeOK' BY <1>5 DEF Started, TypeOK, DbTypeOK
<1>7. ServerTypeOK' BY DEF Started, TypeOK, ServerTypeOK, serverVars
<1> QED BY <1>2, <1>3, <1>4, <1>6, <1>7 DEF TypeOK

LEMMA RestartedType == TypeOK /\ (Restarted \/ Crashed) => TypeOK'
<1> SUFFICES ASSUME TypeOK, Restarted \/ Crashed PROVE TypeOK' OBVIOUS
<1> DEFINE F == [url: Urls, recs: [Sessions -> Record]]
<1>1. disk \in F /\ recUrl \in Urls /\ rec \in [Sessions -> Record]
  BY DEF TypeOK, AdapterTypeOK
<1>2. [url |-> recUrl, recs |-> ClosePrevious] \in F BY <1>1, ClosePreviousType
<1>3. \E f \in F : Started(f) BY <1>1, <1>2 DEF Restarted, Crashed
<1>4. chaos' \in 0..MaxChaos
  BY BoundsAssumption DEF Restarted, Crashed, Disturb, TypeOK, ClientTypeOK
<1> QED BY <1>3, <1>4, StartedType

-----------------------------------------------------------------------------
(* Type correctness.                                                       *)

LEMMA InitType == Init => TypeOK
<1> SUFFICES ASSUME Init PROVE TypeOK OBVIOUS
<1>1. DbTypeOK
  <2>1. 0 \in 0..MaxLap /\ 0 \in 0..MaxRulings /\ 0 \in 0..MaxSession /\ 0 \in 0..0
    BY BoundsAssumption
  <2>2. rows \in [LapIds -> Lap \cup {NoLap}] BY DEF Init
  <2> QED BY <2>1, <2>2 DEF Init, DbTypeOK
<1>2. AdapterTypeOK BY NoRecordType, ServiceAssumption DEF Init, AdapterTypeOK
<1>3. WorkerTypeOK BY NoJobType DEF Init, WorkerTypeOK
<1>4. ClientTypeOK
  <2>1. 0 \in 0..MaxChaos /\ HomeUrl \in Urls BY BoundsAssumption, ServiceAssumption
  <2>2. on \in BOOLEAN BY DEF Init
  <2>3. bringUp \in {"none", "asking", "acting"} BY DEF Init
  <2> QED BY <2>1, <2>2, <2>3 DEF Init, ClientTypeOK
<1>5. ServerTypeOK
  <2>1. NoRemote \in RemoteSession
    BY BoundsAssumption, ServiceAssumption DEF NoRemote, RemoteSession
  <2> QED BY <2>1 DEF Init, ServerTypeOK
<1> QED BY <1>1, <1>2, <1>3, <1>4, <1>5 DEF TypeOK

LEMMA StepKeepsType == TypeOK /\ [Next]_vars => TypeOK'
<1> SUFFICES ASSUME TypeOK, [Next]_vars PROVE TypeOK' OBVIOUS
<1>1. CASE Recorder
  BY <1>1, SessionStartedType, AllClearedType, LapSavedType, RulingCommittedType,
     LapDeletedType, LapChangedType, SessionDeletedType
     DEF Recorder
<1>2. CASE \E w \in Workers : Worker(w)
  BY <1>2, WorkerStopsType, WorkerIdlesType, PushNextType, LapLoadedType, TotalsLoadedType,
     AnalysisLoadedType, AcceptedType, RefusedType, HeldBackType, UnwindsType
     DEF Worker
<1>3. CASE Client
  BY <1>3, SwitchedType, BringUpAsksType, BringUpActsType, ConnectionChangedType,
     ConnectionResetType, RestartedType
     DEF Client
<1>4. CASE Service
  BY <1>4, ServiceTakesType, ServiceDeclinesType, ServiceOtherType DEF Service
<1>5. CASE BackoffOver BY <1>5, BackoffOverType
<1>6. CASE UNCHANGED vars
  BY <1>6 DEF vars, dbVars, adapterVars, workerVars, clientVars, serverVars, TypeOK,
              DbTypeOK, AdapterTypeOK, WorkerTypeOK, ClientTypeOK, ServerTypeOK
<1> QED BY <1>1, <1>2, <1>3, <1>4, <1>5, <1>6 DEF Next

\* Every reachable state has its types, whatever the bounds, the workers and
\* the addresses are: no queue ever holds a lap twice, `_task` never names a
\* worker that is gone or cancelled, a request never goes out without the
\* document it is for.
THEOREM TypeCorrect == Spec => []TypeOK
BY InitType, StepKeepsType, PTL DEF Spec

-----------------------------------------------------------------------------
(* What a crash finds again.  A session's record is put into the dict       *)
(* without being written; that loses nothing because the file holds nothing *)
(* under a session that has not been opened.                               *)

\* The strengthening.  A session that has not been opened has no record, in
\* memory or in the file, and no worker holds one for it: session_started
\* never replaces a record the file would go on holding.
Fresh ==
    \A s \in Sessions : s > opened =>
        /\ rec[s] = NoRecord /\ disk.recs[s] = NoRecord
        /\ \A w \in Workers : job[w].session # s

Inv == TypeOK /\ Fresh /\ CrashLosesNothing

\* A step wrote the state file with the records it leaves, or changed neither.
Durable == /\ UNCHANGED recUrl
           /\ Write(rec') \/ UNCHANGED <<rec, disk>>

\* A step leaves the records of unopened sessions alone, and hands no worker
\* such a session.
Later(s) == s \in Sessions /\ s > opened'
Reserved == /\ opened' \in Nat /\ opened <= opened'
            /\ \A s \in Sessions : Later(s) => rec'[s] \in {rec[s], NoRecord}
            /\ Write(rec') \/ disk' = disk
            /\ \A w \in Workers, s \in Sessions :
                  Later(s) /\ job'[w].session = s => job[w].session = s

LEMMA DurableKeeps == ASSUME CrashLosesNothing, Durable PROVE CrashLosesNothing'
<1>1. CASE Write(rec')
  <2>1. disk'.recs = rec' BY <1>1 DEF Write
  <2> QED BY <2>1 DEF CrashLosesNothing
<1>2. CASE UNCHANGED <<rec, disk>>
  BY <1>2 DEF CrashLosesNothing, Durable
<1> QED BY <1>1, <1>2 DEF Durable

LEMMA ReservedKeeps ==
    ASSUME TypeOK, Fresh, Reserved PROVE Fresh'
<1> SUFFICES ASSUME NEW s \in Sessions, s > opened'
             PROVE  /\ rec'[s] = NoRecord /\ disk'.recs[s] = NoRecord
                    /\ \A w \in Workers : job'[w].session # s
  BY DEF Fresh
<1>1. s > opened
  BY BoundsAssumption DEF Reserved, Sessions, TypeOK, DbTypeOK
<1>2. /\ rec[s] = NoRecord /\ disk.recs[s] = NoRecord
      /\ \A w \in Workers : job[w].session # s
  BY <1>1 DEF Fresh
<1>3. rec'[s] = NoRecord BY <1>2 DEF Reserved, Later
<1>4. disk'.recs[s] = NoRecord
  <2>1. CASE Write(rec') BY <2>1, <1>3 DEF Write
  <2>2. CASE disk' = disk BY <2>2, <1>2
  <2> QED BY <2>1, <2>2 DEF Reserved
<1>5. \A w \in Workers : job'[w].session # s BY <1>2 DEF Reserved, Later
<1> QED BY <1>3, <1>4, <1>5

-----------------------------------------------------------------------------
(* Jobs under the operators that change them.                              *)

\* No worker is handed a session it did not have.
SameSessions(j) == \A w \in Workers : j[w].session \in {0, job[w].session}

LEMMA DisownedSessions ==
    ASSUME NEW S, job \in [Workers -> Job]
    PROVE  /\ SameSessions(Disowned(S))
           /\ \A w \in Workers : SameSessions([Disowned(S) EXCEPT ![w] = NoJob])
<1>1. ASSUME NEW w \in Workers PROVE Disowned(S)[w].session = job[w].session
  BY DEF Disowned, Job, JobFields
<1>2. DOMAIN Disowned(S) = Workers BY DEF Disowned
<1> QED BY <1>1, <1>2 DEF SameSessions, NoJob

LEMMA KickSessions ==
    ASSUME NEW j \in [Workers -> Job], SameSessions(j), Kick(j)
    PROVE  SameSessions(job')
<1>1. Spawned.session = 0 BY DEF Spawned, NoJob
<1> HIDE DEF Spawned
<1> QED BY <1>1 DEF Kick, SameSessions

\* The sessions of the jobs stay those of opened sessions.
LEMMA SameSessionsReserved ==
    ASSUME SameSessions(job'), NEW s \in Sessions, NEW w \in Workers, job'[w].session = s
    PROVE  job[w].session = s
<1>1. s # 0 BY BoundsAssumption DEF Sessions
<1> QED BY <1>1 DEF SameSessions

LEMMA OpenedType == ASSUME TypeOK PROVE opened \in Nat /\ opened <= opened
BY BoundsAssumption DEF TypeOK, DbTypeOK

-----------------------------------------------------------------------------
(* The steps of the workers.                                               *)

\* A step of w that leaves every record but w's own alone.
OwnOnly(w) ==
    \A s \in Sessions : rec'[s] = rec[s] \/ rec'[s] = NoRecord
                        \/ (job[w].own /\ s = job[w].session)

LEMMA OwnOnlyReserved ==
    ASSUME TypeOK, Fresh, NEW w \in Workers, OwnOnly(w), SameSessions(job'),
           UNCHANGED opened, Write(rec') \/ disk' = disk
    PROVE  Reserved
<1>1. opened \in Nat /\ opened <= opened
  BY BoundsAssumption DEF TypeOK, DbTypeOK
<1>2. ASSUME NEW s \in Sessions, Later(s) PROVE rec'[s] \in {rec[s], NoRecord}
  <2>1. job[w].session # s BY <1>2 DEF Later, Fresh
  <2> QED BY <2>1 DEF OwnOnly
<1> QED BY <1>1, <1>2, SameSessionsReserved DEF Reserved

\* A worker's job moves on with the session it has, or with none.
Moves(w) == /\ \A v \in Workers : v # w => job'[v] = job[v]
            /\ job'[w].session \in {0, job[w].session}

LEMMA MovesSessions ==
    ASSUME NEW w \in Workers, Moves(w) PROVE SameSessions(job')
BY DEF SameSessions, Moves

LEMMA BetweenMoves ==
    ASSUME TypeOK, NEW w \in Workers,
           job' = [job EXCEPT ![w] = Ready] \/ job' = [job EXCEPT ![w] = NoJob]
    PROVE  Moves(w)
<1>1. Ready.session = 0 /\ NoJob.session = 0 BY DEF Ready, NoJob
<1>2. job \in [Workers -> Job] BY DEF TypeOK, WorkerTypeOK
<1> HIDE DEF Ready, NoJob
<1> QED BY <1>1, <1>2 DEF Moves

LEMMA RecordsKeeps ==
    ASSUME TypeOK, NEW w \in Workers, NEW r, Records(w, r), UNCHANGED recUrl
    PROVE  Durable /\ OwnOnly(w) /\ SameSessions(job')
<1>1. Durable BY DEF Durable, Records
<1>2. OwnOnly(w) BY DEF OwnOnly, Records, TypeOK, AdapterTypeOK
<1>3. job' = [job EXCEPT ![w] = Ready] BY DEF Records
<1> QED BY <1>1, <1>2, <1>3, BetweenMoves, MovesSessions

LEMMA ResolvesKeeps ==
    ASSUME TypeOK, NEW w \in Workers, NEW l, NEW v, Resolves(w, l, v), UNCHANGED recUrl
    PROVE  Durable /\ OwnOnly(w) /\ SameSessions(job')
<1>1. Durable BY DEF Durable, Resolves
<1>2. OwnOnly(w) BY DEF OwnOnly, Resolves, TypeOK, AdapterTypeOK
<1>3. job' = [job EXCEPT ![w] = Ready] \/ job' = [job EXCEPT ![w] = NoJob]
  BY DEF Resolves, Ends
<1> QED BY <1>1, <1>2, <1>3, BetweenMoves, MovesSessions

\* A worker that only sends or only waits changes no record.
LEMMA QuietKeeps ==
    ASSUME NEW w \in Workers, Moves(w), UNCHANGED <<rec, recUrl, disk>>
    PROVE  Durable /\ OwnOnly(w) /\ SameSessions(job')
BY MovesSessions DEF Durable, OwnOnly

\* A request goes out with the session its job is for.
LEMMA SendMoves ==
    ASSUME TypeOK, NEW w \in Workers, NEW j \in JobFields, j.session = job[w].session,
           Send(w, j)
    PROVE  Moves(w)
<1>1. [j EXCEPT !.at = "sent", !.url = url].session = j.session BY DEF JobFields
<1>2. job \in [Workers -> Job] BY DEF TypeOK, WorkerTypeOK
<1> QED BY <1>1, <1>2 DEF Moves, Send

LEMMA LoadedKeeps ==
    ASSUME TypeOK, NEW w \in Workers,
           LapLoaded(w) \/ TotalsLoaded(w) \/ AnalysisLoaded(w)
    PROVE  Durable /\ OwnOnly(w) /\ SameSessions(job')
<1>1. job[w] \in JobFields BY DEF TypeOK, WorkerTypeOK, Job
<1>2. CASE LapLoaded(w)
  <2> DEFINE d == rows[job[w].lap]
             j == [job[w] EXCEPT !.doc = d]
  <2>1. UNCHANGED recUrl BY <1>2 DEF LapLoaded
  <2>2. \/ d # NoLap /\ Send(w, j) /\ UNCHANGED <<rec, disk>>
        \/ \E v : Resolves(w, job[w].lap, v)
    BY <1>2 DEF LapLoaded
  <2>3. ASSUME d # NoLap PROVE j \in JobFields /\ j.session = job[w].session
    <3>1. job[w] \in Job /\ job[w].kind = "lap" BY <1>2 DEF LapLoaded, Loading, TypeOK, WorkerTypeOK
    <3>2. job[w].lap \in LapIds BY <3>1, BoundsAssumption DEF Job, JobFields, LapIds
    <3>3. d \in Lap \cup {NoLap} BY <3>2 DEF TypeOK, DbTypeOK
    <3> HIDE DEF d
    <3> QED BY <1>1, <3>3 DEF JobFields
  <2> HIDE DEF j, d
  <2> QED BY <2>1, <2>2, <2>3, SendMoves, QuietKeeps, ResolvesKeeps
<1>3. CASE TotalsLoaded(w)
  <2> DEFINE n == IF job[w].own THEN NamesCircuit(rec[job[w].session]) ELSE job[w].names
             j == [job[w] EXCEPT !.names = n]
  <2>1. Send(w, j) /\ UNCHANGED <<rec, recUrl, disk>> BY <1>3 DEF TotalsLoaded
  <2>2. j \in JobFields /\ j.session = job[w].session
    <3>1. n \in BOOLEAN
      BY <1>1 DEF NamesCircuit, TypeOK, WorkerTypeOK, AdapterTypeOK, Job, JobFields, Record
    <3> HIDE DEF n
    <3> QED BY <1>1, <3>1 DEF JobFields
  <2> HIDE DEF j
  <2> QED BY <2>1, <2>2, SendMoves, QuietKeeps
<1>4. CASE AnalysisLoaded(w)
  <2>1. \/ \E v \in 0..MaxRulings : Send(w, [job[w] EXCEPT !.ver = v])
                                    /\ UNCHANGED <<rec, disk>>
        \/ \E status \in {"skipped", "rejected"} :
              Records(w, Settled(rec[job[w].session], status))
    BY <1>4 DEF AnalysisLoaded, Records
  <2>2. UNCHANGED recUrl BY <1>4 DEF AnalysisLoaded
  <2>3. ASSUME NEW v \in 0..MaxRulings
        PROVE  /\ [job[w] EXCEPT !.ver = v] \in JobFields
               /\ [job[w] EXCEPT !.ver = v].session = job[w].session
    BY <1>1 DEF JobFields
  <2> QED BY <2>1, <2>2, <2>3, SendMoves, QuietKeeps, RecordsKeeps
<1> QED BY <1>2, <1>3, <1>4

LEMMA AnsweredKeeps ==
    ASSUME TypeOK, NEW w \in Workers,
           Accepted(w) \/ Refused(w) \/ HeldBack(w) \/ SwitchedOffByService(w)
    PROVE  Durable /\ OwnOnly(w) /\ SameSessions(job')
<1>1. CASE Accepted(w)
  <2>1. UNCHANGED recUrl BY <1>1 DEF Accepted
  <2>2. job[w].kind \in Kinds BY DEF TypeOK, WorkerTypeOK, Job, JobFields
  <2>3. (\E r : Records(w, r)) \/ Resolves(w, job[w].lap, "synced")
    BY <1>1, <2>2 DEF Accepted, Kinds
  <2> QED BY <2>1, <2>3, RecordsKeeps, ResolvesKeeps
<1>2. CASE Refused(w)
  <2>1. UNCHANGED recUrl /\ \E r : Records(w, r) BY <1>2 DEF Refused
  <2> QED BY <2>1, RecordsKeeps
<1>3. CASE HeldBack(w) \/ SwitchedOffByService(w)
  <2>1. job' = [job EXCEPT ![w] = Ready] /\ UNCHANGED <<rec, recUrl, disk>>
    BY <1>3 DEF HeldBack, SwitchedOffByService
  <2> QED BY <2>1, BetweenMoves, QuietKeeps
<1> QED BY <1>1, <1>2, <1>3

LEMMA LeavesKeeps ==
    ASSUME TypeOK, NEW w \in Workers, WorkerStops(w) \/ WorkerIdles(w) \/ Unwinds(w)
    PROVE  Durable /\ OwnOnly(w) /\ SameSessions(job')
<1>2. CASE WorkerStops(w)
  <2>1. job' = [job EXCEPT ![w] = NoJob] /\ UNCHANGED <<rec, recUrl, disk>>
    BY <1>2 DEF WorkerStops, Ends
  <2> QED BY <2>1, BetweenMoves, QuietKeeps
<1>3. CASE Unwinds(w)
  <2>1. job' = [job EXCEPT ![w] = NoJob] /\ UNCHANGED <<rec, recUrl, disk>>
    BY <1>3 DEF Unwinds
  <2> QED BY <2>1, BetweenMoves, QuietKeeps
<1>4. CASE WorkerIdles(w)
  <2>1. Durable BY <1>4 DEF WorkerIdles, Durable, Write
  <2>2. OwnOnly(w) BY <1>4 DEF WorkerIdles, OwnOnly, Pruned
  <2>3. SameSessions(job')
    <3>1. PICK S : job' = [Disowned(S) EXCEPT ![w] = NoJob] BY <1>4 DEF WorkerIdles
    <3> QED BY <3>1, DisownedSessions DEF TypeOK, WorkerTypeOK
  <2> QED BY <2>1, <2>2, <2>3
<1> QED BY <1>2, <1>3, <1>4

\* _push_next takes up a record that is there, so one of an opened session.
LEMMA PushNextKeeps ==
    ASSUME TypeOK, Fresh, NEW w \in Workers, PushNext(w)
    PROVE  Durable /\ Reserved
<1> DEFINE begun(s, at, kind, l) ==
              [Ready EXCEPT !.at = at, !.kind = kind, !.lap = l, !.session = s,
                            !.own = TRUE, !.target = rec[s].remote, !.url = url,
                            !.names = NamesCircuit(rec[s])]
           begin(s, at, kind, l) ==
              job' = [job EXCEPT ![w] = begun(s, at, kind, l)] /\ UNCHANGED <<rec, disk>>
<1>1. PICK s \in Sessions :
         /\ NextRec(s)
         /\ IF rec[s].remote = 0 THEN begin(s, "sent", "start", 0)
            ELSE IF NamesNow(rec[s]) THEN begin(s, "sent", "name", 0)
            ELSE IF rec[s].queue # <<>> THEN begin(s, "load", "lap", Head(rec[s].queue))
            ELSE IF rec[s].endPending THEN begin(s, "load", "end", 0)
            ELSE IF "analysis_version" \in Hints THEN begin(s, "load", "analysis", 0)
            ELSE /\ rec' = [rec EXCEPT ![s] = Settled(rec[s], "not_taken")]
                 /\ Write(rec')
                 /\ job' = [job EXCEPT ![w] = Ready]
  BY DEF PushNext
<1>2. UNCHANGED <<recUrl, opened>> /\ job \in [Workers -> Job]
      /\ rec \in [Sessions -> Record]
  BY DEF PushNext, dbVars, TypeOK, WorkerTypeOK, AdapterTypeOK
<1>3. ~(s > opened)
  <2>1. rec[s].held BY <1>1 DEF NextRec, Waiting
  <2>2. ~NoRecord.held BY DEF NoRecord
  <2> QED BY <2>1, <2>2 DEF Fresh
<1>4. /\ Durable
      /\ \A t \in Sessions : t # s => rec'[t] = rec[t]
      /\ \A v \in Workers : v # w => job'[v] = job[v]
      /\ job'[w].session \in {0, s}
  <2>1. ASSUME NEW at, NEW kind, NEW l, begin(s, at, kind, l)
        PROVE  UNCHANGED <<rec, disk>>
               /\ (\A v \in Workers : v # w => job'[v] = job[v]) /\ job'[w].session = s
    <3>1. begun(s, at, kind, l).session = s BY DEF Ready, NoJob
    <3> HIDE DEF begun
    <3> QED BY <1>2, <2>1, <3>1
  <2>2. ASSUME rec' = [rec EXCEPT ![s] = Settled(rec[s], "not_taken")], Write(rec'),
               job' = [job EXCEPT ![w] = Ready]
        PROVE  /\ \A t \in Sessions : t # s => rec'[t] = rec[t]
               /\ (\A v \in Workers : v # w => job'[v] = job[v]) /\ job'[w].session = 0
    <3>1. Ready.session = 0 BY DEF Ready, NoJob
    <3> QED BY <1>2, <2>2, <3>1
  <2> HIDE DEF begin
  <2> QED BY <1>1, <1>2, <2>1, <2>2 DEF Durable
<1>5. Reserved
  <2>1. opened \in Nat /\ opened <= opened BY BoundsAssumption DEF TypeOK, DbTypeOK
  <2>2. ASSUME NEW t \in Sessions, t > opened
        PROVE  /\ rec'[t] = rec[t]
               /\ \A v \in Workers : job'[v].session = t => job[v].session = t
    <3>1. t # 0 /\ t # s BY <2>2, <1>3 DEF Sessions
    <3> QED BY <3>1, <1>4
  <2> QED BY <2>1, <2>2, <1>2, <1>4 DEF Reserved, Later, Durable
<1> QED BY <1>4, <1>5

LEMMA WorkerKeeps ==
    ASSUME Inv, NEW w \in Workers, Worker(w) PROVE Fresh' /\ CrashLosesNothing'
<1> USE DEF Inv
<1>1. UNCHANGED opened
  BY DEF Worker, WorkerStops, WorkerIdles, PushNext, LapLoaded, TotalsLoaded,
         AnalysisLoaded, Accepted, Refused, HeldBack, SwitchedOffByService, Unwinds, dbVars
<1>2. Durable /\ Reserved
  <2>1. CASE PushNext(w) BY <2>1, PushNextKeeps
  <2>2. CASE ~PushNext(w)
    <3>1. Durable /\ OwnOnly(w) /\ SameSessions(job')
      BY <2>2, LoadedKeeps, AnsweredKeeps, LeavesKeeps DEF Worker
    <3> QED BY <3>1, <1>1, OwnOnlyReserved DEF Durable
  <2> QED BY <2>1, <2>2
<1> QED BY <1>2, DurableKeeps, ReservedKeeps

-----------------------------------------------------------------------------
(* The steps of the recorder.                                              *)

\* Trimming leaves an empty record as it is.
LEMMA TrimKeepsNothing ==
    ASSUME NEW rs \in [Sessions -> Record], NEW s \in Sessions, rs[s] = NoRecord
    PROVE  TrimQueue(rs)[s] = NoRecord
<1>1. rs[s].queue = <<>> /\ NoRecord.queue = <<>> /\ NoRecord \in Record
  <2>1. NoRecord.queue = <<>> BY DEF NoRecord
  <2> QED BY <2>1, NoRecordType
<1>2. DOMAIN rs[s].queue = {} /\ Len(rs[s].queue) = 0
  BY <1>1, EmptySeq, LenProperties
<1>3. Overflow(rs, s) = {} BY <1>2 DEF Overflow
<1>4. Cardinality(Overflow(rs, s)) = 0 BY <1>3, FS_EmptySet
<1>5. SubSeq(rs[s].queue, 1, 0) = <<>>
  <2>1. /\ SubSeq(rs[s].queue, 1, 0) \in Seq(LapIds) /\ Len(SubSeq(rs[s].queue, 1, 0)) = 0
    BY SubSeqProperties
  <2> QED BY <2>1, EmptySeq
<1>6. TrimQueue(rs)[s] = [NoRecord EXCEPT !.queue = <<>>]
  <2>1. TrimQueue(rs)[s] =
          [rs[s] EXCEPT !.queue = SubSeq(rs[s].queue, Cardinality(Overflow(rs, s)) + 1,
                                         Len(rs[s].queue))]
    BY DEF TrimQueue
  <2> QED BY <2>1, <1>2, <1>4, <1>5
<1>7. [NoRecord EXCEPT !.queue = <<>>] = NoRecord BY <1>1 DEF Record
<1> QED BY <1>6, <1>7

LEMMA LapSavedKeeps ==
    ASSUME TypeOK, Fresh, NEW l \in LapIds, LapSaved(l) PROVE Durable /\ Reserved
<1> DEFINE held  == IF rec[open].held THEN rec[open] ELSE NewRecord
           owed == [rec EXCEPT ![open] = WithLap(held, l, circuit')]
<1>1. /\ open \in Sessions /\ ~(open > opened) /\ opened \in Nat /\ opened <= opened
      /\ rec \in [Sessions -> Record] /\ circuit' \in BOOLEAN
  <2>1. /\ open \in 0..opened /\ opened \in 0..MaxSession /\ open # 0
        /\ circuit' \in {circuit, TRUE} /\ circuit \in BOOLEAN
    BY DEF LapSaved, TypeOK, DbTypeOK
  <2>2. open \in Sessions /\ ~(open > opened) BY <2>1, BoundsAssumption DEF Sessions
  <2>3. rec \in [Sessions -> Record] BY DEF TypeOK, AdapterTypeOK
  <2>4. circuit' \in BOOLEAN BY <2>1
  <2> QED BY <2>2, <2>3, <2>4, OpenedType
<1>2. UNCHANGED <<recUrl, opened>> BY DEF LapSaved
<1>3. \/ UNCHANGED <<rec, disk, workerVars>>
      \/ rec' = TrimQueue(owed) /\ Write(rec') /\ Kick(job)
  BY DEF LapSaved
<1>4. Durable BY <1>2, <1>3 DEF Durable
<1>5. ASSUME NEW s \in Sessions, Later(s) PROVE rec'[s] \in {rec[s], NoRecord}
  <2>1. s # open /\ rec[s] = NoRecord BY <1>1, <1>2, <1>5 DEF Later, Fresh
  <2>2. owed \in [Sessions -> Record]
    <3>1. held \in Record BY <1>1, NoRecordType
    <3> HIDE DEF held
    <3>2. WithLap(held, l, circuit') \in Record BY <1>1, <3>1, WithLapType
    <3> QED BY <1>1, <3>2
  <2>3. owed[s] = NoRecord BY <2>1, <1>1
  <2> HIDE DEF owed
  <2> QED BY <1>3, <2>2, <2>3, TrimKeepsNothing
<1>6. SameSessions(job')
  <2>1. job \in [Workers -> Job] /\ SameSessions(job)
    BY DEF TypeOK, WorkerTypeOK, SameSessions
  <2> QED BY <1>3, <2>1, KickSessions DEF workerVars
<1> QED BY <1>1, <1>2, <1>3, <1>4, <1>5, <1>6, SameSessionsReserved DEF Reserved, Durable

\* lap_changed on a record that is left with nothing to send changed nothing.
LEMMA LapChangedKeeps ==
    ASSUME TypeOK, Fresh, NEW l \in LapIds, NEW s \in Sessions, LapChanged(l, s)
    PROVE  Durable /\ Reserved
<1> DEFINE q == IF rec[s].laps[l] = "synced" /\ l \notin ToSet(rec[s].queue)
                THEN Append(rec[s].queue, l) ELSE rec[s].queue
           a == rec[s].analysisPending \/ (rec[s].ended /\ ~rec[s].endPending)
           n == [rec[s] EXCEPT !.analysisPending = a, !.queue = q]
<1>1. /\ rec \in [Sessions -> Record] /\ opened \in Nat /\ opened <= opened
      /\ UNCHANGED <<recUrl, opened>>
  BY BoundsAssumption DEF LapChanged, TypeOK, DbTypeOK, AdapterTypeOK
<1>2. \/ UNCHANGED <<rec, disk, workerVars>>
      \/ /\ rec[s].held /\ ~rec[s].closed /\ rec' = [rec EXCEPT ![s] = n]
         /\ \/ Write(rec') /\ Kick(job)
            \/ ~Pending(n) /\ UNCHANGED <<disk, workerVars>>
  BY DEF LapChanged
<1>3. ASSUME ~rec[s].closed, ~Pending(n) PROVE n = rec[s]
  <2>1. n.closed = rec[s].closed /\ n.queue = q /\ n.analysisPending = a
    BY <1>1 DEF Record
  <2>2. q = <<>> /\ ~a BY <1>3, <2>1 DEF Pending
  <2>3. q = rec[s].queue
    <3>1. rec[s].queue \in Seq(LapIds) BY <1>1 DEF Record, Queues
    <3>2. Append(rec[s].queue, l) # <<>>
      <4>1. Len(Append(rec[s].queue, l)) = Len(rec[s].queue) + 1 /\ Len(rec[s].queue) \in Nat
        BY <3>1, AppendProperties, LenProperties
      <4>2. Len(Append(rec[s].queue, l)) # 0 BY <4>1
      <4>3. Len(<<>>) = 0 BY EmptySeq
      <4> QED BY <4>2, <4>3, Zenon
    <3> QED BY <2>2, <3>2
  <2>4. a = rec[s].analysisPending BY <2>2, <1>1 DEF Record
  <2> HIDE DEF q, a
  <2> QED BY <2>3, <2>4, <1>1 DEF Record
<1> HIDE DEF n
<1>4. Durable BY <1>1, <1>2, <1>3 DEF Durable
<1>5. ASSUME NEW t \in Sessions, Later(t) PROVE rec'[t] = rec[t]
  <2>1. ~NoRecord.held BY DEF NoRecord
  <2>2. rec[s].held => s # t BY <2>1, <1>1, <1>5 DEF Later, Fresh
  <2> QED BY <2>2, <1>1, <1>2
<1>6. SameSessions(job')
  <2>1. job \in [Workers -> Job] /\ SameSessions(job)
    BY DEF TypeOK, WorkerTypeOK, SameSessions
  <2> QED BY <1>2, <2>1, KickSessions DEF workerVars
<1> QED BY <1>1, <1>2, <1>4, <1>5, <1>6, SameSessionsReserved DEF Reserved, Durable

\* A deletion: the rows go, and the records that were there.
LEMMA DeletedKeeps ==
    ASSUME TypeOK, Fresh, AllCleared \/ \E s \in Sessions : SessionDeleted(s)
    PROVE  Durable /\ Reserved
<1>1. UNCHANGED <<recUrl, opened>> /\ opened \in Nat /\ opened <= opened
  BY OpenedType DEF AllCleared, SessionDeleted
<1>2. Durable BY DEF Durable, AllCleared, SessionDeleted
<1>3. \A s \in Sessions : rec'[s] \in {rec[s], NoRecord}
  BY DEF AllCleared, SessionDeleted, TypeOK, AdapterTypeOK
<1>4. SameSessions(job')
  BY DisownedSessions DEF AllCleared, SessionDeleted, TypeOK, WorkerTypeOK
<1> QED BY <1>1, <1>2, <1>3, <1>4, SameSessionsReserved DEF Reserved, Durable

\* What closing the open session leaves of the others, and when it is not
\* written.
LEMMA ClosingKeeps ==
    ASSUME TypeOK
    PROVE  /\ \A s \in Sessions : s # open => ClosePrevious[s] = rec[s]
           /\ ~ClosingWrites => ClosePrevious = rec
           /\ ClosePrevious \in [Sessions -> Record]
<1>1. rec \in [Sessions -> Record] BY DEF TypeOK, AdapterTypeOK
<1>2. \A s \in Sessions : s # open => ClosePrevious[s] = rec[s] BY <1>1 DEF ClosePrevious
<1>3. ~ClosingWrites => ClosePrevious = rec BY DEF ClosePrevious, ClosingWrites
<1> QED BY <1>1, <1>2, <1>3, ClosePreviousType

\* session_started does not write the file; the record it adds is an empty
\* one where the file has none, and a crash brings that back.
LEMMA SessionStartedKeeps ==
    ASSUME Inv, SessionStarted PROVE Fresh' /\ CrashLosesNothing'
<1> USE DEF Inv
<1> DEFINE n == opened + 1
<1>1. /\ opened \in Nat /\ n \in Sessions /\ n > opened /\ opened' = n
      /\ n # open /\ recUrl' = recUrl
      /\ \A s \in Sessions : s > opened => s # open
  <2>1. opened < MaxSession /\ opened' = n /\ recUrl' = recUrl BY DEF SessionStarted
  <2>2. opened \in 0..MaxSession /\ open \in 0..opened BY DEF TypeOK, DbTypeOK
  <2>3. opened \in Nat BY OpenedType
  <2> QED BY <2>1, <2>2, <2>3, BoundsAssumption DEF Sessions
<1>2. rec' = [ClosePrevious EXCEPT ![n] = NewRecord] BY DEF SessionStarted
<1>3. Write(ClosePrevious) \/ (disk' = disk /\ ClosePrevious = rec)
  BY ClosingKeeps DEF SessionStarted
<1>4. \A s \in Sessions : s > opened => ClosePrevious[s] = NoRecord
  BY <1>1, ClosingKeeps DEF Fresh
<1>5. SameSessions(job')
  <2>1. PICK S : \/ job' = Disowned(S)
                 \/ Kick(Disowned(S))
    BY DEF SessionStarted
  <2>2. job \in [Workers -> Job] BY DEF TypeOK, WorkerTypeOK
  <2> QED BY <2>1, <2>2, DisownedSessions, DisownedType, KickSessions
<1> HIDE DEF n
<1>6. Fresh'
  <2> SUFFICES ASSUME NEW s \in Sessions, s > n
               PROVE  /\ rec'[s] = NoRecord /\ disk'.recs[s] = NoRecord
                      /\ \A w \in Workers : job'[w].session # s
    BY <1>1 DEF Fresh
  <2>1. s > opened /\ s # n BY <1>1 DEF Sessions
  <2>2. rec'[s] = NoRecord BY <1>1, <1>2, <1>4, <2>1, ClosingKeeps
  <2>3. disk'.recs[s] = NoRecord
    <3>1. CASE Write(ClosePrevious) BY <3>1, <1>4, <2>1 DEF Write
    <3>2. CASE disk' = disk BY <3>2, <2>1 DEF Fresh
    <3> QED BY <3>1, <3>2, <1>3
  <2>4. \A w \in Workers : job'[w].session # s
    BY <1>5, <2>1, SameSessionsReserved DEF Fresh
  <2> QED BY <2>2, <2>3, <2>4
<1>7. CrashLosesNothing'
  <2> SUFFICES ASSUME disk'.url = recUrl', NEW s \in Sessions
               PROVE  Kept(disk'.recs[s]) = Kept(rec'[s])
    BY DEF CrashLosesNothing
  <2>1. Kept(disk'.recs[s]) = Kept(ClosePrevious[s])
    <3>1. CASE Write(ClosePrevious) BY <3>1 DEF Write
    <3>2. CASE disk' = disk /\ ClosePrevious = rec
      BY <3>2, <1>1 DEF CrashLosesNothing
    <3> QED BY <3>1, <3>2, <1>3
  <2>2. CASE s = n
    <3>1. rec'[n] = NewRecord BY <1>1, <1>2, ClosingKeeps
    <3>2. ClosePrevious[n] = NoRecord BY <1>1, <1>4
    <3>3. Kept(NewRecord) = Kept(NoRecord) BY DEF Kept, NewRecord, NoRecord
    <3> QED BY <2>1, <2>2, <3>1, <3>2, <3>3
  <2>3. CASE s # n BY <2>1, <2>3, <1>1, <1>2, ClosingKeeps
  <2> QED BY <2>2, <2>3
<1> QED BY <1>6, <1>7

LEMMA RecorderKeeps ==
    ASSUME Inv, Recorder PROVE Fresh' /\ CrashLosesNothing'
<1> USE DEF Inv
<1>1. CASE SessionStarted BY <1>1, SessionStartedKeeps
<1>2. CASE AllCleared \/ \E s \in Sessions : SessionDeleted(s)
  BY <1>2, DeletedKeeps, DurableKeeps, ReservedKeeps
<1>3. CASE \E l \in LapIds : LapSaved(l)
  BY <1>3, LapSavedKeeps, DurableKeeps, ReservedKeeps
<1>4. CASE \E l \in LapIds, s \in Sessions : LapChanged(l, s)
  BY <1>4, LapChangedKeeps, DurableKeeps, ReservedKeeps
<1>5. CASE \E l \in LapIds : RulingCommitted(l) \/ LapDeleted(l)
  <2>1. UNCHANGED <<opened, adapterVars>> BY <1>5 DEF RulingCommitted, LapDeleted
  <2> QED BY <2>1 DEF adapterVars, workerVars, Fresh, CrashLosesNothing
<1> QED BY <1>1, <1>2, <1>3, <1>4, <1>5 DEF Recorder

-----------------------------------------------------------------------------
(* The steps of the client and of the service.                             *)

\* Steps that leave every record and the file alone.
LEMMA AsideKeeps ==
    ASSUME Inv, UNCHANGED <<rec, recUrl, disk, opened>>, SameSessions(job')
    PROVE  Fresh' /\ CrashLosesNothing'
<1> USE DEF Inv
<1>1. Durable BY DEF Durable
<1>2. Reserved BY OpenedType, SameSessionsReserved DEF Reserved
<1> QED BY <1>1, <1>2, DurableKeeps, ReservedKeeps

LEMMA SameJobs == ASSUME job' = job PROVE SameSessions(job')
BY DEF SameSessions

LEMMA ServiceKeeps ==
    ASSUME Inv, Service PROVE Fresh' /\ CrashLosesNothing'
<1>1. CASE \E w \in Workers : ServiceTakes(w) \/ ServiceDeclines(w)
  <2>1. PICK w \in Workers : ServiceTakes(w) \/ ServiceDeclines(w) BY <1>1
  <2>2. UNCHANGED <<rec, recUrl, disk, opened>>
    BY <2>1 DEF ServiceTakes, ServiceDeclines, dbVars
  <2>3. PICK reply, t :
          job' = [job EXCEPT ![w].at = "answered", ![w].reply = reply, ![w].target = t]
    <3>1. \E reply, t : Answers(w, reply, t)
      BY <2>1 DEF ServiceTakes, ServiceDeclines
    <3> QED BY <3>1 DEF Answers
  <2>4. job \in [Workers -> Job] /\ job[w] \in JobFields
    BY DEF Inv, TypeOK, WorkerTypeOK, Job
  <2>5. [job[w] EXCEPT !.at = "answered", !.reply = reply, !.target = t].session
          = job[w].session
    BY <2>4 DEF JobFields
  <2>6. job' = [job EXCEPT ![w] =
                  [job[w] EXCEPT !.at = "answered", !.reply = reply, !.target = t]]
    BY <2>3, <2>4 DEF JobFields
  <2>7. Moves(w) BY <2>4, <2>5, <2>6 DEF Moves
  <2> QED BY <2>2, <2>7, MovesSessions, AsideKeeps
<1>2. CASE OfferChanges \/ \E r \in RemoteIds : SessionExpires(r)
  BY <1>2, SameJobs, AsideKeeps
     DEF OfferChanges, SessionExpires, dbVars, adapterVars, workerVars
<1> QED BY <1>1, <1>2 DEF Service

\* The records come from the file, or there are none.
LEMMA ReloadedKeeps ==
    ASSUME Inv, NEW f, f = disk \/ f = [url |-> recUrl, recs |-> ClosePrevious],
           disk' = f, rec' = Reloaded(f, recUrl'), UNCHANGED opened,
           \A w \in Workers : job'[w].session \in {0, job[w].session}
    PROVE  Fresh' /\ CrashLosesNothing'
<1> USE DEF Inv
<1>1. CrashLosesNothing' BY DEF CrashLosesNothing, Reloaded
<1>2. ASSUME NEW s \in Sessions, s > opened PROVE f.recs[s] = NoRecord
  <2>1. open \in 0..opened /\ opened \in Nat BY OpenedType DEF TypeOK, DbTypeOK
  <2>2. s # open BY <2>1, <1>2
  <2>3. ClosePrevious[s] = NoRecord BY <2>2, <1>2, ClosingKeeps DEF Fresh
  <2>4. disk.recs[s] = NoRecord BY <1>2 DEF Fresh
  <2> QED BY <2>3, <2>4
<1>3. SameSessions(job') BY DEF SameSessions
<1>4. ASSUME NEW s \in Sessions, s > opened
      PROVE  /\ rec'[s] = NoRecord /\ disk'.recs[s] = NoRecord
             /\ \A w \in Workers : job'[w].session # s
  <2>1. rec'[s] = NoRecord /\ disk'.recs[s] = NoRecord BY <1>2, <1>4 DEF Reloaded
  <2>2. \A w \in Workers : job'[w].session # s
    BY <1>3, <1>4, SameSessionsReserved DEF Fresh
  <2> QED BY <2>1, <2>2
<1> QED BY <1>1, <1>4 DEF Fresh

LEMMA ClientKeeps ==
    ASSUME Inv, Client PROVE Fresh' /\ CrashLosesNothing'
<1>1. job \in [Workers -> Job] BY DEF Inv, TypeOK, WorkerTypeOK
<1>2. CASE SwitchedOn \/ SwitchedOff \/ BringUpAsks \/ ConnectionTested
           \/ \E u \in Urls : ConnectionChanged(u)
  BY <1>2, SameJobs, AsideKeeps
     DEF SwitchedOn, SwitchedOff, BringUpAsks, ConnectionTested, ConnectionChanged, Learn,
         Halt, dbVars, adapterVars, workerVars
<1>3. CASE BringUpActs \/ PushPressed
  <2>1. UNCHANGED <<rec, recUrl, disk, opened>> /\ (Kick(job) \/ job' = job)
    BY <1>3 DEF BringUpActs, PushPressed, Halt, dbVars
  <2>2. SameSessions(job) BY DEF SameSessions
  <2> QED BY <1>1, <2>1, <2>2, SameJobs, KickSessions, AsideKeeps
<1>4. CASE ConnectionReset
  <2>1. /\ disk' = disk /\ rec' = Reloaded(disk, recUrl') /\ opened' = opened
        /\ job' = Disowned(Sessions)
    BY <1>4 DEF ConnectionReset, Halt, dbVars
  <2>2. SameSessions(job') BY <1>1, <2>1, DisownedSessions
  <2> QED BY <2>1, <2>2, ReloadedKeeps DEF SameSessions
<1>5. CASE Restarted \/ Crashed
  <2> DEFINE closing == [url |-> recUrl, recs |-> ClosePrevious]
  <2>1. Started(disk) \/ Started(closing) BY <1>5 DEF Restarted, Crashed
  <2>2. ASSUME NEW f, Started(f)
        PROVE  /\ disk' = f /\ rec' = Reloaded(f, recUrl') /\ opened' = opened
               /\ \A w \in Workers : job'[w].session = 0
    BY <2>2 DEF Started, NoJob
  <2> HIDE DEF closing
  <2>3. closing = [url |-> recUrl, recs |-> ClosePrevious] BY DEF closing
  <2> QED BY <2>1, <2>2, <2>3, ReloadedKeeps
<1> QED BY <1>2, <1>3, <1>4, <1>5 DEF Client

-----------------------------------------------------------------------------

LEMMA InitInv == Init => Inv
BY InitType DEF Init, Inv, Fresh, CrashLosesNothing, NoJob, Sessions

LEMMA StepKeepsInv == Inv /\ [Next]_vars => Inv'
<1> SUFFICES ASSUME Inv, [Next]_vars PROVE Inv' OBVIOUS
<1>1. TypeOK' BY StepKeepsType DEF Inv
<1>2. CASE Recorder BY <1>1, <1>2, RecorderKeeps DEF Inv
<1>3. CASE \E w \in Workers : Worker(w) BY <1>1, <1>3, WorkerKeeps DEF Inv
<1>4. CASE Client BY <1>1, <1>4, ClientKeeps DEF Inv
<1>5. CASE Service BY <1>1, <1>5, ServiceKeeps DEF Inv
<1>6. CASE BackoffOver
  <2>1. UNCHANGED <<rec, recUrl, disk, opened>> /\ job' = job
    BY <1>6 DEF BackoffOver, dbVars, workerVars
  <2> QED BY <1>1, <2>1, SameJobs, AsideKeeps DEF Inv
<1>7. CASE UNCHANGED vars
  <2>1. UNCHANGED <<rec, recUrl, disk, opened>> /\ job' = job
    BY <1>7 DEF vars, dbVars, adapterVars, workerVars
  <2> QED BY <1>1, <2>1, SameJobs, AsideKeeps DEF Inv
<1> QED BY <1>2, <1>3, <1>4, <1>5, <1>6, <1>7 DEF Next

\* A process that dies at any step boundary and is started again on the same
\* server finds in its state file what the dead one had in memory: every
\* record's remote id, queue, verdicts and debts (sessions.py, _write_state at
\* the end of every operation that changes a record).
THEOREM NothingLost == Spec => []CrashLosesNothing
<1>1. Inv => CrashLosesNothing BY DEF Inv
<1> QED BY <1>1, InitInv, StepKeepsInv, PTL DEF Spec

-----------------------------------------------------------------------------
(* What the sessions adapter believes the service holds, and what the      *)
(* service does hold.                                                      *)
(*                                                                         *)
(* A record is wrong about the service when two workers send for it: each  *)
(* opens a session, and the laps noted as synced are in the one the record *)
(* no longer names.  _kick spawns a second one when the `finally` of a     *)
(* cancelled worker clears the `_task` of its successor.  The theorems are *)
(* about the behaviours in which that does not happen.                     *)

\* One worker at a time is at work; others may be cancelled and not unwound.
OneAtWork ==
    \A v, w \in Workers \ cancelled :
        job[v].at # "off" /\ job[w].at # "off" => v = w

\* What a record is about: the laps, the service, and the session that is open.
World == [rows |-> rows, remote |-> remote, finished |-> finished,
          opened |-> opened, open |-> open, dropped |-> dropped]

\* The service's session t holds the lap with the number n.
HasLap(W, t, n) == \E d \in W.remote[t].laps : d.lap = n

\* What is so of the record r of session s, in memory or in the file, and stays
\* so while nobody changes it: the claims it makes of the service hold, it
\* speaks only of laps there have been, and owes a circuit only once it has one.
Claims(r, s, W) ==
    r.remote # 0 /\ ~r.closed /\ ~W.remote[r.remote].gone =>
        /\ r.circuit /\ ~r.trackError => W.remote[r.remote].circuit \/ r.trackPending
        /\ \A l \in LapIds :
              /\ W.rows[l].session = s /\ W.rows[l].lap = l /\ r.laps[l] = "synced"
              /\ l \notin ToSet(r.queue) \cup W.dropped
              => HasLap(W, r.remote, l)
Sound(r, s, W) ==
    /\ Claims(r, s, W)
    /\ r.remote # 0 => W.remote[r.remote].drive # 0
    /\ r.remote = 0 => /\ ~r.trackPending /\ ~r.trackError
                       /\ \A l \in LapIds : r.laps[l] # "synced"
    /\ r.trackPending => r.circuit /\ ~r.trackError
    /\ r.endPending => s # W.open /\ s <= W.opened
    /\ \A l \in LapIds : r.laps[l] = "synced" \/ l \in ToSet(r.queue) => l <= W.finished

\* What is so of a request that is prepared, under way or answered, for the
\* record r: it is about the session the record names, the totals carry the
\* circuit as the record has it, and what the service took it holds.
Errand(j, r, W) ==
    /\ j.own => r.held /\ r.remote = IF j.kind = "start" THEN 0 ELSE j.target
    /\ j.kind # "start" \/ (j.at = "answered" /\ j.reply = "ok") =>
          j.target # 0 /\ W.remote[j.target].drive # 0
    /\ j.kind = "lap" =>
          /\ j.lap <= W.finished
          /\ j.at # "load" /\ W.rows[j.lap].lap = j.lap => j.doc.lap = j.lap
    /\ j.kind = "name" => j.names
    /\ j.kind = "end" =>
          /\ j.session # W.open /\ j.session <= W.opened
          /\ j.own /\ j.at # "load" => (j.names <=> NamesCircuit(r))
    /\ j.at = "answered" /\ j.reply = "ok" =>
          /\ j.kind \in {"start", "name", "end"} /\ j.names => W.remote[j.target].circuit
          /\ j.kind = "lap" => HasLap(W, j.target, j.doc.lap)

InFlight(j) == j.at \in {"load", "sent", "answered"}

Sane(rs, W) == \A s \in Sessions : Sound(rs[s], s, W)

Ledger  == Sane(rec, World) /\ Sane(disk.recs, World)
Counted == \A l \in LapIds : rows[l] # NoLap => l <= finished

Tended(w) ==
    InFlight(job[w]) =>
        /\ job[w].session # 0
        /\ w \notin cancelled => Errand(job[w], rec[job[w].session], World)

Errands == \A w \in Workers : Tended(w)

LInv == Inv /\ Ledger /\ Counted /\ Errands
-----------------------------------------------------------------------------
(* Queues: what goes and what stays.                                       *)

\* Of a queue from which a lap is removed, all the others stay.
LEMMA WithoutKeeps ==
    ASSUME NEW q \in Queues, NEW l \in ToSet(q)
    PROVE  /\ ToSet(Without(q, l)) \subseteq ToSet(q)
           /\ \A k \in ToSet(q) : k # l => k \in ToSet(Without(q, l))
<1>1. q \in Seq(LapIds) BY DEF Queues
<1>2. Len(q) \in Nat /\ DOMAIN q = 1..Len(q) BY <1>1, LenProperties
<1>3. PICK i \in DOMAIN q : q[i] = l /\ Without(q, l) = RemoveAt(q, i)
  <2>1. \E i \in DOMAIN q : q[i] = l BY DEF ToSet
  <2> QED BY <2>1 DEF Without
<1> DEFINE z == RemoveAt(q, i)
<1>4. /\ z \in Seq(LapIds) /\ Len(z) = Len(q) - 1
      /\ \A k \in 1..(Len(q) - 1) : z[k] = IF k < i THEN q[k] ELSE q[k + 1]
  BY RemoveAtPlaces
<1>5. DOMAIN z = 1..(Len(q) - 1) BY <1>4, LenProperties
<1> HIDE DEF z
<1>6. ASSUME NEW k \in DOMAIN z PROVE z[k] \in ToSet(q)
  <2>1. k \in DOMAIN q /\ k + 1 \in DOMAIN q /\ (z[k] = q[k] \/ z[k] = q[k + 1])
    BY <1>2, <1>4, <1>5
  <2> QED BY <2>1 DEF ToSet
<1>7. ASSUME NEW k \in DOMAIN q, q[k] # l PROVE \E m \in DOMAIN z : z[m] = q[k]
  <2>1. CASE k < i
    <3>1. k \in DOMAIN z /\ z[k] = q[k] BY <1>2, <1>3, <1>4, <1>5, <2>1
    <3> QED BY <3>1
  <2>2. CASE k > i
    <3>1. k - 1 \in DOMAIN z /\ z[k - 1] = q[k] BY <1>2, <1>3, <1>4, <1>5, <2>2
    <3> QED BY <3>1
  <2>3. k # i BY <1>3, <1>7
  <2> QED BY <1>2, <1>3, <2>1, <2>2, <2>3
<1> QED BY <1>3, <1>6, <1>7 DEF ToSet, z

LEMMA AppendKeeps ==
    ASSUME NEW q \in Queues, NEW l \in LapIds
    PROVE  ToSet(Append(q, l)) = ToSet(q) \cup {l}
<1> DEFINE z == Append(q, l)
<1>1. q \in Seq(LapIds) BY DEF Queues
<1>2. Len(q) \in Nat /\ DOMAIN q = 1..Len(q) BY <1>1, LenProperties
<1>3. /\ z \in Seq(LapIds) /\ Len(z) = Len(q) + 1
      /\ (\A i \in 1..Len(q) : z[i] = q[i]) /\ z[Len(q) + 1] = l
  BY <1>1, AppendProperties
<1>4. DOMAIN z = 1..(Len(q) + 1) BY <1>3, LenProperties
<1> HIDE DEF z
<1> QED BY <1>2, <1>3, <1>4 DEF ToSet, z

\* The place of a queue whose lap goes when the first n do, and the others'.
LEMMA DropKeeps ==
    ASSUME NEW q \in Queues, NEW n \in Nat
    PROVE  /\ ToSet(SubSeq(q, n + 1, Len(q))) \subseteq ToSet(q)
           /\ \A k \in DOMAIN q : k > n => q[k] \in ToSet(SubSeq(q, n + 1, Len(q)))
<1>1. q \in Seq(LapIds) BY DEF Queues
<1>2. /\ Len(q) \in Nat /\ DOMAIN q = 1..Len(q)
      /\ \A k \in 1..Len(q) : q[k] \in LapIds
  BY <1>1, LenProperties
<1>3. PICK m \in Nat : m = Len(q) BY <1>2
<1> DEFINE b == SubSeq(q, n + 1, m)
<1>4. /\ b \in Seq(LapIds)
      /\ Len(b) = IF n + 1 <= m THEN m - (n + 1) + 1 ELSE 0
      /\ \A k \in 1..(m - (n + 1) + 1) : b[k] = q[(n + 1) + k - 1]
  <2>1. \A k \in (n + 1)..m : q[k] \in LapIds BY <1>2, <1>3
  <2> QED BY <2>1, SubSeqProperties
<1> HIDE DEF b
<1>5. DOMAIN b = 1..Len(b) BY <1>4, LenProperties
<1>6. ASSUME NEW k \in DOMAIN b PROVE b[k] \in ToSet(q)
  <2>1. k \in 1..(m - (n + 1) + 1) /\ (n + 1) + k - 1 \in 1..m BY <1>4, <1>5
  <2>2. (n + 1) + k - 1 \in DOMAIN q BY <1>2, <1>3, <2>1
  <2> QED BY <1>4, <2>1, <2>2 DEF ToSet
<1>7. ASSUME NEW k \in DOMAIN q, k > n PROVE \E i \in DOMAIN b : b[i] = q[k]
  <2>0. k \in 1..m BY <1>2, <1>3
  <2>1. /\ k - n \in 1..(m - (n + 1) + 1) /\ n + 1 <= m
        /\ (n + 1) + (k - n) - 1 = k
    BY <1>7, <2>0
  <2>2. k - n \in DOMAIN b BY <1>4, <1>5, <2>1
  <2> QED BY <1>4, <2>1, <2>2
<1> QED BY <1>3, <1>6, <1>7 DEF ToSet, b

\* The queue cap takes the laps it names from their queues, and no others.
LEMMA TrimKeeps ==
    ASSUME NEW rs \in [Sessions -> Record], NEW s \in Sessions
    PROVE  /\ ToSet(TrimQueue(rs)[s].queue) \subseteq ToSet(rs[s].queue)
           /\ ToSet(rs[s].queue) \subseteq ToSet(TrimQueue(rs)[s].queue) \cup Trimmed(rs)
           /\ TrimQueue(rs)[s] = [rs[s] EXCEPT !.queue = TrimQueue(rs)[s].queue]
<1> DEFINE q == rs[s].queue
           O == Overflow(rs, s)
           n == Cardinality(O)
<1>1. q \in Queues /\ q \in Seq(LapIds) BY DEF Record, Queues
<1>2. Len(q) \in Nat /\ DOMAIN q = 1..Len(q) BY <1>1, LenProperties
<1>3. /\ TrimQueue(rs)[s].queue = SubSeq(q, n + 1, Len(q))
      /\ TrimQueue(rs)[s] = [rs[s] EXCEPT !.queue = TrimQueue(rs)[s].queue]
  BY DEF TrimQueue, Record
<1>4. O \subseteq DOMAIN q BY DEF Overflow
<1>5. n \in Nat
  <2>1. IsFiniteSet(DOMAIN q) BY <1>2, FS_Interval
  <2> QED BY <1>4, <2>1, FS_Subset, FS_CardinalityType
<1>6. ASSUME NEW i \in O, NEW k \in DOMAIN q, k < i PROVE k \in O
  <2> DEFINE B(p) == Behind(rs, s, p)
  <2>1. B(i) \subseteq B(k)
    <3>1. i \in 1..Len(q) /\ k \in 1..Len(q) /\ Places(rs) \subseteq Sessions \X LapIds
      BY <1>2, <1>4 DEF Places
    <3> QED BY <1>6, <3>1, BoundsAssumption DEF Behind, Sessions, LapIds
  <2>2. IsFiniteSet(B(k))
    <3>1. IsFiniteSet(Sessions) /\ IsFiniteSet(LapIds)
      BY FS_Interval, BoundsAssumption DEF Sessions, LapIds
    <3>2. IsFiniteSet(Sessions \X LapIds) BY <3>1, FS_Product
    <3>3. B(k) \subseteq Sessions \X LapIds BY DEF Behind, Places
    <3> QED BY <3>2, <3>3, FS_Subset
  <2>3. Cardinality(B(i)) <= Cardinality(B(k)) /\ IsFiniteSet(B(i))
    BY <2>1, <2>2, FS_Subset
  <2>4. Cardinality(B(i)) >= MaxQueue BY DEF Overflow
  <2>5. Cardinality(B(i)) \in Nat /\ Cardinality(B(k)) \in Nat
    BY <2>2, <2>3, FS_CardinalityType
  <2>6. Cardinality(B(k)) >= MaxQueue BY <2>3, <2>4, <2>5, BoundsAssumption
  <2> QED BY <2>6 DEF Overflow
<1>7. ASSUME NEW k \in DOMAIN q, ~(k > n) PROVE k \in O
  <2>1. SUFFICES ASSUME k \notin O PROVE FALSE OBVIOUS
  <2>2. O \subseteq 1..(k - 1)
    <3>1. ASSUME NEW i \in O PROVE i \in 1..(k - 1)
      <4>1. i \in DOMAIN q /\ i # k /\ ~(k < i) BY <1>4, <1>6, <2>1
      <4> QED BY <1>2, <4>1
    <3> QED BY <3>1
  <2>3. k - 1 \in Nat /\ k \in Nat BY <1>2
  <2>4. IsFiniteSet(1..(k - 1)) /\ Cardinality(1..(k - 1)) = k - 1
    <3> HIDE DEF q, O, n
    <3>1. ASSUME NEW m \in Nat
          PROVE  IsFiniteSet(1..m) /\ Cardinality(1..m) = m
      <4>1. 1 \in Int /\ m \in Int OBVIOUS
      <4>2. IsFiniteSet(1..m) /\ Cardinality(1..m) = IF 1 > m THEN 0 ELSE m - 1 + 1
        BY <4>1, FS_Interval
      <4>3. (IF 1 > m THEN 0 ELSE m - 1 + 1) = m OBVIOUS
      <4> QED BY <4>2, <4>3
    <3> QED BY <2>3, <3>1
  <2>5. n <= k - 1 BY <2>2, <2>4, FS_Subset
  <2> QED BY <1>5, <1>7, <2>3, <2>5
<1> HIDE DEF n, O
<1>8. ASSUME NEW k \in DOMAIN q PROVE q[k] \in ToSet(SubSeq(q, n + 1, Len(q))) \cup Trimmed(rs)
  <2>1. CASE k > n BY <1>1, <1>5, <2>1, DropKeeps
  <2>2. CASE ~(k > n) BY <1>7, <2>2 DEF Trimmed, O
  <2> QED BY <2>1, <2>2
<1>9. ToSet(SubSeq(q, n + 1, Len(q))) \subseteq ToSet(q) BY <1>1, <1>5, DropKeeps
<1>10. ToSet(q) \subseteq ToSet(SubSeq(q, n + 1, Len(q))) \cup Trimmed(rs)
  BY <1>8 DEF ToSet
<1> QED BY <1>3, <1>9, <1>10

-----------------------------------------------------------------------------
(* What a step may do to the world, and that claims about it survive.      *)

\* Laps and sessions are only added, an id that is a lap's own keeps its
\* session until its row goes, and what the service holds it goes on holding.
Grows(W, V) ==
    /\ W.finished \in Nat /\ V.finished \in Nat /\ W.finished <= V.finished
    /\ W.opened \in Nat /\ V.opened \in Nat /\ W.opened <= V.opened
    /\ V.open \in Nat /\ (V.open \in {0, W.open} \/ V.open > W.opened)
    /\ W.dropped \subseteq V.dropped
    /\ \A l \in LapIds : V.rows[l].lap = l =>
          (W.rows[l].lap = l /\ W.rows[l].session = V.rows[l].session) \/ l > W.finished
    /\ \A t \in RemoteIds : W.remote[t].drive # 0 =>
          /\ V.remote[t].drive # 0
          /\ W.remote[t].circuit => V.remote[t].circuit
          /\ W.remote[t].gone => V.remote[t].gone
          /\ \A n : HasLap(W, t, n) => HasLap(V, t, n)

LEMMA SoundStays ==
    ASSUME NEW W, NEW V, Grows(W, V), NEW s \in Sessions, NEW r \in Record, Sound(r, s, W)
    PROVE  Sound(r, s, V)
<1>1. r.remote # 0 => r.remote \in RemoteIds
  <2>1. r.remote \in 0..MaxRemote BY DEF Record
  <2> QED BY <2>1, BoundsAssumption DEF RemoteIds
<1>2. r.remote # 0 => V.remote[r.remote].drive # 0
  BY <1>1 DEF Sound, Grows
<1>3. \A l \in LapIds : r.laps[l] = "synced" \/ l \in ToSet(r.queue) =>
         l <= W.finished /\ l <= V.finished
  BY DEF Sound, Grows, LapIds
<1>4. Claims(r, s, V)
  <2> SUFFICES ASSUME r.remote # 0, ~r.closed, ~V.remote[r.remote].gone
               PROVE  /\ r.circuit /\ ~r.trackError => V.remote[r.remote].circuit \/ r.trackPending
                      /\ \A l \in LapIds :
                            /\ V.rows[l].session = s /\ V.rows[l].lap = l /\ r.laps[l] = "synced"
                            /\ l \notin ToSet(r.queue) \cup V.dropped
                            => HasLap(V, r.remote, l)
    BY DEF Claims
  <2>1. W.remote[r.remote].drive # 0 /\ ~W.remote[r.remote].gone
    BY <1>1 DEF Sound, Grows
  <2>2. /\ r.circuit /\ ~r.trackError => W.remote[r.remote].circuit \/ r.trackPending
        /\ \A l \in LapIds :
              /\ W.rows[l].session = s /\ W.rows[l].lap = l /\ r.laps[l] = "synced"
              /\ l \notin ToSet(r.queue) \cup W.dropped
              => HasLap(W, r.remote, l)
    BY <2>1 DEF Sound, Claims
  <2>3. r.circuit /\ ~r.trackError => V.remote[r.remote].circuit \/ r.trackPending
    BY <1>1, <2>1, <2>2 DEF Grows
  <2>4. ASSUME NEW l \in LapIds, V.rows[l].session = s, V.rows[l].lap = l,
               r.laps[l] = "synced", l \notin ToSet(r.queue) \cup V.dropped
        PROVE  HasLap(V, r.remote, l)
    <3>1. ~(l > W.finished) BY <1>3, <2>4 DEF Grows, LapIds
    <3>2. W.rows[l].session = s /\ W.rows[l].lap = l /\ W.dropped \subseteq V.dropped
      BY <2>4, <3>1 DEF Grows
    <3>3. HasLap(W, r.remote, l) BY <2>2, <2>4, <3>2
    <3> QED BY <1>1, <2>1, <3>3 DEF Grows
  <2> QED BY <2>3, <2>4
<1>5. r.endPending => s # V.open /\ s <= V.opened
  <2>1. s \in Nat /\ s # 0 BY DEF Sessions
  <2>2. r.endPending => s # W.open /\ s <= W.opened BY DEF Sound
  <2> QED BY <2>1, <2>2 DEF Grows
<1> QED BY <1>2, <1>3, <1>4, <1>5 DEF Sound

\* The record q serves the errand as r did.
Alike(j, r, q) ==
    r.held => /\ q.held /\ q.remote = r.remote
              /\ j.kind = "end" => (NamesCircuit(q) <=> NamesCircuit(r))

LEMMA ErrandStays ==
    ASSUME NEW W, NEW V, Grows(W, V), NEW j \in Job, j.session # 0,
           NEW r, NEW q, Errand(j, r, W), j.own => Alike(j, r, q)
    PROVE  Errand(j, q, V)
<1> DEFINE served == j.kind # "start" \/ (j.at = "answered" /\ j.reply = "ok")
<1>0. j.session \in Sessions /\ j.target \in 0..MaxRemote /\ j.lap \in 0..MaxLap
  BY DEF Job, JobFields
<1>1. served => j.target \in RemoteIds /\ W.remote[j.target].drive # 0
  BY <1>0, BoundsAssumption DEF Errand, RemoteIds
<1>2. served => j.target # 0 /\ V.remote[j.target].drive # 0
  BY <1>1, BoundsAssumption DEF Grows, RemoteIds
<1>3. j.own => q.held /\ q.remote = IF j.kind = "start" THEN 0 ELSE j.target
  BY DEF Errand, Alike
<1>4. j.kind = "lap" =>
         /\ j.lap <= V.finished
         /\ j.at # "load" /\ V.rows[j.lap].lap = j.lap => j.doc.lap = j.lap
  <2> SUFFICES ASSUME j.kind = "lap"
               PROVE  /\ j.lap <= V.finished
                      /\ j.at # "load" /\ V.rows[j.lap].lap = j.lap => j.doc.lap = j.lap
    OBVIOUS
  <2>1. j.lap \in LapIds BY <1>0, BoundsAssumption DEF Job, LapIds
  <2>2. j.lap <= W.finished BY DEF Errand
  <2>3. j.lap <= V.finished /\ ~(j.lap > W.finished) BY <2>1, <2>2 DEF Grows, LapIds
  <2>4. V.rows[j.lap].lap = j.lap => W.rows[j.lap].lap = j.lap BY <2>1, <2>3 DEF Grows
  <2> QED BY <2>3, <2>4 DEF Errand
<1>5. j.kind = "end" => j.session # V.open /\ j.session <= V.opened
  <2>1. j.session \in Nat BY <1>0 DEF Sessions
  <2>2. j.kind = "end" => j.session # W.open /\ j.session <= W.opened BY DEF Errand
  <2> QED BY <2>1, <2>2 DEF Grows
<1>6. j.kind = "end" /\ j.own /\ j.at # "load" => (j.names <=> NamesCircuit(q))
  BY DEF Errand, Alike
<1>7. j.at = "answered" /\ j.reply = "ok" =>
         /\ j.kind \in {"start", "name", "end"} /\ j.names => V.remote[j.target].circuit
         /\ j.kind = "lap" => HasLap(V, j.target, j.doc.lap)
  <2> SUFFICES ASSUME j.at = "answered", j.reply = "ok"
               PROVE  /\ j.kind \in {"start", "name", "end"} /\ j.names => V.remote[j.target].circuit
                      /\ j.kind = "lap" => HasLap(V, j.target, j.doc.lap)
    OBVIOUS
  <2>1. /\ j.kind \in {"start", "name", "end"} /\ j.names => W.remote[j.target].circuit
        /\ j.kind = "lap" => HasLap(W, j.target, j.doc.lap)
    BY DEF Errand
  <2> QED BY <1>1, <2>1 DEF Grows
<1>8. j.kind = "name" => j.names BY DEF Errand
<1> QED BY <1>2, <1>3, <1>4, <1>5, <1>6, <1>7, <1>8 DEF Errand

\* A worker whose record has gone carries its errand out for nobody.
LEMMA ErrandDisowned ==
    ASSUME NEW W, NEW j \in Job, NEW r, NEW q, Errand(j, r, W)
    PROVE  Errand([j EXCEPT !.own = FALSE], q, W)
<1> DEFINE k == [j EXCEPT !.own = FALSE]
<1>1. /\ k.own = FALSE /\ k.kind = j.kind /\ k.at = j.at /\ k.session = j.session
      /\ k.lap = j.lap /\ k.target = j.target /\ k.names = j.names /\ k.doc = j.doc
      /\ k.reply = j.reply
  BY DEF Job, JobFields
<1> HIDE DEF k
<1> QED BY <1>1 DEF Errand, k

-----------------------------------------------------------------------------
(* A record in the hands of the operators that change it.                  *)

LEMMA EmptySound ==
    ASSUME NEW W, NEW s \in Sessions PROVE Sound(NoRecord, s, W) /\ Sound(NewRecord, s, W)
<1>1. ASSUME NEW r \in {NoRecord, NewRecord} PROVE Sound(r, s, W)
  <2>1. /\ r.remote = 0 /\ ~r.trackPending /\ ~r.trackError /\ ~r.endPending
        /\ r.queue = <<>> /\ r.laps = [l \in LapIds |-> "none"]
    <3>1. CASE r = NoRecord BY <3>1 DEF NoRecord
    <3>2. CASE r = NewRecord BY <3>2 DEF NoRecord, NewRecord
    <3> QED BY <3>1, <3>2
  <2>2. ToSet(r.queue) = {}
    <3>1. DOMAIN <<>> = {} BY EmptySeq, LenProperties
    <3> QED BY <2>1, <3>1 DEF ToSet
  <2> QED BY <2>1, <2>2 DEF Sound, Claims
<1> QED BY <1>1

\* The car, the times and the analysis: nothing Sound reads.
LEMMA SettledSound ==
    ASSUME NEW W, NEW s \in Sessions, NEW r \in Record, Sound(r, s, W), NEW status
    PROVE  Sound(Settled(r, status), s, W)
<1> DEFINE n == Settled(r, status)
<1>1. /\ n.remote = r.remote /\ n.closed = r.closed /\ n.circuit = r.circuit
      /\ n.trackError = r.trackError /\ n.trackPending = r.trackPending
      /\ n.laps = r.laps /\ n.queue = r.queue /\ n.endPending = r.endPending
  BY DEF Settled, Record
<1> HIDE DEF n
<1> QED BY <1>1 DEF Sound, Claims, n

LEMMA TrimSound ==
    ASSUME NEW W, NEW s \in Sessions, NEW r \in Record, Sound(r, s, W), NEW q \in Queues,
           ToSet(q) \subseteq ToSet(r.queue), ToSet(r.queue) \subseteq ToSet(q) \cup W.dropped
    PROVE  Sound([r EXCEPT !.queue = q], s, W)
<1> DEFINE n == [r EXCEPT !.queue = q]
<1>1. /\ n.remote = r.remote /\ n.closed = r.closed /\ n.circuit = r.circuit
      /\ n.trackError = r.trackError /\ n.trackPending = r.trackPending
      /\ n.laps = r.laps /\ n.queue = q /\ n.endPending = r.endPending
  BY DEF Record
<1> HIDE DEF n
<1> QED BY <1>1 DEF Sound, Claims, n

LEMMA WithLapSound ==
    ASSUME NEW W, NEW s \in Sessions, NEW r \in Record, Sound(r, s, W),
           NEW l \in LapIds, l <= W.finished, NEW known \in BOOLEAN
    PROVE  Sound(WithLap(r, l, known), s, W)
<1> DEFINE n == WithLap(r, l, known)
           q == IF l \in ToSet(r.queue) THEN r.queue ELSE Append(r.queue, l)
           late == r.remote # 0 /\ ~r.trackError /\ known /\ ~r.circuit
<1>1. /\ n.remote = r.remote /\ n.closed = r.closed /\ n.trackError = r.trackError
      /\ n.circuit = (IF r.remote = 0 \/ late THEN r.circuit \/ known ELSE r.circuit)
      /\ n.trackPending = (r.trackPending \/ late)
      /\ n.laps = r.laps /\ n.queue = q /\ n.endPending = r.endPending
  BY DEF WithLap, Record
<1>2. ToSet(q) = ToSet(r.queue) \cup {l} BY AppendKeeps DEF Record
<1> HIDE DEF n, q
<1>3. Claims(n, s, W)
  <2>1. n.remote # 0 /\ ~n.closed /\ ~W.remote[n.remote].gone =>
           (n.circuit /\ ~n.trackError => W.remote[n.remote].circuit \/ n.trackPending)
    BY <1>1, Zenon DEF Sound, Claims
  <2>2. n.remote # 0 /\ ~n.closed /\ ~W.remote[n.remote].gone =>
           \A k \in LapIds :
              /\ W.rows[k].session = s /\ W.rows[k].lap = k /\ n.laps[k] = "synced"
              /\ k \notin ToSet(n.queue) \cup W.dropped
              => HasLap(W, n.remote, k)
    BY <1>1, <1>2 DEF Sound, Claims
  <2> QED BY <2>1, <2>2 DEF Claims
<1>4. n.remote = 0 => /\ ~n.trackPending /\ ~n.trackError
                      /\ \A k \in LapIds : n.laps[k] # "synced"
  BY <1>1 DEF Sound
<1>5. n.trackPending => n.circuit /\ ~n.trackError BY <1>1, Zenon DEF Sound
<1>6. \A k \in LapIds : n.laps[k] = "synced" \/ k \in ToSet(n.queue) => k <= W.finished
  BY <1>1, <1>2 DEF Sound
<1>7. /\ n.remote # 0 => W.remote[n.remote].drive # 0
      /\ n.endPending => s # W.open /\ s <= W.opened
  BY <1>1 DEF Sound
<1> QED BY <1>3, <1>4, <1>5, <1>6, <1>7 DEF Sound, n

LEMMA EndedSound ==
    ASSUME NEW W, NEW s \in Sessions, NEW r \in Record, Sound(r, s, W),
           s # W.open, s <= W.opened
    PROVE  Sound(EndedRecord(r), s, W)
<1> DEFINE n == [r EXCEPT !.endPending = TRUE, !.analysisPending = TRUE, !.ended = TRUE]
<1>1. /\ n.remote = r.remote /\ n.closed = r.closed /\ n.circuit = r.circuit
      /\ n.trackError = r.trackError /\ n.trackPending = r.trackPending
      /\ n.laps = r.laps /\ n.queue = r.queue
  BY DEF Record
<1>2. EndedRecord(r) \in {n, NoRecord} BY DEF EndedRecord
<1> HIDE DEF n
<1>3. Sound(n, s, W) BY <1>1 DEF Sound, Claims
<1> QED BY <1>2, <1>3, EmptySound

\* lap_changed queues again only what the record notes as sent.
LEMMA AgainSound ==
    ASSUME NEW W, NEW s \in Sessions, NEW r \in Record, Sound(r, s, W),
           NEW q \in Queues, ToSet(r.queue) \subseteq ToSet(q), NEW a,
           \A k \in LapIds : k \in ToSet(q) => k \in ToSet(r.queue) \/ r.laps[k] = "synced"
    PROVE  Sound([r EXCEPT !.analysisPending = a, !.queue = q], s, W)
<1> DEFINE n == [r EXCEPT !.analysisPending = a, !.queue = q]
<1>1. /\ n.remote = r.remote /\ n.closed = r.closed /\ n.circuit = r.circuit
      /\ n.trackError = r.trackError /\ n.trackPending = r.trackPending
      /\ n.laps = r.laps /\ n.queue = q /\ n.endPending = r.endPending
  BY DEF Record
<1> HIDE DEF n
<1> QED BY <1>1 DEF Sound, Claims, n

\* A session the service has opened: it has the circuit the summary named, and
\* the record owes the one it has learnt since.
LEMMA OpenedSound ==
    ASSUME NEW W, NEW s \in Sessions, NEW r \in Record, Sound(r, s, W), r.remote = 0,
           NEW t \in 0..MaxRemote, t # 0, W.remote[t].drive # 0, NEW named \in BOOLEAN,
           named => W.remote[t].circuit
    PROVE  Sound(OpenedAs(r, t, named), s, W)
<1> DEFINE n == OpenedAs(r, t, named)
<1>1. /\ n.remote = t /\ n.closed = r.closed /\ n.circuit = r.circuit
      /\ n.trackError = r.trackError
      /\ n.trackPending = (r.trackPending \/ (r.circuit /\ ~named))
      /\ n.laps = r.laps /\ n.queue = r.queue /\ n.endPending = r.endPending
  BY DEF OpenedAs, Record
<1> HIDE DEF n
<1>2. ~r.trackPending /\ ~r.trackError /\ \A l \in LapIds : r.laps[l] # "synced"
  BY DEF Sound
<1>3. Claims(n, s, W)
  <2>1. n.circuit => W.remote[n.remote].circuit \/ n.trackPending BY <1>1, Zenon
  <2> QED BY <1>1, <1>2, <2>1 DEF Claims
<1>4. n.trackPending => n.circuit /\ ~n.trackError BY <1>1, <1>2, Zenon
<1> QED BY <1>1, <1>2, <1>3, <1>4 DEF Sound, n

\* The circuit has reached the service, by itself or with the totals.
LEMMA NamedSound ==
    ASSUME NEW W, NEW s \in Sessions, NEW r \in Record, Sound(r, s, W), r.remote # 0,
           NamesCircuit(r) => W.remote[r.remote].circuit
    PROVE  /\ Sound([r EXCEPT !.trackPending = FALSE], s, W)
           /\ Sound([r EXCEPT !.endPending = FALSE, !.trackPending = FALSE], s, W)
<1>1. ASSUME NEW n \in {[r EXCEPT !.trackPending = FALSE],
                        [r EXCEPT !.endPending = FALSE, !.trackPending = FALSE]}
      PROVE  Sound(n, s, W)
  <2>1. /\ n.remote = r.remote /\ n.closed = r.closed /\ n.circuit = r.circuit
        /\ n.trackError = r.trackError /\ n.trackPending = FALSE
        /\ n.laps = r.laps /\ n.queue = r.queue
    BY DEF Record
  <2>2. n.endPending => r.endPending BY DEF Record
  <2> QED BY <2>1, <2>2 DEF Sound, Claims, NamesCircuit
<1> QED BY <1>1

\* The circuit was refused.
LEMMA CircuitRefusedSound ==
    ASSUME NEW W, NEW s \in Sessions, NEW r \in Record, Sound(r, s, W), r.remote # 0
    PROVE  Sound([r EXCEPT !.trackPending = FALSE, !.trackError = TRUE], s, W)
<1> DEFINE n == [r EXCEPT !.trackPending = FALSE, !.trackError = TRUE]
<1>1. /\ n.remote = r.remote /\ n.closed = r.closed /\ n.circuit = r.circuit
      /\ n.trackError = TRUE /\ n.trackPending = FALSE
      /\ n.laps = r.laps /\ n.queue = r.queue /\ n.endPending = r.endPending
  BY DEF Record
<1> HIDE DEF n
<1> QED BY <1>1 DEF Sound, Claims, n

LEMMA ClosedSound ==
    ASSUME NEW W, NEW s \in Sessions, NEW r \in Record, Sound(r, s, W)
    PROVE  Sound(Closed(r), s, W)
<1> DEFINE n == Closed(r)
<1>1. /\ n.remote = r.remote /\ n.closed = TRUE /\ n.circuit = r.circuit
      /\ n.trackError = r.trackError /\ n.trackPending = r.trackPending
      /\ n.laps = r.laps /\ n.queue = <<>> /\ n.endPending = FALSE
  BY DEF Closed, Record
<1>2. ToSet(n.queue) = {}
  <2>1. DOMAIN <<>> = {} BY EmptySeq, LenProperties
  <2> QED BY <1>1, <2>1 DEF ToSet
<1> HIDE DEF n
<1> QED BY <1>1, <1>2 DEF Sound, Claims, n

\* A lap is dealt with: what is noted as synced has to be on the service.
LEMMA ResolvedSound ==
    ASSUME NEW W, NEW s \in Sessions, NEW r \in Record, Sound(r, s, W), NEW l \in LapIds,
           NEW q, ToSet(q) \subseteq ToSet(r.queue),
           \A k \in ToSet(r.queue) : k # l => k \in ToSet(q),
           NEW v, v = "synced" => /\ l \in ToSet(r.queue) /\ r.remote # 0
                                  /\ W.rows[l].lap = l => HasLap(W, r.remote, l)
    PROVE  Sound([r EXCEPT !.queue = q, !.laps[l] = v], s, W)
<1> DEFINE n == [r EXCEPT !.queue = q, !.laps[l] = v]
<1>1. /\ n.remote = r.remote /\ n.closed = r.closed /\ n.circuit = r.circuit
      /\ n.trackError = r.trackError /\ n.trackPending = r.trackPending
      /\ n.laps = [r.laps EXCEPT ![l] = v] /\ n.queue = q /\ n.endPending = r.endPending
  BY DEF Record
<1>2. \A k \in LapIds : n.laps[k] = IF k = l THEN v ELSE r.laps[k]
  BY <1>1 DEF Record
<1> HIDE DEF n
<1>3. Claims(n, s, W)
  <2> SUFFICES ASSUME n.remote # 0, ~n.closed, ~W.remote[n.remote].gone
               PROVE  /\ n.circuit /\ ~n.trackError => W.remote[n.remote].circuit \/ n.trackPending
                      /\ \A k \in LapIds :
                            /\ W.rows[k].session = s /\ W.rows[k].lap = k /\ n.laps[k] = "synced"
                            /\ k \notin ToSet(n.queue) \cup W.dropped
                            => HasLap(W, n.remote, k)
    BY DEF Claims
  <2>1. /\ r.circuit /\ ~r.trackError => W.remote[r.remote].circuit \/ r.trackPending
        /\ \A k \in LapIds :
              /\ W.rows[k].session = s /\ W.rows[k].lap = k /\ r.laps[k] = "synced"
              /\ k \notin ToSet(r.queue) \cup W.dropped
              => HasLap(W, r.remote, k)
    BY <1>1 DEF Sound, Claims
  <2>2. ASSUME NEW k \in LapIds, W.rows[k].session = s, W.rows[k].lap = k,
               n.laps[k] = "synced", k \notin ToSet(n.queue) \cup W.dropped
        PROVE  HasLap(W, n.remote, k)
    <3>1. CASE k = l BY <1>1, <1>2, <2>2, <3>1
    <3>2. CASE k # l BY <1>1, <1>2, <2>1, <2>2, <3>2
    <3> QED BY <3>1, <3>2
  <2> QED BY <1>1, <2>1, <2>2
<1>4. n.remote = 0 => /\ ~n.trackPending /\ ~n.trackError
                      /\ \A k \in LapIds : n.laps[k] # "synced"
  BY <1>1, <1>2 DEF Sound
<1>5. \A k \in LapIds : n.laps[k] = "synced" \/ k \in ToSet(n.queue) => k <= W.finished
  BY <1>1, <1>2 DEF Sound
<1> QED BY <1>1, <1>3, <1>4, <1>5 DEF Sound, n

-----------------------------------------------------------------------------
(* Every step lets the world grow.                                         *)

LEMMA WorldFields ==
    /\ World.rows = rows /\ World.remote = remote /\ World.finished = finished
    /\ World.opened = opened /\ World.open = open /\ World.dropped = dropped
    /\ World'.rows = rows' /\ World'.remote = remote' /\ World'.finished = finished'
    /\ World'.opened = opened' /\ World'.open = open' /\ World'.dropped = dropped'
BY DEF World

LEMMA NumbersType ==
    ASSUME TypeOK
    PROVE  /\ finished \in Nat /\ opened \in Nat /\ open \in Nat /\ open <= opened
           /\ opened <= MaxSession
           /\ open # 0 => open \in Sessions
BY BoundsAssumption DEF TypeOK, DbTypeOK, Sessions

\* The service alone leaves the rest of the world as it is.
LEMMA RemoteGrows ==
    ASSUME TypeOK, UNCHANGED <<rows, finished, opened, open, dropped>>,
           \A t \in RemoteIds : remote[t].drive # 0 =>
              /\ remote'[t].drive # 0
              /\ remote[t].circuit => remote'[t].circuit
              /\ remote[t].gone => remote'[t].gone
              /\ \A n : HasLap(World, t, n) => HasLap(World', t, n)
    PROVE  Grows(World, World')
<1>1. finished \in Nat /\ opened \in Nat /\ open \in Nat BY NumbersType
<1>2. finished <= finished /\ opened <= opened BY <1>1
<1> QED BY <1>1, <1>2, WorldFields DEF Grows

\* So does everybody else the service.
LEMMA LocalGrows ==
    ASSUME TypeOK, TypeOK', remote' = remote, finished <= finished', opened <= opened',
           open' \in {0, open} \/ open' > opened, dropped \subseteq dropped',
           \A l \in LapIds : rows'[l].lap = l =>
              (rows[l].lap = l /\ rows[l].session = rows'[l].session) \/ l > finished
    PROVE  Grows(World, World')
<1>1. finished \in Nat /\ opened \in Nat /\ open \in Nat BY NumbersType
<1>2. finished' \in Nat /\ opened' \in Nat /\ open' \in Nat
  BY BoundsAssumption DEF TypeOK, DbTypeOK
<1>3. \A t, n : HasLap(World, t, n) => HasLap(World', t, n) BY WorldFields DEF HasLap
<1> QED BY <1>1, <1>2, <1>3, WorldFields DEF Grows

LEMMA AsideGrows ==
    ASSUME TypeOK, TypeOK', UNCHANGED <<rows, finished, opened, open, dropped, remote>>
    PROVE  Grows(World, World')
<1>1. finished <= finished' /\ opened <= opened' BY NumbersType
<1> QED BY <1>1, LocalGrows

\* The service replaces a lap by one of the same number.
LEMMA HoldingGrows ==
    ASSUME NEW j \in Job, j.kind # "start", NEW r \in RemoteSession
    PROVE  LET h == Holding(j, r)
           IN  /\ h.drive = r.drive /\ h.gone = r.gone
               /\ r.circuit => h.circuit
               /\ \A n : (\E d \in r.laps : d.lap = n) => \E d \in h.laps : d.lap = n
<1> DEFINE L == {d \in r.laps : d.lap # j.doc.lap} \cup {j.doc}
<1>1. j.kind \in {"name", "lap", "end", "analysis"} BY DEF Job, JobFields, Kinds
<1>2. CASE j.kind = "name"
  <2> DEFINE c == r.circuit \/ j.names
             h == [r EXCEPT !.circuit = c]
  <2>1. Holding(j, r) = h BY <1>2 DEF Holding
  <2>2. h.drive = r.drive /\ h.gone = r.gone /\ h.laps = r.laps /\ h.circuit = c
    BY DEF RemoteSession
  <2> HIDE DEF h
  <2> QED BY <2>1, <2>2
<1>3. CASE j.kind = "lap"
  <2> DEFINE h == [r EXCEPT !.laps = L]
  <2>1. Holding(j, r) = h BY <1>3 DEF Holding
  <2>2. h.drive = r.drive /\ h.gone = r.gone /\ h.laps = L /\ h.circuit = r.circuit
    BY DEF RemoteSession
  <2>3. ASSUME NEW d \in r.laps PROVE \E e \in L : e.lap = d.lap
    <3>1. CASE d.lap = j.doc.lap BY <3>1
    <3>2. CASE d.lap # j.doc.lap BY <3>2
    <3> QED BY <3>1, <3>2
  <2> HIDE DEF h, L
  <2> QED BY <2>1, <2>2, <2>3
<1>4. CASE j.kind = "end"
  <2> DEFINE c == r.circuit \/ j.names
             h == [r EXCEPT !.ended = TRUE, !.circuit = c]
  <2>1. Holding(j, r) = h BY <1>4 DEF Holding
  <2>2. h.drive = r.drive /\ h.gone = r.gone /\ h.laps = r.laps /\ h.circuit = c
    BY DEF RemoteSession
  <2> HIDE DEF h
  <2> QED BY <2>1, <2>2
<1>5. CASE j.kind = "analysis"
  <2> DEFINE h == [r EXCEPT !.analysis = j.ver]
  <2>1. Holding(j, r) = h BY <1>5 DEF Holding
  <2>2. h.drive = r.drive /\ h.gone = r.gone /\ h.laps = r.laps /\ h.circuit = r.circuit
    BY DEF RemoteSession
  <2> HIDE DEF h
  <2> QED BY <2>1, <2>2
<1> QED BY <1>1, <1>2, <1>3, <1>4, <1>5

LEMMA ServiceGrows ==
    ASSUME TypeOK, TypeOK', Service PROVE Grows(World, World')
<1>1. CASE \E w \in Workers : ServiceTakes(w)
  <2>1. PICK w \in Workers : ServiceTakes(w) BY <1>1
  <2>2. PICK t \in RemoteIds :
           /\ IF job[w].kind = "start" THEN t \in FreeRemotes ELSE t = job[w].target
           /\ remote' = [remote EXCEPT ![t] = Holding(job[w], remote[t])]
    BY <2>1 DEF ServiceTakes
  <2>3. UNCHANGED <<rows, finished, opened, open, dropped>>
    BY <2>1 DEF ServiceTakes, dbVars
  <2>4. job[w] \in Job /\ remote \in [RemoteIds -> RemoteSession]
    BY DEF TypeOK, WorkerTypeOK, ServerTypeOK
  <2>5. ASSUME NEW u \in RemoteIds, remote[u].drive # 0
        PROVE  /\ remote'[u].drive # 0
               /\ remote[u].circuit => remote'[u].circuit
               /\ remote[u].gone => remote'[u].gone
               /\ \A n : HasLap(World, u, n) => HasLap(World', u, n)
    <3>1. CASE u # t
      <4>1. remote'[u] = remote[u] BY <2>2, <2>4, <3>1
      <4> QED BY <4>1, <2>5, WorldFields DEF HasLap
    <3>2. CASE u = t
      <4>1. job[w].kind # "start" BY <2>2, <2>5, <3>2 DEF FreeRemotes
      <4>2. remote'[u] = Holding(job[w], remote[u]) BY <2>2, <2>4, <3>2
      <4>3. remote[u] \in RemoteSession BY <2>4
      <4> DEFINE h == Holding(job[w], remote[u])
      <4>4. /\ h.drive = remote[u].drive /\ h.gone = remote[u].gone
            /\ remote[u].circuit => h.circuit
            /\ \A n : (\E d \in remote[u].laps : d.lap = n) => \E d \in h.laps : d.lap = n
        BY <4>1, <4>3, <2>4, HoldingGrows
      <4> HIDE DEF h
      <4>5. remote'[u] = h BY <4>2 DEF h
      <4> QED BY <4>4, <4>5, <2>5, WorldFields DEF HasLap
    <3> QED BY <3>1, <3>2
  <2> QED BY <2>3, <2>5, RemoteGrows
<1>2. CASE \E r \in RemoteIds : SessionExpires(r)
  <2>1. PICK r \in RemoteIds : SessionExpires(r) BY <1>2
  <2>2. UNCHANGED <<rows, finished, opened, open, dropped>>
    BY <2>1 DEF SessionExpires, dbVars, adapterVars
  <2>3. remote \in [RemoteIds -> RemoteSession] BY DEF TypeOK, ServerTypeOK
  <2>4. remote' = [remote EXCEPT ![r] = [remote[r] EXCEPT !.gone = TRUE]]
    BY <2>1 DEF SessionExpires
  <2> DEFINE h == [remote[r] EXCEPT !.gone = TRUE]
  <2>5. /\ h.drive = remote[r].drive /\ h.gone = TRUE /\ h.circuit = remote[r].circuit
        /\ h.laps = remote[r].laps
    BY <2>3 DEF RemoteSession
  <2> HIDE DEF h
  <2>6. \A u \in RemoteIds : remote'[u] = IF u = r THEN h ELSE remote[u]
    BY <2>3, <2>4 DEF h
  <2>7. ASSUME NEW u \in RemoteIds
        PROVE  /\ remote'[u].drive = remote[u].drive /\ remote'[u].circuit = remote[u].circuit
               /\ remote[u].gone => remote'[u].gone
               /\ remote'[u].laps = remote[u].laps
    BY <2>5, <2>6
  <2>8. \A u \in RemoteIds : \A n : HasLap(World, u, n) => HasLap(World', u, n)
    BY <2>7, WorldFields DEF HasLap
  <2> QED BY <2>2, <2>7, <2>8, RemoteGrows
<1>3. CASE OfferChanges \/ \E w \in Workers : ServiceDeclines(w)
  <2>1. UNCHANGED <<rows, finished, opened, open, dropped, remote>>
    BY <1>3 DEF OfferChanges, ServiceDeclines, dbVars, adapterVars, serverVars
  <2> QED BY <2>1, AsideGrows
<1> QED BY <1>1, <1>2, <1>3 DEF Service

LEMMA RecorderGrows ==
    ASSUME TypeOK, TypeOK', Recorder PROVE Grows(World, World')
<1> USE NumbersType
<1>0. rows \in [LapIds -> Lap \cup {NoLap}] BY DEF TypeOK, DbTypeOK
<1>1. CASE SessionStarted
  <2>1. /\ UNCHANGED <<rows, finished, dropped, remote>>
        /\ opened' = opened + 1 /\ open' = opened + 1
    BY <1>1 DEF SessionStarted, serverVars
  <2> QED BY <2>1, LocalGrows
<1>2. CASE \E l \in LapIds : LapSaved(l)
  <2>1. PICK l \in LapIds : LapSaved(l) BY <1>2
  <2>2. /\ UNCHANGED <<opened, open, remote>> /\ finished' = finished + 1
        /\ rows' = [rows EXCEPT ![l] = [session |-> open, lap |-> finished + 1, ver |-> 0]]
        /\ dropped \subseteq dropped'
    BY <2>1 DEF LapSaved, serverVars
  <2>3. ASSUME NEW k \in LapIds, rows'[k].lap = k
        PROVE  (rows[k].lap = k /\ rows[k].session = rows'[k].session) \/ k > finished
    <3>1. CASE k = l BY <1>0, <2>2, <2>3, <3>1
    <3>2. CASE k # l BY <1>0, <2>2, <2>3, <3>2
    <3> QED BY <3>1, <3>2
  <2>4. finished <= finished' BY <2>2
  <2> QED BY <2>2, <2>3, <2>4, LocalGrows
<1>3. CASE \E l \in LapIds : RulingCommitted(l)
  <2>1. PICK l \in LapIds : RulingCommitted(l) BY <1>3
  <2>2. /\ UNCHANGED <<finished, opened, open, dropped, remote>>
        /\ rows' = [rows EXCEPT ![l] = [rows[l] EXCEPT !.ver = rulings + 1]]
    BY <2>1 DEF RulingCommitted, adapterVars, serverVars
  <2> DEFINE d == [rows[l] EXCEPT !.ver = rulings + 1]
  <2>3. d.lap = rows[l].lap /\ d.session = rows[l].session
    BY <1>0 DEF Lap, NoLap
  <2> HIDE DEF d
  <2>4. \A k \in LapIds : rows'[k].lap = rows[k].lap /\ rows'[k].session = rows[k].session
    BY <1>0, <2>2, <2>3 DEF d
  <2> QED BY <2>2, <2>4, LocalGrows
<1>4. CASE AllCleared \/ (\E l \in LapIds : LapDeleted(l)) \/ \E s \in Sessions : SessionDeleted(s)
  <2>1. UNCHANGED <<finished, opened, dropped, remote>> /\ open' \in {0, open}
    BY <1>4 DEF AllCleared, LapDeleted, SessionDeleted, adapterVars, serverVars
  <2>2. \A k \in LapIds : rows'[k] \in {rows[k], NoLap}
    BY <1>0, <1>4 DEF AllCleared, LapDeleted, SessionDeleted
  <2>3. \A k \in LapIds : NoLap.lap # k BY DEF NoLap, LapIds
  <2> QED BY <2>1, <2>2, <2>3, LocalGrows
<1>5. CASE \E l \in LapIds, s \in Sessions : LapChanged(l, s)
  <2>1. UNCHANGED <<rows, finished, opened, open, dropped, remote>>
    BY <1>5 DEF LapChanged, serverVars
  <2> QED BY <2>1, AsideGrows
<1> QED BY <1>1, <1>2, <1>3, <1>4, <1>5 DEF Recorder

LEMMA StepGrows ==
    ASSUME TypeOK, TypeOK', [Next]_vars PROVE Grows(World, World')
<1>1. CASE Recorder BY <1>1, RecorderGrows
<1>2. CASE Service BY <1>2, ServiceGrows
<1>3. CASE (\E w \in Workers : Worker(w)) \/ BackoffOver \/ UNCHANGED vars
  <2>1. UNCHANGED <<rows, finished, opened, open, dropped, remote>>
    BY <1>3 DEF Worker, WorkerStops, WorkerIdles, PushNext, LapLoaded, TotalsLoaded,
         AnalysisLoaded, Accepted, Refused, HeldBack, SwitchedOffByService, Unwinds,
         BackoffOver, vars, dbVars, adapterVars, serverVars
  <2> QED BY <2>1, AsideGrows
<1>4. CASE Client
  <2>1. UNCHANGED <<rows, finished, opened, dropped, remote>> /\ open' \in {0, open}
    BY <1>4 DEF Client, SwitchedOn, SwitchedOff, BringUpAsks, BringUpActs, ConnectionTested,
         PushPressed, ConnectionChanged, ConnectionReset, Restarted, Crashed, Started,
         dbVars, adapterVars, serverVars
  <2>2. finished <= finished' /\ opened <= opened' BY <2>1, NumbersType
  <2> QED BY <2>1, <2>2, LocalGrows
<1> QED BY <1>1, <1>2, <1>3, <1>4 DEF Next

-----------------------------------------------------------------------------
(* The invariant under the operators the steps are made of.                *)

LEMMA Types ==
    ASSUME TypeOK
    PROVE  /\ rec \in [Sessions -> Record] /\ disk.recs \in [Sessions -> Record]
           /\ job \in [Workers -> Job] /\ cancelled \subseteq Workers
           /\ rows \in [LapIds -> Lap \cup {NoLap}]
<1>1. /\ rec \in [Sessions -> Record] /\ job \in [Workers -> Job] /\ cancelled \subseteq Workers
      /\ rows \in [LapIds -> Lap \cup {NoLap}]
      /\ disk \in [url: Urls, recs: [Sessions -> Record]]
  BY DEF TypeOK, AdapterTypeOK, WorkerTypeOK, DbTypeOK
<1> QED BY <1>1

LEMMA SaneStays ==
    ASSUME NEW W, NEW V, Grows(W, V), NEW rs \in [Sessions -> Record], Sane(rs, W)
    PROVE  Sane(rs, V)
BY SoundStays DEF Sane

LEMMA SaneReplaced ==
    ASSUME NEW W, NEW rs \in [Sessions -> Record], Sane(rs, W), NEW s \in Sessions,
           NEW r, Sound(r, s, W)
    PROVE  Sane([rs EXCEPT ![s] = r], W)
BY DEF Sane

LEMMA LedgerKeeps ==
    ASSUME TypeOK, Ledger, Grows(World, World'), Sane(rec', World'),
           disk' = disk \/ Write(rec')
    PROVE  Ledger'
<1>1. Sane(disk.recs, World') BY Types, SaneStays DEF Ledger
<1>2. CASE disk' = disk BY <1>1, <1>2 DEF Ledger
<1>3. CASE Write(rec')
  <2>1. disk'.recs = rec' BY <1>3 DEF Write
  <2> QED BY <2>1 DEF Ledger
<1> QED BY <1>2, <1>3

\* A worker goes on with its errand, has lost its record, or is through.
Carried(w) ==
    /\ job'[w] \in {job[w], [job[w] EXCEPT !.own = FALSE]} \/ ~InFlight(job'[w])
    /\ w \in cancelled => w \in cancelled' \/ ~InFlight(job'[w])

LEMMA CarriedKeeps ==
    ASSUME TypeOK, Errands, Grows(World, World'), NEW w \in Workers, Carried(w),
           InFlight(job[w]) /\ w \notin cancelled /\ job[w].own /\ job'[w] = job[w]
             /\ Errand(job[w], rec[job[w].session], World)
           => Alike(job[w], rec[job[w].session], rec'[job[w].session])
    PROVE  Tended(w)'
<1> SUFFICES ASSUME InFlight(job'[w])
             PROVE  /\ job'[w].session # 0
                    /\ w \notin cancelled' => Errand(job'[w], rec'[job'[w].session], World')
  BY DEF Tended
<1>1. job[w] \in Job BY Types
<1>2. w \in cancelled => w \in cancelled' BY DEF Carried
<1>3. CASE job'[w] = job[w]
  <2>1. job[w].session # 0 BY <1>3 DEF Errands, Tended
  <2>2. ASSUME w \notin cancelled'
        PROVE  Errand(job[w], rec'[job[w].session], World')
    <3>1. Errand(job[w], rec[job[w].session], World) /\ w \notin cancelled
      BY <1>2, <1>3, <2>2 DEF Errands, Tended
    <3>2. job[w].own => Alike(job[w], rec[job[w].session], rec'[job[w].session])
      BY <1>3, <3>1
    <3> QED BY <1>1, <2>1, <3>1, <3>2, ErrandStays
  <2> QED BY <1>3, <2>1, <2>2
<1>4. CASE job'[w] = [job[w] EXCEPT !.own = FALSE]
  <2> DEFINE k == [job[w] EXCEPT !.own = FALSE]
  <2>1. k \in Job /\ k.at = job[w].at /\ k.session = job[w].session /\ k.own = FALSE
    BY <1>1 DEF Job, JobFields
  <2>2. job'[w] = k BY <1>4
  <2>3. InFlight(job[w]) BY <2>1, <2>2 DEF InFlight
  <2>4. k.session # 0 BY <2>1, <2>3 DEF Errands, Tended
  <2>5. ASSUME w \notin cancelled'
        PROVE  Errand(k, rec'[k.session], World')
    <3>1. Errand(job[w], rec[job[w].session], World)
      BY <1>2, <2>3, <2>5 DEF Errands, Tended
    <3>2. Errand(k, rec[k.session], World) BY <1>1, <3>1, ErrandDisowned
    <3> HIDE DEF k
    <3> QED BY <2>1, <2>4, <3>2, ErrandStays
  <2> HIDE DEF k
  <2> QED BY <2>2, <2>4, <2>5
<1> QED BY <1>3, <1>4 DEF Carried

LEMMA DisownedCarries ==
    ASSUME TypeOK, NEW S, NEW w \in Workers
    PROVE  /\ Disowned(S)[w] \in {job[w], [job[w] EXCEPT !.own = FALSE]}
           /\ job[w].session \in S => ~Disowned(S)[w].own
<1>1. job[w] \in Job BY Types
<1>2. [job[w] EXCEPT !.own = FALSE].own = FALSE BY <1>1 DEF Job, JobFields
<1> QED BY <1>2 DEF Disowned

LEMMA KickCarries ==
    ASSUME NEW j \in [Workers -> Job], Kick(j)
    PROVE  cancelled' = cancelled /\ \A w \in Workers : job'[w] = j[w] \/ ~InFlight(job'[w])
<1>1. Spawned.at = "new" BY NoJobType
<1>2. ~InFlight(Spawned) BY <1>1 DEF InFlight
<1> HIDE DEF Spawned
<1> QED BY <1>2 DEF Kick

\* Steps that change no record.
LEMMA StandsStill ==
    ASSUME LInv, Grows(World, World'), UNCHANGED <<rec, disk>>, \A w \in Workers : Carried(w)
    PROVE  Ledger' /\ Errands'
<1> USE DEF LInv, Inv
<1>1. Sane(rec', World') BY Types, SaneStays DEF Ledger
<1>2. Ledger' BY <1>1, LedgerKeeps
<1>3. ASSUME NEW w \in Workers PROVE Tended(w)'
  <2>1. Alike(job[w], rec[job[w].session], rec'[job[w].session]) BY DEF Alike
  <2> QED BY <2>1, CarriedKeeps
<1> QED BY <1>2, <1>3 DEF Errands

-----------------------------------------------------------------------------
(* The recorder.                                                           *)

LEMMA EndedAlike ==
    ASSUME NEW j, NEW r \in Record, EndedRecord(r).held PROVE Alike(j, r, EndedRecord(r))
<1> DEFINE n == [r EXCEPT !.endPending = TRUE, !.analysisPending = TRUE, !.ended = TRUE]
<1>1. ~NoRecord.held BY DEF NoRecord
<1>2. EndedRecord(r) = n BY <1>1 DEF EndedRecord
<1>3. /\ n.held = r.held /\ n.remote = r.remote /\ n.circuit = r.circuit
      /\ n.trackError = r.trackError
  BY DEF Record
<1> HIDE DEF n
<1> QED BY <1>2, <1>3 DEF Alike, NamesCircuit

LEMMA Closings ==
    ASSUME TypeOK, NEW s \in Sessions
    PROVE  \/ ClosePrevious[s] \in {rec[s], NoRecord}
           \/ s = open /\ ClosePrevious[s] = EndedRecord(rec[s])
<1>1. rec \in [Sessions -> Record] BY Types
<1> QED BY <1>1 DEF ClosePrevious

LEMMA ClosePreviousSane ==
    ASSUME TypeOK, Ledger, Grows(World, World'), open = 0 \/ open' # open
    PROVE  Sane(ClosePrevious, World')
<1>1. Sane(rec, World') BY Types, SaneStays DEF Ledger
<1>2. ASSUME NEW s \in Sessions PROVE Sound(ClosePrevious[s], s, World')
  <2>1. Sound(rec[s], s, World') /\ rec[s] \in Record BY <1>1, Types DEF Sane
  <2>2. CASE s = open /\ ClosePrevious[s] = EndedRecord(rec[s])
    <3>1. open # 0 BY <2>2, BoundsAssumption DEF Sessions
    <3>2. s # World'.open BY <2>2, <3>1, WorldFields
    <3>3. s <= World'.opened
      <4>1. /\ World.opened \in Nat /\ World'.opened \in Nat
            /\ World.opened <= World'.opened
        BY DEF Grows
      <4>2. open \in Nat /\ open <= opened BY NumbersType
      <4> QED BY <2>2, <4>1, <4>2, WorldFields
    <3> QED BY <2>1, <2>2, <3>2, <3>3, EndedSound
  <2> QED BY <2>1, <2>2, EmptySound, Closings
<1> QED BY <1>2 DEF Sane

LEMMA SessionStartedBalances ==
    ASSUME LInv, Grows(World, World'), SessionStarted
    PROVE  Ledger' /\ Errands'
<1> USE DEF LInv, Inv
<1> DEFINE gone == {s \in Sessions : rec[s].held /\ ~ClosePrevious[s].held}
<1>1. /\ opened' = opened + 1 /\ open' = opened + 1 /\ opened < MaxSession
      /\ rec' = [ClosePrevious EXCEPT ![opened + 1] = NewRecord]
      /\ disk' = disk \/ Write(ClosePrevious)
  BY DEF SessionStarted
<1>2. opened + 1 \in Sessions /\ open' # open
  <2>1. opened \in Nat /\ open \in Nat /\ open <= opened BY NumbersType
  <2> QED BY <1>1, <2>1, BoundsAssumption DEF Sessions
<1>3. Sane(ClosePrevious, World') BY <1>2, ClosePreviousSane
<1>4. ClosePrevious \in [Sessions -> Record] BY ClosingKeeps
<1>5. Ledger'
  <2>1. Sane(rec', World') BY <1>1, <1>2, <1>3, <1>4, EmptySound, SaneReplaced
  <2>2. Sane(disk.recs, World') BY Types, SaneStays DEF Ledger
  <2>3. disk'.recs = disk.recs \/ disk'.recs = ClosePrevious BY <1>1 DEF Write
  <2> QED BY <1>3, <2>1, <2>2, <2>3 DEF Ledger
<1>6. /\ cancelled' = cancelled
      /\ \A w \in Workers : job'[w] = Disowned(gone)[w] \/ ~InFlight(job'[w])
  <2>1. \/ Kick(Disowned(gone))
        \/ job' = Disowned(gone) /\ UNCHANGED cancelled
    BY DEF SessionStarted
  <2>2. Disowned(gone) \in [Workers -> Job] BY DisownedType, Types
  <2> QED BY <2>1, <2>2, KickCarries
<1> HIDE DEF gone
<1>7. ASSUME NEW w \in Workers PROVE Tended(w)'
  <2>1. Carried(w) BY <1>6, DisownedCarries DEF Carried
  <2>2. ASSUME InFlight(job[w]), job[w].own, job'[w] = job[w]
        PROVE  Alike(job[w], rec[job[w].session], rec'[job[w].session])
    <3>1. PICK s \in Sessions : s = job[w].session
      <4>1. job[w] \in Job BY Types
      <4> QED BY <2>2, <4>1 DEF Job, JobFields
    <3>2. s # opened + 1
      <4>1. opened + 1 > opened BY NumbersType
      <4> QED BY <1>2, <3>1, <4>1 DEF Fresh
    <3>3. rec'[s] = ClosePrevious[s] BY <1>1, <1>4, <3>2
    <3>4. rec[s].held => ClosePrevious[s].held
      <4>1. s \notin gone BY <1>6, <2>2, <3>1, DisownedCarries
      <4> QED BY <4>1 DEF gone
    <3>5. ~NoRecord.held BY DEF NoRecord
    <3>6. rec[s] \in Record BY Types
    <3>7. Alike(job[w], rec[s], rec'[s])
      <4>1. CASE ClosePrevious[s] = rec[s] BY <3>3, <4>1 DEF Alike
      <4>2. CASE ~rec[s].held BY <4>2 DEF Alike
      <4>3. CASE rec[s].held /\ ClosePrevious[s] # rec[s]
        <5>1. ClosePrevious[s] = EndedRecord(rec[s]) /\ EndedRecord(rec[s]).held
          BY <3>4, <3>5, <4>3, Closings
        <5> QED BY <3>3, <3>6, <5>1, EndedAlike
      <4> QED BY <4>1, <4>2, <4>3
    <3> QED BY <3>1, <3>7
  <2> QED BY <2>1, <2>2, CarriedKeeps
<1> QED BY <1>5, <1>7 DEF Errands

LEMMA LapSavedBalances ==
    ASSUME LInv, TypeOK', Grows(World, World'), NEW l \in LapIds, LapSaved(l)
    PROVE  Ledger' /\ Errands'
<1> USE DEF LInv, Inv
<1> DEFINE held  == IF rec[open].held THEN rec[open] ELSE NewRecord
           owed == [rec EXCEPT ![open] = WithLap(held, l, circuit')]
<1>1. /\ open \in Sessions /\ circuit' \in BOOLEAN /\ finished' = finished + 1
      /\ open' = open
      /\ \/ UNCHANGED <<rec, disk, workerVars>>
         \/ /\ rec' = TrimQueue(owed) /\ Write(rec') /\ Kick(job)
            /\ dropped' = dropped \cup Trimmed(owed)
  <2>1. open # 0 BY DEF LapSaved
  <2>2. circuit' \in BOOLEAN BY DEF TypeOK, DbTypeOK
  <2> QED BY <2>1, <2>2, NumbersType DEF LapSaved
<1>2. l <= World'.finished
  <2>1. l = 1 \/ l - 1 \in Stored BY DEF LapSaved, NextLapId
  <2>2. finished \in Nat /\ l \in Nat BY NumbersType DEF LapIds
  <2>3. l - 1 \in Stored => l - 1 <= finished BY DEF Counted, Stored
  <2> QED BY <1>1, <2>1, <2>2, <2>3, WorldFields
<1>3. CASE UNCHANGED <<rec, disk, workerVars>>
  <2>1. \A w \in Workers : Carried(w) BY <1>3 DEF Carried, workerVars
  <2> QED BY <1>3, <2>1, StandsStill
<1>4. CASE /\ rec' = TrimQueue(owed) /\ Write(rec') /\ Kick(job)
           /\ dropped' = dropped \cup Trimmed(owed)
  <2>1. rec \in [Sessions -> Record] /\ held \in Record BY <1>1, Types, NoRecordType
  <2>2. Sane(rec, World') BY Types, SaneStays DEF Ledger
  <2>3. Sound(held, open, World')
    <3>1. Sound(rec[open], open, World') BY <1>1, <2>2 DEF Sane
    <3> QED BY <1>1, <3>1, EmptySound
  <2> DEFINE n == WithLap(held, l, circuit')
  <2>4. /\ n.held = held.held /\ n.remote = held.remote BY <2>1 DEF WithLap, Record
  <2> HIDE DEF held
  <2>5. Sound(n, open, World') BY <1>1, <1>2, <2>1, <2>3, WithLapSound
  <2>6. n \in Record BY <1>1, <2>1, WithLapType
  <2> HIDE DEF n
  <2>7. owed = [rec EXCEPT ![open] = n] BY DEF n
  <2>8. owed \in [Sessions -> Record] /\ Sane(owed, World')
    BY <1>1, <2>1, <2>2, <2>5, <2>6, <2>7, SaneReplaced
  <2> HIDE DEF owed
  <2>9. ASSUME NEW s \in Sessions PROVE Sound(rec'[s], s, World')
    <3> DEFINE q == TrimQueue(owed)[s].queue
    <3>1. /\ ToSet(q) \subseteq ToSet(owed[s].queue)
          /\ ToSet(owed[s].queue) \subseteq ToSet(q) \cup World'.dropped
          /\ rec'[s] = [owed[s] EXCEPT !.queue = q]
      BY <1>4, <2>8, TrimKeeps, WorldFields
    <3>2. q \in Queues
      <4>1. TrimQueue(owed)[s] \in Record BY <2>8, TrimType
      <4> QED BY <4>1 DEF Record
    <3>3. owed[s] \in Record /\ Sound(owed[s], s, World') BY <2>8 DEF Sane
    <3> HIDE DEF q
    <3> QED BY <3>1, <3>2, <3>3, TrimSound
  <2>10. Ledger' BY <1>4, <2>9, LedgerKeeps DEF Sane
  <2>11. ASSUME NEW w \in Workers PROVE Tended(w)'
    <3>1. cancelled' = cancelled /\ (job'[w] = job[w] \/ ~InFlight(job'[w]))
      BY <1>4, Types, KickCarries
    <3>2. ASSUME InFlight(job[w]), job[w].own, Errand(job[w], rec[job[w].session], World)
          PROVE  Alike(job[w], rec[job[w].session], rec'[job[w].session])
      <4>1. PICK s \in Sessions : s = job[w].session
        <5>1. job[w] \in Job BY Types
        <5> QED BY <3>2, <5>1 DEF Job, JobFields
      <4>2. rec[s].held /\ (job[w].kind = "end" => s # open)
        BY <3>2, <4>1, WorldFields DEF Errand
      <4>3. /\ rec'[s].held = owed[s].held /\ rec'[s].remote = owed[s].remote
            /\ rec'[s].circuit = owed[s].circuit /\ rec'[s].trackError = owed[s].trackError
        <5>1. rec'[s] = [owed[s] EXCEPT !.queue = TrimQueue(owed)[s].queue]
          BY <1>4, <2>8, TrimKeeps
        <5>2. owed[s] \in Record BY <2>8
        <5> QED BY <5>1, <5>2 DEF Record
      <4>4. CASE s = open
        <5>1. owed[s] = n BY <2>1, <2>7, <4>4
        <5>2. held = rec[s] BY <4>2, <4>4 DEF held
        <5> QED BY <2>4, <4>1, <4>2, <4>3, <4>4, <5>1, <5>2 DEF Alike
      <4>5. CASE s # open
        <5>1. owed[s] = rec[s] BY <2>1, <2>7, <4>5
        <5> QED BY <4>1, <4>3, <5>1 DEF Alike, NamesCircuit
      <4> QED BY <4>4, <4>5
    <3> QED BY <3>1, <3>2, CarriedKeeps DEF Carried
  <2> QED BY <2>10, <2>11 DEF Errands
<1> QED BY <1>1, <1>3, <1>4

LEMMA LapChangedBalances ==
    ASSUME LInv, Grows(World, World'), NEW l \in LapIds, NEW s \in Sessions, LapChanged(l, s)
    PROVE  Ledger' /\ Errands'
<1> USE DEF LInv, Inv
<1> DEFINE q == IF rec[s].laps[l] = "synced" /\ l \notin ToSet(rec[s].queue)
                THEN Append(rec[s].queue, l) ELSE rec[s].queue
           a == rec[s].analysisPending \/ (rec[s].ended /\ ~rec[s].endPending)
           n == [rec[s] EXCEPT !.analysisPending = a, !.queue = q]
<1>1. \/ UNCHANGED <<rec, disk, workerVars>>
      \/ /\ rec' = [rec EXCEPT ![s] = n]
         /\ \/ Write(rec') /\ Kick(job)
            \/ UNCHANGED <<disk, workerVars>>
  BY DEF LapChanged
<1>2. CASE UNCHANGED <<rec, disk, workerVars>>
  <2>1. \A w \in Workers : Carried(w) BY <1>2 DEF Carried, workerVars
  <2> QED BY <1>2, <2>1, StandsStill
<1>3. CASE /\ rec' = [rec EXCEPT ![s] = n]
           /\ \/ Write(rec') /\ Kick(job)
              \/ UNCHANGED <<disk, workerVars>>
  <2>1. rec \in [Sessions -> Record] /\ rec[s] \in Record /\ rec[s].queue \in Queues
    BY Types DEF Record
  <2>2. /\ n.held = rec[s].held /\ n.remote = rec[s].remote
        /\ n.circuit = rec[s].circuit /\ n.trackError = rec[s].trackError
    BY <2>1 DEF Record
  <2>3. Sane(rec, World') BY Types, SaneStays DEF Ledger
  <2>4. Sound(n, s, World')
    <3>1. q \in Queues BY <2>1, AppendType
    <3>2. /\ ToSet(rec[s].queue) \subseteq ToSet(q)
          /\ \A k \in LapIds : k \in ToSet(q) =>
                k \in ToSet(rec[s].queue) \/ rec[s].laps[k] = "synced"
      <4>1. CASE q = rec[s].queue BY <4>1
      <4>2. CASE q # rec[s].queue
        <5>1. ToSet(q) = ToSet(rec[s].queue) \cup {l} /\ rec[s].laps[l] = "synced"
          BY <2>1, <4>2, AppendKeeps
        <5> QED BY <5>1
      <4> QED BY <4>1, <4>2
    <3>3. Sound(rec[s], s, World') BY <2>3 DEF Sane
    <3> HIDE DEF q, a
    <3> QED BY <2>1, <3>1, <3>2, <3>3, AgainSound
  <2> HIDE DEF n
  <2>5. Sane(rec', World') BY <1>3, <2>1, <2>3, <2>4, SaneReplaced
  <2>6. Ledger' BY <1>3, <2>5, LedgerKeeps
  <2>7. ASSUME NEW w \in Workers PROVE Tended(w)'
    <3>1. cancelled' = cancelled /\ (job'[w] = job[w] \/ ~InFlight(job'[w]))
      BY <1>3, Types, KickCarries DEF workerVars
    <3>2. ASSUME InFlight(job[w]), job[w].own
          PROVE  Alike(job[w], rec[job[w].session], rec'[job[w].session])
      <4>1. PICK t \in Sessions : t = job[w].session
        <5>1. job[w] \in Job BY Types
        <5> QED BY <3>2, <5>1 DEF Job, JobFields
      <4>2. rec'[t] = rec[t] \/ (t = s /\ rec'[t] = n) BY <1>3, <2>1
      <4> QED BY <2>2, <4>1, <4>2 DEF Alike, NamesCircuit
    <3> QED BY <3>1, <3>2, CarriedKeeps DEF Carried
  <2> QED BY <2>6, <2>7 DEF Errands
<1> QED BY <1>1, <1>2, <1>3

\* A worker never acts on a record that has been deleted.
LEMMA DeletedBalances ==
    ASSUME LInv, Grows(World, World'), AllCleared \/ \E s \in Sessions : SessionDeleted(s)
    PROVE  Ledger' /\ Errands'
<1> USE DEF LInv, Inv
<1>1. PICK S \in SUBSET Sessions :
         /\ \A s \in Sessions : rec'[s] = rec[s] \/ (s \in S /\ rec'[s] = NoRecord)
         /\ job' = Disowned(S) /\ cancelled' = cancelled
         /\ disk' = disk \/ Write(rec')
  <2>1. CASE AllCleared BY <2>1 DEF AllCleared
  <2>2. ASSUME NEW s \in Sessions, SessionDeleted(s)
        PROVE  /\ \A t \in Sessions : rec'[t] = rec[t] \/ (t \in {s} /\ rec'[t] = NoRecord)
               /\ job' = Disowned({s}) /\ cancelled' = cancelled
               /\ disk' = disk \/ Write(rec')
    BY <2>2, Types DEF SessionDeleted
  <2>3. \A s \in Sessions : {s} \in SUBSET Sessions OBVIOUS
  <2> QED BY <2>1, <2>2, <2>3
<1>2. Sane(rec, World') BY Types, SaneStays DEF Ledger
<1>3. Sane(rec', World') BY <1>1, <1>2, EmptySound DEF Sane
<1>4. Ledger' BY <1>1, <1>3, LedgerKeeps
<1>5. ASSUME NEW w \in Workers PROVE Tended(w)'
  <2>1. Carried(w) BY <1>1, DisownedCarries DEF Carried
  <2>2. ASSUME job[w].own, job'[w] = job[w]
        PROVE  Alike(job[w], rec[job[w].session], rec'[job[w].session])
    <3>1. job[w].session \in Sessions /\ job[w].session \notin S
      <4>1. job[w] \in Job BY Types
      <4>2. job[w].session \in Sessions BY <2>2, <4>1 DEF Job, JobFields
      <4> QED BY <1>1, <2>2, <4>2, DisownedCarries
    <3>2. rec'[job[w].session] = rec[job[w].session] BY <1>1, <3>1
    <3> QED BY <3>2 DEF Alike
  <2> QED BY <2>1, <2>2, CarriedKeeps
<1> QED BY <1>4, <1>5 DEF Errands

LEMMA RecorderBalances ==
    ASSUME LInv, TypeOK', Grows(World, World'), Recorder PROVE Ledger' /\ Errands'
<1>1. CASE SessionStarted BY <1>1, SessionStartedBalances
<1>2. CASE AllCleared \/ \E s \in Sessions : SessionDeleted(s) BY <1>2, DeletedBalances
<1>3. CASE \E l \in LapIds : LapSaved(l) BY <1>3, LapSavedBalances
<1>4. CASE \E l \in LapIds, s \in Sessions : LapChanged(l, s) BY <1>4, LapChangedBalances
<1>5. CASE \E l \in LapIds : RulingCommitted(l) \/ LapDeleted(l)
  <2>1. UNCHANGED adapterVars BY <1>5 DEF RulingCommitted, LapDeleted
  <2>2. UNCHANGED <<rec, disk>> /\ \A w \in Workers : Carried(w)
    BY <2>1 DEF adapterVars, workerVars, Carried
  <2> QED BY <2>2, StandsStill
<1> QED BY <1>1, <1>2, <1>3, <1>4, <1>5 DEF Recorder

-----------------------------------------------------------------------------
(* The client and the service.                                             *)

LEMMA ReloadedBalances ==
    ASSUME LInv, Grows(World, World'),
           NEW f, f = disk \/ (f = [url |-> recUrl, recs |-> ClosePrevious] /\ open' = 0),
           disk' = f, rec' = Reloaded(f, recUrl'),
           \A w \in Workers : ~InFlight(job'[w]) \/ (job'[w] = Disowned(Sessions)[w]
                                                     /\ (w \in cancelled => w \in cancelled'))
    PROVE  Ledger' /\ Errands'
<1> USE DEF LInv, Inv
<1>1. Sane(f.recs, World')
  <2>1. CASE f = disk BY <2>1, Types, SaneStays DEF Ledger
  <2>2. CASE f = [url |-> recUrl, recs |-> ClosePrevious] /\ open' = 0
    <3>1. f.recs = ClosePrevious /\ (open = 0 \/ open' # open) BY <2>2
    <3> QED BY <3>1, ClosePreviousSane
  <2> QED BY <2>1, <2>2
<1>2. Sane([s \in Sessions |-> NoRecord], World') BY EmptySound DEF Sane
<1>3. Ledger' BY <1>1, <1>2 DEF Ledger, Reloaded
<1>4. ASSUME NEW w \in Workers PROVE Tended(w)'
  <2>1. Carried(w) BY DisownedCarries DEF Carried
  <2>2. ~(InFlight(job[w]) /\ job[w].own /\ job'[w] = job[w])
    <3> SUFFICES ASSUME InFlight(job[w]), job[w].own, job'[w] = job[w] PROVE FALSE OBVIOUS
    <3>1. job[w] \in Job BY Types
    <3>2. job[w].session \in Sessions BY <3>1 DEF Job, JobFields
    <3> QED BY <3>2, DisownedCarries
  <2> QED BY <2>1, <2>2, CarriedKeeps
<1> QED BY <1>3, <1>4 DEF Errands

LEMMA ClientBalances ==
    ASSUME LInv, Grows(World, World'), Client PROVE Ledger' /\ Errands'
<1> USE DEF LInv, Inv
<1>1. CASE SwitchedOn \/ SwitchedOff \/ BringUpAsks \/ ConnectionTested
           \/ \E u \in Urls : ConnectionChanged(u)
  <2>1. UNCHANGED <<rec, disk>> /\ job' = job /\ cancelled \subseteq cancelled'
    BY <1>1 DEF SwitchedOn, SwitchedOff, BringUpAsks, ConnectionTested, ConnectionChanged,
         Learn, Halt, adapterVars, workerVars
  <2>2. \A w \in Workers : Carried(w) BY <2>1 DEF Carried
  <2> QED BY <2>1, <2>2, StandsStill
<1>2. CASE BringUpActs \/ PushPressed
  <2>1. UNCHANGED <<rec, disk>> /\ (Kick(job) \/ (job' = job /\ cancelled \subseteq cancelled'))
    BY <1>2 DEF BringUpActs, PushPressed, Halt
  <2>2. \A w \in Workers : Carried(w) BY <2>1, Types, KickCarries DEF Carried
  <2> QED BY <2>1, <2>2, StandsStill
<1>3. CASE ConnectionReset
  <2>1. /\ disk' = disk /\ rec' = Reloaded(disk, recUrl')
        /\ job' = Disowned(Sessions) /\ cancelled \subseteq cancelled'
    BY <1>3 DEF ConnectionReset, Halt
  <2> QED BY <2>1, ReloadedBalances
<1>4. CASE Restarted \/ Crashed
  <2> DEFINE closing == [url |-> recUrl, recs |-> ClosePrevious]
  <2>1. Started(disk) \/ Started(closing) BY <1>4 DEF Restarted, Crashed
  <2>2. ~InFlight(NoJob) BY NoJobType DEF InFlight
  <2>3. ASSUME NEW f, Started(f)
        PROVE  /\ disk' = f /\ rec' = Reloaded(f, recUrl') /\ open' = 0
               /\ \A w \in Workers : ~InFlight(job'[w])
    BY <2>2, <2>3 DEF Started
  <2> HIDE DEF closing
  <2>4. closing = [url |-> recUrl, recs |-> ClosePrevious] BY DEF closing
  <2> QED BY <2>1, <2>3, <2>4, ReloadedBalances
<1> QED BY <1>1, <1>2, <1>3, <1>4 DEF Client

\* An errand whose request was turned away, or whose answer was lost.
LEMMA LostErrand ==
    ASSUME NEW W, NEW j \in Job, NEW r, Errand(j, r, W), j.at = "sent",
           NEW x \in Replies \ {"ok"}
    PROVE  Errand([j EXCEPT !.at = "answered", !.reply = x, !.target = j.target], r, W)
<1> DEFINE n == [j EXCEPT !.at = "answered", !.reply = x, !.target = j.target]
<1>1. /\ n.own = j.own /\ n.kind = j.kind /\ n.at = "answered" /\ n.session = j.session
      /\ n.lap = j.lap /\ n.target = j.target /\ n.names = j.names /\ n.doc = j.doc
      /\ n.reply = x
  BY DEF Job, JobFields
<1> HIDE DEF n
<1> QED BY <1>1 DEF Errand, n

\* An errand the service took: what was sent is there.
LEMMA TakenErrand ==
    ASSUME NEW W, NEW j \in Job, NEW r, Errand(j, r, W), j.at = "sent",
           NEW t, t # 0, NEW h, j.kind # "start" => t = j.target,
           W.remote[t] = Holding(j, h), W.remote[t].drive # 0,
           h \in RemoteSession
    PROVE  Errand([j EXCEPT !.at = "answered", !.reply = "ok", !.target = t], r, W)
<1> DEFINE n == [j EXCEPT !.at = "answered", !.reply = "ok", !.target = t]
<1>0. j.kind \in Kinds /\ j.names \in BOOLEAN BY DEF Job, JobFields
<1>1. /\ n.own = j.own /\ n.kind = j.kind /\ n.at = "answered" /\ n.session = j.session
      /\ n.lap = j.lap /\ n.target = t /\ n.names = j.names /\ n.doc = j.doc
      /\ n.reply = "ok"
  BY DEF Job, JobFields
<1> HIDE DEF n
<1>2. j.kind \in {"start", "name", "end"} /\ j.names => W.remote[t].circuit
  <2>1. j.kind = "start" => Holding(j, h).circuit = j.names
    BY DEF Holding, NoRemote
  <2>2. ASSUME j.kind = "name", j.names PROVE Holding(j, h).circuit
    <3>1. Holding(j, h) = [h EXCEPT !.circuit = h.circuit \/ j.names]
      BY <2>2 DEF Holding
    <3> QED BY <2>2, <3>1 DEF RemoteSession
  <2>3. ASSUME j.kind = "end", j.names PROVE Holding(j, h).circuit
    <3>1. Holding(j, h) = [h EXCEPT !.ended = TRUE, !.circuit = h.circuit \/ j.names]
      BY <2>3 DEF Holding
    <3> QED BY <2>3, <3>1 DEF RemoteSession
  <2> QED BY <2>1, <2>2, <2>3
<1>3. j.kind = "lap" => HasLap(W, t, j.doc.lap)
  <2> SUFFICES ASSUME j.kind = "lap" PROVE HasLap(W, t, j.doc.lap) OBVIOUS
  <2> DEFINE L == {d \in h.laps : d.lap # j.doc.lap} \cup {j.doc}
  <2>1. Holding(j, h) = [h EXCEPT !.laps = L] BY DEF Holding
  <2>2. Holding(j, h).laps = L BY <2>1 DEF RemoteSession
  <2> QED BY <2>2 DEF HasLap
<1> QED BY <1>1, <1>2, <1>3 DEF Errand, n

LEMMA ServiceBalances ==
    ASSUME LInv, TypeOK', Grows(World, World'), Service PROVE Ledger' /\ Errands'
<1> USE DEF LInv, Inv
<1>1. CASE OfferChanges \/ \E r \in RemoteIds : SessionExpires(r)
  <2>1. UNCHANGED adapterVars BY <1>1 DEF OfferChanges, SessionExpires
  <2>2. UNCHANGED <<rec, disk>> /\ \A w \in Workers : Carried(w)
    BY <2>1 DEF adapterVars, workerVars, Carried
  <2> QED BY <2>2, StandsStill
<1>2. ASSUME NEW w \in Workers, ServiceTakes(w) \/ ServiceDeclines(w)
      PROVE  Ledger' /\ Errands'
  <2> DEFINE r == rec[job[w].session]
             answered(x, t) == [job[w] EXCEPT !.at = "answered", !.reply = x, !.target = t]
  <2>1. UNCHANGED <<rec, disk, cancelled>> /\ job[w].at = "sent"
    BY <1>2 DEF ServiceTakes, ServiceDeclines
  <2>2. job[w] \in Job /\ job \in [Workers -> Job] BY Types
  <2>3. Sane(rec', World') BY <2>1, Types, SaneStays DEF Ledger
  <2>4. Ledger' BY <2>1, <2>3, LedgerKeeps
  <2>5. ASSUME NEW x, NEW t, Answers(w, x, t)
        PROVE  job' = [job EXCEPT ![w] = answered(x, t)]
    BY <2>2, <2>5 DEF Answers, Job, JobFields
  <2>6. /\ \A x, t : answered(x, t).session = job[w].session
        /\ job[w].session # 0
        /\ w \notin cancelled => Errand(job[w], r, World)
    <3>1. InFlight(job[w]) BY <2>1 DEF InFlight
    <3>2. \A x, t : answered(x, t).session = job[w].session BY <2>2 DEF Job, JobFields
    <3> QED BY <3>1, <3>2 DEF Errands, Tended
  <2>7. w \notin cancelled => Errand(job[w], r, World')
    <3>1. Alike(job[w], r, r) BY DEF Alike
    <3> HIDE DEF r
    <3> QED BY <2>2, <2>6, <3>1, ErrandStays
  <2>8. PICK x, t : /\ job' = [job EXCEPT ![w] = answered(x, t)]
                    /\ w \notin cancelled => Errand(answered(x, t), r, World')
    <3>1. ASSUME NEW x \in Replies \ {"ok"}, Answers(w, x, job[w].target)
          PROVE  /\ job' = [job EXCEPT ![w] = answered(x, job[w].target)]
                 /\ w \notin cancelled => Errand(answered(x, job[w].target), r, World')
      BY <2>1, <2>2, <2>5, <2>7, <3>1, LostErrand
    <3>2. CASE ServiceDeclines(w)
      <4>1. \E x \in Replies \ {"ok"} : Answers(w, x, job[w].target)
        BY <3>2 DEF ServiceDeclines, Replies
      <4> QED BY <3>1, <4>1
    <3>3. CASE ServiceTakes(w)
      <4>1. PICK t \in RemoteIds :
               /\ IF job[w].kind = "start" THEN t \in FreeRemotes
                  ELSE t = job[w].target
               /\ remote' = [remote EXCEPT ![t] = Holding(job[w], remote[t])]
               /\ \/ Answers(w, "ok", t)
                  \/ Answers(w, "transient", job[w].target)
        BY <3>3 DEF ServiceTakes
      <4>2. CASE Answers(w, "transient", job[w].target)
        BY <3>1, <4>2 DEF Replies
      <4>3. CASE Answers(w, "ok", t)
        <5>1. remote[t] \in RemoteSession /\ remote \in [RemoteIds -> RemoteSession] /\ t # 0
          BY BoundsAssumption DEF TypeOK, ServerTypeOK, RemoteIds
        <5>2. World'.remote[t] = Holding(job[w], remote[t]) BY <4>1, <5>1, WorldFields
        <5>3. ASSUME w \notin cancelled PROVE Errand(answered("ok", t), r, World')
          <6>1. World'.remote[t].drive # 0
            <7>1. CASE job[w].kind = "start"
              <8>1. Holding(job[w], remote[t]).drive = job[w].session
                BY <7>1 DEF Holding, NoRemote
              <8> QED BY <2>6, <5>2, <8>1
            <7>2. CASE job[w].kind # "start"
              <8>1. World'.remote[job[w].target].drive # 0 BY <2>7, <5>3, <7>2 DEF Errand
              <8> QED BY <4>1, <7>2, <8>1
            <7> QED BY <7>1, <7>2
          <6> HIDE DEF r
          <6> QED BY <2>1, <2>2, <2>7, <4>1, <5>1, <5>2, <5>3, <6>1, TakenErrand
        <5> QED BY <2>5, <4>3, <5>3
      <4> QED BY <4>1, <4>2, <4>3
    <3> QED BY <1>2, <3>2, <3>3
  <2> HIDE DEF answered
  <2>9. ASSUME NEW v \in Workers PROVE Tended(v)'
    <3>1. CASE v = w
      <4>1. job'[w] = answered(x, t) BY <2>2, <2>8
      <4> QED BY <2>1, <2>6, <2>8, <3>1, <4>1 DEF Tended
    <3>2. CASE v # w
      <4>1. job'[v] = job[v] BY <2>2, <2>8, <3>2
      <4>2. Carried(v) BY <2>1, <4>1 DEF Carried
      <4>3. Alike(job[v], rec[job[v].session], rec'[job[v].session])
        BY <2>1 DEF Alike
      <4> QED BY <4>2, <4>3, CarriedKeeps
    <3> QED BY <3>1, <3>2
  <2> QED BY <2>4, <2>9 DEF Errands
<1> QED BY <1>1, <1>2 DEF Service

-----------------------------------------------------------------------------
(* The worker.  It is alone: what it did last is what its record says.     *)

\* w is the worker at work.
AtWork(w) == w \in Workers \ cancelled /\ job[w].at # "off"

LEMMA OthersTended ==
    ASSUME LInv, OneAtWork, NEW w \in Workers, AtWork(w), UNCHANGED cancelled,
           NEW v \in Workers, v # w, job'[v] \in {job[v], [job[v] EXCEPT !.own = FALSE]}
    PROVE  Tended(v)'
<1> USE DEF LInv, Inv
<1>1. job[v] \in Job BY Types
<1>2. job'[v].at = job[v].at /\ job'[v].session = job[v].session
  BY <1>1 DEF Job, JobFields
<1>3. CASE v \in cancelled
  <2>1. InFlight(job[v]) => job[v].session # 0 BY DEF Errands, Tended
  <2> QED BY <1>2, <1>3, <2>1 DEF Tended, InFlight
<1>4. CASE v \notin cancelled
  <2>1. job[v].at = "off" BY <1>4 DEF OneAtWork, AtWork
  <2> QED BY <1>2, <2>1 DEF Tended, InFlight
<1> QED BY <1>3, <1>4

\* A worker between two requests has nothing under way.
LEMMA BetweenTended ==
    ASSUME LInv, OneAtWork, NEW w \in Workers, AtWork(w), UNCHANGED cancelled,
           job' = [job EXCEPT ![w] = Ready] \/ job' = [job EXCEPT ![w] = NoJob]
    PROVE  Errands'
<1>1. ~InFlight(Ready) /\ ~InFlight(NoJob) BY NoJobType DEF InFlight
<1> HIDE DEF Ready, NoJob
<1>2. \A v \in Workers : job'[v] = IF v = w THEN job'[w] ELSE job[v]
  BY Types DEF LInv, Inv
<1>3. ~InFlight(job'[w]) BY <1>1, Types DEF LInv, Inv
<1>4. ASSUME NEW v \in Workers PROVE Tended(v)'
  <2>1. CASE v = w BY <1>3, <2>1 DEF Tended
  <2>2. CASE v # w BY <1>2, <2>2, OthersTended
  <2> QED BY <2>1, <2>2
<1> QED BY <1>4 DEF Errands

\* A worker that sets out: the others stand still, and its errand is as it must be.
LEMMA SetsOut ==
    ASSUME LInv, OneAtWork, Grows(World, World'), NEW w \in Workers, AtWork(w),
           UNCHANGED <<rec, disk, cancelled>>,
           NEW j, job' = [job EXCEPT ![w] = j], j.session # 0,
           Errand(j, rec[j.session], World')
    PROVE  Ledger' /\ Errands'
<1> USE DEF LInv, Inv
<1>1. Sane(rec', World') BY Types, SaneStays DEF Ledger
<1>2. Ledger' BY <1>1, LedgerKeeps
<1>3. job'[w] = j /\ \A v \in Workers : v # w => job'[v] = job[v] BY Types
<1>4. ASSUME NEW v \in Workers PROVE Tended(v)'
  <2>1. CASE v = w BY <1>3, <2>1 DEF Tended
  <2>2. CASE v # w BY <1>3, <2>2, OthersTended
  <2> QED BY <2>1, <2>2
<1> QED BY <1>2, <1>4 DEF Errands

LEMMA RecordsBalances ==
    ASSUME LInv, OneAtWork, Grows(World, World'), NEW w \in Workers, AtWork(w),
           UNCHANGED cancelled, NEW r, Records(w, r),
           job[w].own => Sound(r, job[w].session, World')
    PROVE  Ledger' /\ Errands'
<1> USE DEF LInv, Inv
<1>1. Sane(rec, World') /\ rec \in [Sessions -> Record] BY Types, SaneStays DEF Ledger
<1>2. job[w].own => job[w].session \in Sessions
  <2>1. job[w] \in Job BY Types
  <2> QED BY <2>1 DEF Job, JobFields
<1>3. Sane(rec', World') BY <1>1, <1>2, SaneReplaced DEF Records
<1>4. Ledger' BY <1>3, LedgerKeeps DEF Records
<1> QED BY <1>4, BetweenTended DEF Records

LEMMA ResolvesBalances ==
    ASSUME LInv, OneAtWork, Grows(World, World'), NEW w \in Workers, AtWork(w),
           UNCHANGED cancelled, NEW l \in LapIds, NEW v, Resolves(w, l, v),
           v = "synced" /\ job[w].own =>
              /\ rec[job[w].session].remote # 0
              /\ World'.rows[l].lap = l => HasLap(World', rec[job[w].session].remote, l)
    PROVE  Ledger' /\ Errands'
<1> USE DEF LInv, Inv
<1> DEFINE s == job[w].session
           r == rec[s]
<1>1. Sane(rec, World') /\ rec \in [Sessions -> Record] BY Types, SaneStays DEF Ledger
<1>2. CASE job[w].own /\ l \notin ToSet(r.queue)
  <2>1. UNCHANGED <<rec, disk>> /\ job' = [job EXCEPT ![w] = NoJob]
    BY <1>2 DEF Resolves, Ends
  <2> QED BY <1>1, <2>1, LedgerKeeps, BetweenTended
<1>3. CASE ~job[w].own
  <2>1. rec' = rec /\ Write(rec') /\ job' = [job EXCEPT ![w] = Ready]
    BY <1>3 DEF Resolves
  <2> QED BY <1>1, <2>1, LedgerKeeps, BetweenTended
<1>4. CASE job[w].own /\ l \in ToSet(r.queue)
  <2> DEFINE q == Without(r.queue, l)
             n == [r EXCEPT !.queue = q, !.laps[l] = v]
  <2>1. rec' = [rec EXCEPT ![s] = n] /\ Write(rec') /\ job' = [job EXCEPT ![w] = Ready]
    BY <1>4 DEF Resolves
  <2>2. s \in Sessions
    <3>1. job[w] \in Job BY Types
    <3> QED BY <1>4, <3>1 DEF Job, JobFields
  <2>3. r \in Record /\ r.queue \in Queues /\ Sound(r, s, World')
    BY <1>1, <2>2 DEF Sane, Record
  <2>4. /\ ToSet(q) \subseteq ToSet(r.queue)
        /\ \A k \in ToSet(r.queue) : k # l => k \in ToSet(q)
    BY <1>4, <2>3, WithoutKeeps
  <2>5. v = "synced" => /\ l \in ToSet(r.queue) /\ r.remote # 0
                        /\ World'.rows[l].lap = l => HasLap(World', r.remote, l)
    BY <1>4
  <2> HIDE DEF q, r, s
  <2>6. Sound(n, s, World') BY <2>2, <2>3, <2>4, <2>5, ResolvedSound
  <2> HIDE DEF n
  <2>7. Sane(rec', World') BY <1>1, <2>1, <2>2, <2>6, SaneReplaced
  <2> QED BY <2>1, <2>7, LedgerKeeps, BetweenTended
<1> QED BY <1>2, <1>3, <1>4

\* What a worker knows of the errand it is on, and of its record.
LEMMA OnErrand ==
    ASSUME LInv, Grows(World, World'), NEW w \in Workers, AtWork(w), InFlight(job[w])
    PROVE  /\ job[w] \in Job /\ job[w].session \in Sessions
           /\ rec[job[w].session] \in Record
           /\ Sound(rec[job[w].session], job[w].session, World')
           /\ Errand(job[w], rec[job[w].session], World')
<1> USE DEF LInv, Inv
<1>1. job[w] \in Job BY Types
<1>2. job[w].session # 0 /\ Errand(job[w], rec[job[w].session], World)
  BY DEF Errands, Tended, AtWork
<1>3. job[w].session \in Sessions BY <1>1, <1>2 DEF Job, JobFields
<1>4. rec[job[w].session] \in Record BY <1>3, Types
<1>5. Sane(rec, World') BY Types, SaneStays DEF Ledger
<1>6. Alike(job[w], rec[job[w].session], rec[job[w].session]) BY DEF Alike
<1>7. Errand(job[w], rec[job[w].session], World') BY <1>1, <1>2, <1>6, ErrandStays
<1> QED BY <1>1, <1>3, <1>4, <1>5, <1>7 DEF Sane

LEMMA PushNextBalances ==
    ASSUME LInv, OneAtWork, Grows(World, World'), NEW w \in Workers, PushNext(w)
    PROVE  Ledger' /\ Errands'
<1> USE DEF LInv, Inv
<1> DEFINE begun(s, at, kind, l) ==
              [Ready EXCEPT !.at = at, !.kind = kind, !.lap = l, !.session = s,
                            !.own = TRUE, !.target = rec[s].remote, !.url = url,
                            !.names = NamesCircuit(rec[s])]
           begin(s, at, kind, l) ==
              job' = [job EXCEPT ![w] = begun(s, at, kind, l)] /\ UNCHANGED <<rec, disk>>
<1>1. PICK s \in Sessions :
         /\ NextRec(s)
         /\ IF rec[s].remote = 0 THEN begin(s, "sent", "start", 0)
            ELSE IF NamesNow(rec[s]) THEN begin(s, "sent", "name", 0)
            ELSE IF rec[s].queue # <<>> THEN begin(s, "load", "lap", Head(rec[s].queue))
            ELSE IF rec[s].endPending THEN begin(s, "load", "end", 0)
            ELSE IF "analysis_version" \in Hints THEN begin(s, "load", "analysis", 0)
            ELSE /\ rec' = [rec EXCEPT ![s] = Settled(rec[s], "not_taken")]
                 /\ Write(rec')
                 /\ job' = [job EXCEPT ![w] = Ready]
  BY DEF PushNext
<1>2. AtWork(w) /\ UNCHANGED cancelled BY DEF PushNext, Turn, AtWork
<1>3. rec[s].held /\ rec \in [Sessions -> Record] /\ rec[s] \in Record
  BY <1>1, Types DEF NextRec, Waiting
<1>4. Sane(rec, World') /\ Sound(rec[s], s, World') BY Types, SaneStays, <1>1 DEF Ledger, Sane
<1>5. s # 0 BY DEF Sessions
<1>6. ASSUME NEW at \in {"sent", "load"}, NEW kind, NEW l, begin(s, at, kind, l),
             kind = "start" <=> rec[s].remote = 0,
             kind = "lap" => at = "load" /\ l <= World'.finished,
             kind = "name" => NamesCircuit(rec[s]),
             kind = "end" => at = "load" /\ s # World'.open /\ s <= World'.opened
      PROVE  Ledger' /\ Errands'
  <2> DEFINE j == begun(s, at, kind, l)
  <2>1. /\ j.at = at /\ j.kind = kind /\ j.lap = l /\ j.session = s /\ j.own = TRUE
        /\ j.target = rec[s].remote /\ j.names = NamesCircuit(rec[s])
    BY DEF Ready, NoJob
  <2>2. job' = [job EXCEPT ![w] = j] /\ UNCHANGED <<rec, disk>> BY <1>6
  <2> HIDE DEF j
  <2>3. rec[s].remote # 0 => World'.remote[rec[s].remote].drive # 0 BY <1>4 DEF Sound
  <2>4. Errand(j, rec[s], World') BY <1>3, <1>6, <2>1, <2>3 DEF Errand
  <2> QED BY <1>2, <1>5, <2>1, <2>2, <2>4, SetsOut
<1> HIDE DEF begin
<1>8. CASE rec[s].remote = 0
  <2>1. begin(s, "sent", "start", 0) BY <1>1, <1>8
  <2> QED BY <1>6, <1>8, <2>1
<1>9. CASE rec[s].remote # 0
  <2>1. CASE NamesNow(rec[s])
    <3>1. begin(s, "sent", "name", 0) BY <1>1, <1>9, <2>1
    <3>2. NamesCircuit(rec[s]) BY <1>4, <2>1 DEF NamesNow, NamesCircuit, Sound
    <3> QED BY <1>6, <1>9, <3>1, <3>2
  <2>2. CASE ~NamesNow(rec[s]) /\ rec[s].queue # <<>>
    <3> DEFINE l == Head(rec[s].queue)
    <3>1. begin(s, "load", "lap", l) BY <1>1, <1>9, <2>2
    <3>2. l \in LapIds /\ l \in ToSet(rec[s].queue)
      <4>1. rec[s].queue \in Seq(LapIds) BY <1>3 DEF Record, Queues
      <4>2. l = rec[s].queue[1] /\ 1 \in DOMAIN rec[s].queue /\ l \in LapIds
        BY <4>1, <2>2, HeadTailProperties, EmptySeq, LenProperties
      <4> QED BY <4>2 DEF ToSet
    <3>3. l <= World'.finished BY <1>4, <3>2 DEF Sound
    <3> HIDE DEF l
    <3> QED BY <1>6, <1>9, <3>1, <3>3
  <2>3. CASE ~NamesNow(rec[s]) /\ rec[s].queue = <<>> /\ rec[s].endPending
    <3>1. begin(s, "load", "end", 0) BY <1>1, <1>9, <2>3
    <3>2. s # World'.open /\ s <= World'.opened BY <1>4, <2>3 DEF Sound
    <3> QED BY <1>6, <1>9, <3>1, <3>2
  <2>4. CASE ~NamesNow(rec[s]) /\ rec[s].queue = <<>> /\ ~rec[s].endPending
    <3>1. CASE "analysis_version" \in Hints
      <4>1. begin(s, "load", "analysis", 0) BY <1>1, <1>9, <2>4, <3>1
      <4> QED BY <1>6, <1>9, <4>1
    <3>2. CASE "analysis_version" \notin Hints
      <4>1. /\ rec' = [rec EXCEPT ![s] = Settled(rec[s], "not_taken")]
            /\ Write(rec') /\ job' = [job EXCEPT ![w] = Ready]
        BY <1>1, <1>9, <2>4, <3>2
      <4>2. Sound(Settled(rec[s], "not_taken"), s, World')
        BY <1>3, <1>4, SettledSound
      <4>3. Sane(rec', World') BY <1>3, <1>4, <4>1, <4>2, SaneReplaced
      <4> QED BY <1>2, <4>1, <4>3, LedgerKeeps, BetweenTended
    <3> QED BY <3>1, <3>2
  <2> QED BY <2>1, <2>2, <2>3, <2>4
<1> QED BY <1>8, <1>9

\* A request leaves with what was read while the database was awaited.
LEMMA SentErrand ==
    ASSUME LInv, OneAtWork, Grows(World, World'), NEW w \in Workers, AtWork(w),
           job[w].at = "load", UNCHANGED <<rec, disk, cancelled>>,
           NEW d, NEW n, NEW v, Send(w, [job[w] EXCEPT !.doc = d, !.names = n, !.ver = v]),
           job[w].kind = "lap" /\ World'.rows[job[w].lap].lap = job[w].lap =>
              d.lap = job[w].lap,
           job[w].kind = "name" => n,
           job[w].kind = "end" /\ job[w].own => (n <=> NamesCircuit(rec[job[w].session]))
    PROVE  Ledger' /\ Errands'
<1> DEFINE k == [job[w] EXCEPT !.doc = d, !.names = n, !.ver = v]
           j == [k EXCEPT !.at = "sent", !.url = url]
<1>1. InFlight(job[w]) BY DEF InFlight
<1>2. /\ job[w] \in Job /\ job[w].session \in Sessions
      /\ Errand(job[w], rec[job[w].session], World')
  BY <1>1, OnErrand
<1>3. /\ j.own = job[w].own /\ j.kind = job[w].kind /\ j.at = "sent"
      /\ j.session = job[w].session /\ j.lap = job[w].lap /\ j.target = job[w].target
      /\ j.names = n /\ j.doc = d
  BY <1>2 DEF Job, JobFields
<1>4. job' = [job EXCEPT ![w] = j] BY DEF Send
<1> HIDE DEF j, k
<1>5. Errand(j, rec[j.session], World') BY <1>2, <1>3 DEF Errand
<1>6. j.session # 0 BY <1>2, <1>3 DEF Sessions
<1> QED BY <1>4, <1>5, <1>6, SetsOut

LEMMA LoadedBalances ==
    ASSUME LInv, OneAtWork, Grows(World, World'), NEW w \in Workers,
           LapLoaded(w) \/ TotalsLoaded(w) \/ AnalysisLoaded(w)
    PROVE  Ledger' /\ Errands'
<1>1. AtWork(w) /\ UNCHANGED cancelled /\ job[w].at = "load" /\ InFlight(job[w])
  BY DEF LapLoaded, TotalsLoaded, AnalysisLoaded, Loading, AtWork, InFlight
<1>2. /\ job[w] \in Job /\ job[w].session \in Sessions
      /\ rec[job[w].session] \in Record
      /\ Sound(rec[job[w].session], job[w].session, World')
      /\ Errand(job[w], rec[job[w].session], World')
  BY <1>1, OnErrand
<1>3. CASE LapLoaded(w)
  <2> DEFINE d == rows[job[w].lap]
  <2>1. job[w].kind = "lap" /\ rows' = rows
    BY <1>3 DEF LapLoaded, Loading, dbVars
  <2>2. job[w].lap \in LapIds BY <1>2, <2>1, BoundsAssumption DEF Job, JobFields, LapIds
  <2>3. CASE Send(w, [job[w] EXCEPT !.doc = d]) /\ UNCHANGED <<rec, disk>>
    <3>1. [job[w] EXCEPT !.doc = d] =
             [job[w] EXCEPT !.doc = d, !.names = job[w].names, !.ver = job[w].ver]
      BY <1>2 DEF Job, JobFields
    <3>2. World'.rows[job[w].lap] = d BY <2>1, WorldFields
    <3>3. Send(w, [job[w] EXCEPT !.doc = d, !.names = job[w].names, !.ver = job[w].ver])
      BY <2>3, <3>1
    <3> HIDE DEF d
    <3> QED BY <1>1, <2>1, <2>3, <3>2, <3>3, SentErrand
  <2>4. CASE Resolves(w, job[w].lap, "none") \/ Resolves(w, job[w].lap, "rejected")
    BY <1>1, <2>2, <2>4, ResolvesBalances
  <2> QED BY <1>3, <2>3, <2>4 DEF LapLoaded
<1>4. CASE TotalsLoaded(w)
  <2> DEFINE n == IF job[w].own THEN NamesCircuit(rec[job[w].session]) ELSE job[w].names
  <2>1. /\ job[w].kind = "end" /\ UNCHANGED <<rec, disk>>
        /\ Send(w, [job[w] EXCEPT !.names = n])
    BY <1>4 DEF TotalsLoaded, Loading
  <2>2. [job[w] EXCEPT !.names = n] =
           [job[w] EXCEPT !.doc = job[w].doc, !.names = n, !.ver = job[w].ver]
    BY <1>2 DEF Job, JobFields
  <2>3. job[w].own => (n <=> NamesCircuit(rec[job[w].session])) OBVIOUS
  <2> HIDE DEF n
  <2>4. Send(w, [job[w] EXCEPT !.doc = job[w].doc, !.names = n, !.ver = job[w].ver])
    BY <2>1, <2>2
  <2> QED BY <1>1, <2>1, <2>3, <2>4, SentErrand
<1>5. CASE AnalysisLoaded(w)
  <2>1. job[w].kind = "analysis" BY <1>5 DEF AnalysisLoaded, Loading
  <2>2. \/ \E v : Send(w, [job[w] EXCEPT !.ver = v]) /\ UNCHANGED <<rec, disk>>
        \/ \E status : Records(w, Settled(rec[job[w].session], status))
    BY <1>5 DEF AnalysisLoaded, Records
  <2>3. ASSUME NEW v, Send(w, [job[w] EXCEPT !.ver = v]), UNCHANGED <<rec, disk>>
        PROVE  Ledger' /\ Errands'
    <3>1. [job[w] EXCEPT !.ver = v] =
             [job[w] EXCEPT !.doc = job[w].doc, !.names = job[w].names, !.ver = v]
      BY <1>2 DEF Job, JobFields
    <3>2. Send(w, [job[w] EXCEPT !.doc = job[w].doc, !.names = job[w].names, !.ver = v])
      BY <2>3, <3>1
    <3> QED BY <1>1, <2>1, <2>3, <3>2, SentErrand
  <2>4. ASSUME NEW status, Records(w, Settled(rec[job[w].session], status))
        PROVE  Ledger' /\ Errands'
    BY <1>1, <1>2, <2>4, SettledSound, RecordsBalances
  <2> QED BY <2>2, <2>3, <2>4
<1> QED BY <1>3, <1>4, <1>5

LEMMA AcceptedBalances ==
    ASSUME LInv, OneAtWork, Grows(World, World'), NEW w \in Workers, Accepted(w)
    PROVE  Ledger' /\ Errands'
<1> DEFINE j == job[w]
           s == job[w].session
           r == rec[s]
           x == IF j.own THEN r ELSE NoRecord
<1>1. /\ AtWork(w) /\ UNCHANGED cancelled /\ InFlight(j)
      /\ j.at = "answered" /\ j.reply = "ok"
  BY DEF Accepted, Answered, AtWork, InFlight
<1>2. j \in Job /\ s \in Sessions /\ r \in Record /\ Sound(r, s, World') /\ Errand(j, r, World')
  BY <1>1, OnErrand
<1>3. j.kind \in Kinds /\ j.names \in BOOLEAN /\ j.target \in 0..MaxRemote
  BY <1>2 DEF Job, JobFields
<1>4. CASE \/ j.kind = "start" /\ Records(w, OpenedAs(x, j.target, j.names))
           \/ j.kind = "name" /\ Records(w, [x EXCEPT !.trackPending = FALSE])
           \/ j.kind = "end" /\ Records(w, [x EXCEPT !.endPending = FALSE, !.trackPending = FALSE])
           \/ j.kind = "analysis" /\ Records(w, Settled(x, "synced"))
  <2>1. PICK y : /\ Records(w, y)
                 /\ \/ j.kind = "start" /\ y = OpenedAs(x, j.target, j.names)
                    \/ j.kind = "name" /\ y = [x EXCEPT !.trackPending = FALSE]
                    \/ j.kind = "end" /\ y = [x EXCEPT !.endPending = FALSE, !.trackPending = FALSE]
                    \/ j.kind = "analysis" /\ y = Settled(x, "synced")
    BY <1>4
  <2>2. ASSUME j.own PROVE Sound(y, s, World')
    <3>1. x = r BY <2>2
    <3>2. j.target # 0 /\ World'.remote[j.target].drive # 0 BY <1>1, <1>2 DEF Errand
    <3>3. j.kind \in {"start", "name", "end"} /\ j.names => World'.remote[j.target].circuit
      BY <1>1, <1>2 DEF Errand
    <3>4. r.remote = IF j.kind = "start" THEN 0 ELSE j.target BY <1>2, <2>2 DEF Errand
    <3>5. /\ j.kind = "name" => j.names
          /\ j.kind = "end" => (j.names <=> NamesCircuit(r))
      BY <1>1, <1>2, <2>2 DEF Errand
    <3> HIDE DEF x, r, s, j
    <3>6. CASE j.kind = "start" /\ y = OpenedAs(x, j.target, j.names)
      BY <1>2, <1>3, <3>1, <3>2, <3>3, <3>4, <3>6, OpenedSound
    <3>7. CASE \/ j.kind = "name" /\ y = [x EXCEPT !.trackPending = FALSE]
               \/ j.kind = "end" /\ y = [x EXCEPT !.endPending = FALSE, !.trackPending = FALSE]
      <4>1. r.remote # 0 /\ (NamesCircuit(r) => World'.remote[r.remote].circuit)
        BY <3>2, <3>3, <3>4, <3>5, <3>7
      <4>2. /\ Sound([r EXCEPT !.trackPending = FALSE], s, World')
            /\ Sound([r EXCEPT !.endPending = FALSE, !.trackPending = FALSE], s, World')
        BY <1>2, <4>1, NamedSound
      <4> QED BY <3>1, <3>7, <4>2
    <3>8. CASE j.kind = "analysis" /\ y = Settled(x, "synced")
      BY <1>2, <3>1, <3>8, SettledSound
    <3> QED BY <2>1, <3>6, <3>7, <3>8
  <2> QED BY <1>1, <2>1, <2>2, RecordsBalances
<1>5. CASE j.kind = "lap" /\ Resolves(w, j.lap, "synced")
  <2>1. j.lap \in LapIds BY <1>2, <1>5, BoundsAssumption DEF Job, JobFields, LapIds
  <2>2. ASSUME j.own
        PROVE  /\ r.remote # 0
               /\ World'.rows[j.lap].lap = j.lap => HasLap(World', r.remote, j.lap)
    <3>1. /\ r.remote = j.target /\ j.target # 0 /\ HasLap(World', j.target, j.doc.lap)
          /\ World'.rows[j.lap].lap = j.lap => j.doc.lap = j.lap
      BY <1>1, <1>2, <1>5, <2>2 DEF Errand
    <3> QED BY <3>1
  <2> QED BY <1>1, <1>5, <2>1, <2>2, ResolvesBalances
<1> QED BY <1>3, <1>4, <1>5 DEF Accepted, Kinds

LEMMA RefusedBalances ==
    ASSUME LInv, OneAtWork, Grows(World, World'), NEW w \in Workers, Refused(w)
    PROVE  Ledger' /\ Errands'
<1> DEFINE j == job[w]
           s == job[w].session
           r == rec[s]
           x == IF j.own THEN r ELSE NoRecord
           lost == IF j.lap \in ToSet(x.queue) THEN Without(x.queue, j.lap) ELSE x.queue
<1>1. AtWork(w) /\ UNCHANGED cancelled /\ InFlight(j)
  BY DEF Refused, Answered, AtWork, InFlight
<1>2. j \in Job /\ s \in Sessions /\ r \in Record /\ Sound(r, s, World') /\ Errand(j, r, World')
  BY <1>1, OnErrand
<1>3. PICK y : /\ Records(w, y)
               /\ \/ y = Settled(x, "rejected")
                  \/ /\ j.kind \in {"name", "end"}
                     /\ y = [x EXCEPT !.trackPending = FALSE, !.trackError = TRUE]
                  \/ j.kind = "lap" /\ y = [x EXCEPT !.queue = lost, !.laps[j.lap] = "rejected"]
                  \/ y = Closed(x)
  BY DEF Refused
<1>4. ASSUME j.own PROVE Sound(y, s, World')
  <2>1. x = r BY <1>4
  <2>2. CASE y = Settled(x, "rejected") BY <1>2, <2>1, <2>2, SettledSound
  <2>3. CASE /\ j.kind \in {"name", "end"}
             /\ y = [x EXCEPT !.trackPending = FALSE, !.trackError = TRUE]
    <3>1. r.remote # 0 BY <1>2, <1>4, <2>3 DEF Errand
    <3> HIDE DEF x, r, s
    <3> QED BY <1>2, <2>1, <2>3, <3>1, CircuitRefusedSound
  <2>4. CASE j.kind = "lap" /\ y = [x EXCEPT !.queue = lost, !.laps[j.lap] = "rejected"]
    <3>1. j.lap \in LapIds BY <1>2, <2>4, BoundsAssumption DEF Job, JobFields, LapIds
    <3>2. /\ ToSet(lost) \subseteq ToSet(r.queue)
          /\ \A k \in ToSet(r.queue) : k # j.lap => k \in ToSet(lost)
      <4>1. r.queue \in Queues BY <1>2 DEF Record
      <4> QED BY <2>1, <4>1, WithoutKeeps
    <3> HIDE DEF x, r, s, lost
    <3> QED BY <1>2, <2>1, <2>4, <3>1, <3>2, ResolvedSound
  <2>5. CASE y = Closed(x) BY <1>2, <2>1, <2>5, ClosedSound
  <2> QED BY <1>3, <2>2, <2>3, <2>4, <2>5
<1> QED BY <1>1, <1>3, <1>4, RecordsBalances

LEMMA LeavesBalances ==
    ASSUME LInv, OneAtWork, Grows(World, World'), NEW w \in Workers,
           WorkerStops(w) \/ WorkerIdles(w) \/ Unwinds(w) \/ HeldBack(w)
             \/ SwitchedOffByService(w)
    PROVE  Ledger' /\ Errands'
<1> USE DEF LInv, Inv
<1>1. ~InFlight(Ready) /\ ~InFlight(NoJob) BY NoJobType DEF InFlight
<1>2. CASE WorkerIdles(w)
  <2> DEFINE out == {s \in Sessions : rec[s].held /\ ~Pruned[s].held}
  <2>1. /\ AtWork(w) /\ UNCHANGED cancelled /\ rec' = Pruned /\ Write(rec')
        /\ job' = [Disowned(out) EXCEPT ![w] = NoJob]
    BY <1>2 DEF WorkerIdles, Turn, AtWork
  <2> HIDE DEF out
  <2>2. Sane(rec, World') BY Types, SaneStays DEF Ledger
  <2>3. Sane(rec', World') BY <2>1, <2>2, EmptySound DEF Sane, Pruned
  <2>4. Ledger' BY <2>1, <2>3, LedgerKeeps
  <2>5. Disowned(out) \in [Workers -> Job] BY Types, DisownedType
  <2>6. job'[w] = NoJob /\ \A v \in Workers : v # w => job'[v] = Disowned(out)[v]
    BY <2>1, <2>5
  <2>7. ASSUME NEW v \in Workers PROVE Tended(v)'
    <3>1. CASE v = w BY <1>1, <2>6, <3>1 DEF Tended
    <3>2. CASE v # w
      <4>1. job'[v] \in {job[v], [job[v] EXCEPT !.own = FALSE]}
        BY <2>6, <3>2, DisownedCarries
      <4> QED BY <2>1, <3>2, <4>1, OthersTended
    <3> QED BY <3>1, <3>2
  <2> QED BY <2>4, <2>7 DEF Errands
<1>3. CASE ~WorkerIdles(w)
  <2>1. /\ UNCHANGED <<rec, disk>>
        /\ job' = [job EXCEPT ![w] = Ready] \/ job' = [job EXCEPT ![w] = NoJob]
        /\ \A v \in Workers : v # w /\ v \in cancelled => v \in cancelled'
    BY <1>3 DEF WorkerStops, Ends, Unwinds, HeldBack, SwitchedOffByService
  <2> HIDE DEF Ready, NoJob
  <2>2. ~InFlight(job'[w]) /\ \A v \in Workers : v # w => job'[v] = job[v]
    BY <1>1, <2>1, Types
  <2>3. \A v \in Workers : Carried(v) BY <2>1, <2>2 DEF Carried
  <2> QED BY <2>1, <2>3, StandsStill
<1> QED BY <1>2, <1>3

LEMMA WorkerBalances ==
    ASSUME LInv, OneAtWork, Grows(World, World'), NEW w \in Workers, Worker(w)
    PROVE  Ledger' /\ Errands'
BY PushNextBalances, LoadedBalances, AcceptedBalances, RefusedBalances, LeavesBalances
   DEF Worker

-----------------------------------------------------------------------------

LEMMA CountedStays ==
    ASSUME TypeOK, Counted, [Next]_vars PROVE Counted'
<1>0. finished \in Nat /\ rows \in [LapIds -> Lap \cup {NoLap}] BY NumbersType, Types
<1>1. CASE UNCHANGED <<rows, finished>> BY <1>1 DEF Counted
<1>2. ASSUME NEW l \in LapIds, LapSaved(l) PROVE Counted'
  <2>1. /\ finished' = finished + 1
        /\ \A k \in LapIds : k # l => rows'[k] = rows[k]
    BY <1>0, <1>2 DEF LapSaved
  <2>2. l <= finished'
    <3>1. l = 1 \/ l - 1 \in Stored BY <1>2 DEF LapSaved, NextLapId
    <3>2. l - 1 \in Stored => l - 1 <= finished BY DEF Counted, Stored
    <3> QED BY <1>0, <2>1, <3>1, <3>2 DEF LapIds
  <2>3. \A k \in LapIds : k <= finished => k <= finished' BY <1>0, <2>1 DEF LapIds
  <2> QED BY <2>1, <2>2, <2>3 DEF Counted
<1>3. ASSUME NEW l \in LapIds, RulingCommitted(l) PROVE Counted'
  <2>1. /\ finished' = finished /\ rows[l] # NoLap
        /\ \A k \in LapIds : k # l => rows'[k] = rows[k]
    BY <1>0, <1>3 DEF RulingCommitted, Stored
  <2> QED BY <2>1 DEF Counted
<1>4. CASE AllCleared \/ (\E l \in LapIds : LapDeleted(l)) \/ \E s \in Sessions : SessionDeleted(s)
  <2>1. finished' = finished BY <1>4 DEF AllCleared, LapDeleted, SessionDeleted
  <2>2. \A k \in LapIds : rows'[k] \in {rows[k], NoLap}
    BY <1>0, <1>4 DEF AllCleared, LapDeleted, SessionDeleted
  <2> QED BY <2>1, <2>2 DEF Counted
<1>5. CASE SessionStarted \/ (\E l \in LapIds, s \in Sessions : LapChanged(l, s))
  BY <1>1, <1>5 DEF SessionStarted, LapChanged
<1>6. CASE ~Recorder
  <2>1. UNCHANGED <<rows, finished>>
    BY <1>6 DEF Next, Worker, WorkerStops, WorkerIdles, PushNext, LapLoaded, TotalsLoaded,
         AnalysisLoaded, Accepted, Refused, HeldBack, SwitchedOffByService, Unwinds,
         Client, SwitchedOn, SwitchedOff, BringUpAsks, BringUpActs, ConnectionTested,
         PushPressed, ConnectionChanged, ConnectionReset, Restarted, Crashed, Started,
         Service, ServiceTakes, ServiceDeclines, SessionExpires, OfferChanges,
         BackoffOver, vars, dbVars
  <2> QED BY <1>1, <2>1
<1> QED BY <1>2, <1>3, <1>4, <1>5, <1>6 DEF Recorder

LEMMA InitLInv == Init => LInv
<1> SUFFICES ASSUME Init PROVE LInv OBVIOUS
<1>1. Inv BY InitInv
<1>2. Ledger BY EmptySound DEF Init, Ledger, Sane
<1>3. Counted BY DEF Init, Counted
<1>4. Errands
  <2>1. ~InFlight(NoJob) BY NoJobType DEF InFlight
  <2> QED BY <2>1 DEF Init, Errands, Tended
<1> QED BY <1>1, <1>2, <1>3, <1>4 DEF LInv

LEMMA StepKeepsLInv == LInv /\ OneAtWork /\ [Next]_vars => LInv'
<1> SUFFICES ASSUME LInv, OneAtWork, [Next]_vars PROVE LInv' OBVIOUS
<1>1. Inv' BY StepKeepsInv DEF LInv
<1>2. TypeOK /\ TypeOK' BY <1>1 DEF LInv, Inv
<1>3. Grows(World, World') BY <1>2, StepGrows
<1>4. Counted' BY <1>2, CountedStays DEF LInv
<1>5. Ledger' /\ Errands'
  <2>1. CASE Recorder BY <1>2, <1>3, <2>1, RecorderBalances
  <2>2. CASE \E w \in Workers : Worker(w) BY <1>3, <2>2, WorkerBalances
  <2>3. CASE Client BY <1>3, <2>3, ClientBalances
  <2>4. CASE Service BY <1>2, <1>3, <2>4, ServiceBalances
  <2>5. CASE BackoffOver \/ UNCHANGED vars
    <3>1. UNCHANGED <<rec, disk, job, cancelled>>
      BY <2>5 DEF BackoffOver, vars, adapterVars, workerVars
    <3>2. \A w \in Workers : Carried(w) BY <3>1 DEF Carried
    <3> QED BY <1>3, <3>1, <3>2, StandsStill
  <2> QED BY <2>1, <2>2, <2>3, <2>4, <2>5 DEF Next
<1> QED BY <1>1, <1>4, <1>5 DEF LInv

\* What the record of a session says of it, read off the invariant.
LEMMA RecordsTell ==
    ASSUME LInv PROVE SyncedMeansHeld /\ NamedOrOwed
<1>1. ASSUME NEW s \in Sessions, Reaches(rec[s])
      PROVE  /\ rec[s].circuit /\ ~rec[s].trackError =>
                   remote[rec[s].remote].circuit \/ rec[s].trackPending
             /\ \A l \in LapIds :
                   /\ rows[l].session = s /\ rows[l].lap = l /\ rec[s].laps[l] = "synced"
                   /\ l \notin ToSet(rec[s].queue) \cup dropped
                   => \E d \in remote[rec[s].remote].laps : d.lap = l
  <2>1. Claims(rec[s], s, World) BY DEF LInv, Ledger, Sane, Sound
  <2> QED BY <1>1, <2>1, WorldFields DEF Claims, Reaches, HasLap
<1>2. SyncedMeansHeld BY <1>1 DEF SyncedMeansHeld, StoredOf, Stored, OwnId
<1>3. NamedOrOwed BY <1>1 DEF NamedOrOwed, NamesCircuit
<1> QED BY <1>2, <1>3

-----------------------------------------------------------------------------
(* When there is one worker at work.                                       *)

\* A cancelled worker that unwinds takes no successor's place in `_task`.
UnwindsAlone == \A w \in Workers : Unwinds(w) => UNCHANGED task

\* Who is at work is the one `_task` names.
Named == \A w \in Workers : AtWork(w) => task = w

LEMMA WorkerTypes ==
    ASSUME TypeOK
    PROVE  /\ job \in [Workers -> Job] /\ cancelled \subseteq Workers
           /\ \A w \in cancelled : job[w].at # "off"
BY DEF TypeOK, WorkerTypeOK

LEMMA StepNamed ==
    ASSUME TypeOK, Named, NEW w \in Workers, job[w].at # "off",
           \A v \in Workers : v # w => job'[v] = job[v], UNCHANGED <<task, cancelled>>
    PROVE  Named'
BY DEF Named, AtWork

LEMMA EndsNamed ==
    ASSUME TypeOK, Named, NEW w \in Workers, AtWork(w), UNCHANGED cancelled,
           \A v \in Workers : v # w => job'[v].at = job[v].at,
           job'[w].at = "off"
    PROVE  Named'
<1>1. task = w BY DEF Named
<1>2. ASSUME NEW v \in Workers, AtWork(v)' PROVE FALSE
  <2>1. v # w BY <1>2 DEF AtWork
  <2>2. AtWork(v) BY <1>2, <2>1 DEF AtWork
  <2> QED BY <1>1, <2>1, <2>2 DEF Named
<1> QED BY <1>2 DEF Named

LEMMA KickNamed ==
    ASSUME TypeOK, Named, NEW j \in [Workers -> Job],
           \A v \in Workers : j[v].at = job[v].at, Kick(j)
    PROVE  Named'
<1>1. CASE Active /\ task = 0
  <2>1. PICK w \in Workers : /\ task' = w /\ cancelled' = cancelled
                             /\ job' = [j EXCEPT ![w] = Spawned]
    BY <1>1 DEF Kick
  <2>2. \A v \in Workers : v # w => job'[v].at = job[v].at
    BY <2>1
  <2>3. ASSUME NEW v \in Workers, AtWork(v)' PROVE v = w
    <3>1. CASE v # w
      <4>1. AtWork(v) BY <2>1, <2>2, <2>3, <3>1 DEF AtWork
      <4> QED BY <1>1, <4>1, WorkersAssumption DEF Named
    <3> QED BY <3>1
  <2> QED BY <2>1, <2>3 DEF Named
<1>2. CASE ~(Active /\ task = 0)
  <2>1. job' = j /\ UNCHANGED <<task, cancelled>> BY <1>2 DEF Kick
  <2> QED BY <2>1 DEF Named, AtWork
<1> QED BY <1>1, <1>2

LEMMA HaltNamed ==
    ASSUME TypeOK, Named, NEW j, \A v \in Workers : j[v].at = job[v].at, Halt(j)
    PROVE  Named'
<1>1. /\ job' = j
      /\ cancelled' = IF task = 0 THEN cancelled ELSE cancelled \cup {task}
  BY DEF Halt
<1>2. ASSUME NEW v \in Workers, AtWork(v)' PROVE FALSE
  <2>1. AtWork(v) /\ v # task BY <1>1, <1>2, WorkersAssumption DEF AtWork
  <2> QED BY <2>1 DEF Named
<1> QED BY <1>2 DEF Named

LEMMA StillNamed ==
    ASSUME Named, UNCHANGED <<task, cancelled>>,
           \A v \in Workers : job'[v].at # "off" => job[v].at # "off"
    PROVE  Named'
BY DEF Named, AtWork

LEMMA WorkerNamed ==
    ASSUME TypeOK, Named, NEW w \in Workers, Worker(w), [UnwindsAlone]_vars PROVE Named'
<1>1. NoJob.at = "off" BY NoJobType
<1>2. job \in [Workers -> Job] BY Types
<1> HIDE DEF NoJob
<1>3. CASE Unwinds(w)
  <2>1. /\ job' = [job EXCEPT ![w] = NoJob] /\ cancelled' = cancelled \ {w}
    BY <1>3 DEF Unwinds
  <2>2. task' = task BY <1>3 DEF UnwindsAlone, vars, adapterVars, workerVars
  <2>3. ASSUME NEW v \in Workers, AtWork(v)' PROVE AtWork(v)
    BY <1>1, <1>2, <2>1, <2>3 DEF AtWork
  <2> QED BY <2>2, <2>3 DEF Named
<1>4. CASE WorkerStops(w) \/ WorkerIdles(w)
  <2>1. AtWork(w) /\ UNCHANGED cancelled
    BY <1>4 DEF WorkerStops, WorkerIdles, Turn, AtWork
  <2>2. PICK j \in [Workers -> Job] : /\ \A v \in Workers : j[v].at = job[v].at
                                      /\ job' = [j EXCEPT ![w] = NoJob]
    <3>1. CASE WorkerStops(w) BY <1>2, <3>1 DEF WorkerStops, Ends
    <3>2. CASE WorkerIdles(w) BY <1>2, <3>2, DisownedType DEF WorkerIdles
    <3> QED BY <1>4, <3>1, <3>2
  <2> QED BY <1>1, <2>1, <2>2, EndsNamed
<1>5. CASE ~(Unwinds(w) \/ WorkerStops(w) \/ WorkerIdles(w))
  <2>1. AtWork(w) /\ UNCHANGED cancelled
    BY <1>5 DEF Worker, PushNext, Turn, LapLoaded, TotalsLoaded, AnalysisLoaded, Loading,
         Accepted, Refused, HeldBack, SwitchedOffByService, Answered, AtWork
  <2>2. \/ UNCHANGED task /\ \E j : job' = [job EXCEPT ![w] = j]
        \/ Ends(w)
    <3>1. CASE PushNext(w) BY <3>1 DEF PushNext
    <3>2. CASE LapLoaded(w) BY <3>2 DEF LapLoaded, Send, Resolves
    <3>3. CASE TotalsLoaded(w) BY <3>3 DEF TotalsLoaded, Send
    <3>4. CASE AnalysisLoaded(w) BY <3>4 DEF AnalysisLoaded, Send
    <3>5. CASE Accepted(w)
      <4>1. job[w].kind \in Kinds BY <1>2 DEF Job, JobFields
      <4> QED BY <3>5, <4>1 DEF Accepted, Kinds, Records, Resolves
    <3>6. CASE Refused(w) BY <3>6 DEF Refused, Records
    <3>7. CASE HeldBack(w) \/ SwitchedOffByService(w)
      BY <3>7 DEF HeldBack, SwitchedOffByService
    <3> QED BY <1>5, <3>1, <3>2, <3>3, <3>4, <3>5, <3>6, <3>7 DEF Worker
  <2>3. CASE Ends(w) BY <1>1, <1>2, <2>1, <2>3, EndsNamed DEF Ends
  <2>4. CASE UNCHANGED task /\ \E j : job' = [job EXCEPT ![w] = j]
    <3>1. \A v \in Workers : v # w => job'[v] = job[v] BY <1>2, <2>4
    <3> QED BY <2>1, <2>4, <3>1, StepNamed DEF AtWork
  <2> QED BY <2>2, <2>3, <2>4
<1> QED BY <1>3, <1>4, <1>5

LEMMA OthersNamed ==
    ASSUME TypeOK, Named, Recorder \/ Client \/ Service \/ BackoffOver \/ UNCHANGED vars
    PROVE  Named'
<1>1. job \in [Workers -> Job] BY Types
<1>2. \A S : /\ Disowned(S) \in [Workers -> Job]
             /\ \A v \in Workers : Disowned(S)[v].at = job[v].at
  BY <1>1, DisownedType
<1>3. CASE Recorder
  <2>1. \/ \E S : Kick(Disowned(S)) \/ (job' = Disowned(S) /\ UNCHANGED <<task, cancelled>>)
        \/ Kick(job) \/ UNCHANGED workerVars
    BY <1>3 DEF Recorder, SessionStarted, AllCleared, LapSaved, RulingCommitted, LapDeleted,
         LapChanged, SessionDeleted, adapterVars
  <2> QED BY <1>1, <1>2, <2>1, KickNamed, StillNamed DEF workerVars
<1>4. CASE BackoffOver \/ UNCHANGED vars
  <2>1. UNCHANGED workerVars BY <1>4 DEF BackoffOver, vars, adapterVars
  <2> QED BY <2>1, StillNamed DEF workerVars
<1>5. CASE Service
  <2>1. \/ UNCHANGED workerVars
        \/ \E w \in Workers : /\ job[w].at = "sent" /\ UNCHANGED <<task, cancelled>>
                              /\ \E x, t : Answers(w, x, t)
    BY <1>5 DEF Service, ServiceTakes, ServiceDeclines, SessionExpires, OfferChanges,
         adapterVars
  <2>2. ASSUME NEW w \in Workers, job[w].at = "sent", UNCHANGED <<task, cancelled>>,
               NEW x, NEW t, Answers(w, x, t)
        PROVE  Named'
    <3>1. \A v \in Workers : v # w => job'[v] = job[v] BY <1>1, <2>2 DEF Answers
    <3> QED BY <2>2, <3>1, StepNamed
  <2> QED BY <2>1, <2>2, StillNamed DEF workerVars
<1>6. CASE Client
  <2>1. \/ UNCHANGED workerVars \/ Kick(job) \/ Halt(job) \/ Halt(Disowned(Sessions))
        \/ \E f : Started(f)
    BY <1>6 DEF Client, SwitchedOn, SwitchedOff, BringUpAsks, BringUpActs, ConnectionTested,
         PushPressed, ConnectionChanged, ConnectionReset, Restarted, Crashed, Learn,
         adapterVars
  <2>2. ASSUME NEW f, Started(f) PROVE Named'
    <3>1. \A v \in Workers : job'[v].at = "off" BY <2>2, NoJobType DEF Started
    <3> QED BY <3>1 DEF Named, AtWork
  <2> QED BY <1>1, <1>2, <2>1, <2>2, KickNamed, HaltNamed, StillNamed DEF workerVars
<1> QED BY <1>3, <1>4, <1>5, <1>6

\* The one way to two workers at work: a cancelled worker unwinds, its `finally`
\* clears `_task`, and `_task` named its successor (sessions.py, halt, _kick and
\* the `finally` of _run).  In a behaviour where that never happens, no kick,
\* halt, restart or change of settings spawns a second one.
THEOREM OneByOne == Spec => ([][UnwindsAlone]_vars => []OneAtWork)
<1>1. Named => OneAtWork BY DEF Named, OneAtWork, AtWork
<1>2. Init => Named BY NoJobType DEF Init, Named, AtWork
<1>3. Inv /\ Named /\ [Next]_vars /\ [UnwindsAlone]_vars => Named'
  <2> SUFFICES ASSUME Inv, Named, [Next]_vars, [UnwindsAlone]_vars PROVE Named'
    OBVIOUS
  <2> QED BY WorkerNamed, OthersNamed DEF Inv, Next
<1> QED BY <1>1, <1>2, <1>3, InitInv, StepKeepsInv, PTL DEF Spec

\* As long as no second worker is spawned beside one at work, the state file's
\* promise is kept: whatever failed, was retried, was deleted, ruled on or
\* interrupted, a lap the record notes as synced is held by the session it
\* names (sessions.py, _send_lap, lap_changed, _trim_queue, _write_state).
THEOREM SyncedIsHeld == Spec => ([]OneAtWork => []SyncedMeansHeld)
<1>1. LInv => SyncedMeansHeld BY RecordsTell
<1> QED BY <1>1, InitLInv, StepKeepsLInv, PTL DEF Spec

\* Under the same condition a circuit the record has learnt is at the service
\* or owed to it, whenever the lap that named it came (sessions.py, lap_saved,
\* _start, _name, _end).
THEOREM CircuitIsNamed == Spec => ([]OneAtWork => []NamedOrOwed)
<1>1. LInv => NamedOrOwed BY RecordsTell
<1> QED BY <1>1, InitLInv, StepKeepsLInv, PTL DEF Spec

-----------------------------------------------------------------------------
(* The order in which the service is told a drive.                         *)
(*                                                                         *)
(* A cancelled request is still a request: the service may take it after    *)
(* the next worker has sent what comes later.  The theorem is about the     *)
(* behaviours in which one request at a time is under way.                  *)

OneUnderWay ==
    \A v, w \in Workers : InFlight(job[v]) /\ InFlight(job[w]) => v = w

\* The service's session t has the lap numbered n of its own drive.
Told(W, t, n) == \E d \in W.remote[t].laps : d.lap = n /\ d.session = W.remote[t].drive

\* The lap l of session s, under its own id, is one the service's session t
\* has not got; 0 stands for the session to come.
Untold(l, s, t, W) == /\ W.rows[l].lap = l /\ W.rows[l].session = s
                      /\ t # 0 => ~Told(W, t, l)

\* The service's session t can be told of the lap l: it has none that comes
\* later, and no totals.
Opens(t, l, W) == t # 0 => /\ ~W.remote[t].ended
                           /\ \A n : Told(W, t, n) => n < l

\* k comes before l in the queue q.
Ahead(q, k, l) == \E i, m \in DOMAIN q : i < m /\ q[i] = k /\ q[m] = l

\* The record r of session s, in memory or in the file, is in order: a lap
\* the service has not got is queued behind smaller ones only and the service
\* is open for it, a lap noted as synced it has got, and once the drive is
\* over the totals are owed or have arrived.
InLine(r, s, W) ==
    /\ r.remote # 0 => W.remote[r.remote].drive = s
    /\ \A l \in ToSet(r.queue) :
          /\ l <= W.finished
          /\ Untold(l, s, r.remote, W) =>
                Opens(r.remote, l, W) /\ \A k : Ahead(r.queue, k, l) => k < l
    /\ \A l \in LapIds : r.laps[l] = "synced" =>
          l <= W.finished /\ ~Untold(l, s, r.remote, W)
    /\ ~r.closed /\ (r.ended \/ r.analysisPending) =>
          r.endPending \/ (r.remote # 0 /\ W.remote[r.remote].ended)
    /\ r.endPending => s # W.open /\ s <= W.opened

\* Of the queue of r, what the request j would overtake: for a lap, a smaller
\* one the service has not got; for the totals, any.
Overtakes(j, r, W) ==
    /\ r.remote = j.target
    /\ \E l \in ToSet(r.queue) : /\ Untold(l, j.session, j.target, W)
                                 /\ j.kind = "lap" => l < j.lap

\* A request on its way to the service comes at its time.
Timely(j, r, q, W) ==
    /\ j.kind \in {"lap", "end"} => ~Overtakes(j, r, W) /\ ~Overtakes(j, q, W)
    /\ j.kind = "lap" => (Untold(j.lap, j.session, j.target, W) => Opens(j.target, j.lap, W))
    /\ j.kind = "analysis" => W.remote[j.target].ended

\* The document of lap j.lap is that of the row, or of one that was there.
Faithful(j, W) ==
    /\ j.lap <= j.doc.lap /\ j.doc.lap <= W.finished
    /\ \A l \in LapIds : l > j.lap /\ W.rows[l].lap # 0 => W.rows[l].lap > j.doc.lap
    /\ W.rows[j.lap].lap = j.lap =>
          j.doc.lap = j.lap /\ j.doc.session = W.rows[j.lap].session

\* What was taken, the service has.
Arrived(j, W) ==
    /\ j.kind = "start" => W.remote[j.target].laps = {} /\ ~W.remote[j.target].ended
    /\ j.kind = "lap" => ~Untold(j.lap, j.session, j.target, W)
    /\ j.kind = "end" => W.remote[j.target].ended

\* What is so of a request under way for the record r, while the file has q.
Way(j, r, q, W) ==
    /\ j.session <= W.opened
    /\ j.own => r.held /\ r.remote = IF j.kind = "start" THEN 0 ELSE j.target
    /\ j.kind # "start" \/ (j.at = "answered" /\ j.reply = "ok") =>
          j.target # 0 /\ W.remote[j.target].drive = j.session
    /\ j.kind = "lap" => j.lap <= W.finished
    /\ j.kind = "end" => j.session # W.open
    /\ j.at # "answered" => Timely(j, r, q, W)
    /\ j.at = "sent" /\ j.kind = "lap" => Faithful(j, W)
    /\ j.at = "answered" /\ j.reply = "ok" => Arrived(j, W)

\* Laps are numbered as they are driven, and their rows follow each other.
Ascending(W) ==
    \A l \in LapIds : W.rows[l].lap # 0 =>
        /\ l <= W.rows[l].lap /\ W.rows[l].lap <= W.finished
        /\ \A k \in LapIds : k < l /\ W.rows[k].lap # 0 => W.rows[k].lap < W.rows[l].lap

\* The service was told of laps that were driven, and of totals afterwards.
Heard(W) ==
    \A t \in RemoteIds :
        /\ W.remote[t].drive <= W.opened
        /\ \A d \in W.remote[t].laps : d.lap <= W.finished
        /\ W.remote[t].ended /\ W.remote[t].drive # 0 => W.remote[t].drive # W.open

InOrder(rs, W) == \A s \in Sessions : InLine(rs[s], s, W)

Lines == InOrder(rec, World) /\ InOrder(disk.recs, World)

OnTime(w) ==
    InFlight(job[w]) =>
        /\ job[w].session # 0
        /\ Way(job[w], rec[job[w].session], disk.recs[job[w].session], World)

Ways == \A w \in Workers : OnTime(w)

\* While the file is another server's, no record names a session of the new one.
Afresh == disk.url # recUrl => \A s \in Sessions : rec[s].remote = 0

OrderInv == Inv /\ Ascending(World) /\ Heard(World) /\ Afresh /\ Lines /\ Ways

-----------------------------------------------------------------------------
(* Queues: the order in which laps wait.                                   *)

\* The queue p is what is left of q.
Left(p, q) == /\ ToSet(p) \subseteq ToSet(q)
              /\ \A k, l : Ahead(p, k, l) => Ahead(q, k, l)

LEMMA LeftOfItself == ASSUME NEW q PROVE Left(q, q)
BY DEF Left

LEMMA EmptyLeft == ASSUME NEW q PROVE Left(<<>>, q) /\ ToSet(<<>>) = {}
<1>1. DOMAIN <<>> = {} BY EmptySeq, LenProperties
<1> QED BY <1>1 DEF Left, Ahead, ToSet

LEMMA WithoutLeaves ==
    ASSUME NEW q \in Queues, NEW l \in ToSet(q) PROVE Left(Without(q, l), q)
<1>1. q \in Seq(LapIds) BY DEF Queues
<1>2. Len(q) \in Nat /\ DOMAIN q = 1..Len(q) BY <1>1, LenProperties
<1>3. PICK i \in DOMAIN q : q[i] = l /\ Without(q, l) = RemoveAt(q, i)
  <2>1. \E i \in DOMAIN q : q[i] = l BY DEF ToSet
  <2> QED BY <2>1 DEF Without
<1> DEFINE z == RemoveAt(q, i)
<1>4. /\ z \in Seq(LapIds) /\ Len(z) = Len(q) - 1
      /\ \A k \in 1..(Len(q) - 1) : z[k] = IF k < i THEN q[k] ELSE q[k + 1]
  BY RemoveAtPlaces
<1>5. DOMAIN z = 1..(Len(q) - 1) BY <1>4, LenProperties
<1> HIDE DEF z
<1>6. ASSUME NEW a, NEW b, Ahead(z, a, b) PROVE Ahead(q, a, b)
  <2>1. PICK x \in DOMAIN z, y \in DOMAIN z : x < y /\ z[x] = a /\ z[y] = b
    BY <1>6 DEF Ahead
  <2> DEFINE at(k) == IF k < i THEN k ELSE k + 1
  <2>2. /\ at(x) \in DOMAIN q /\ at(y) \in DOMAIN q /\ at(x) < at(y)
        /\ q[at(x)] = a /\ q[at(y)] = b
    BY <1>2, <1>3, <1>4, <1>5, <2>1
  <2> QED BY <2>2 DEF Ahead
<1>7. ToSet(Without(q, l)) \subseteq ToSet(q) BY WithoutKeeps
<1> QED BY <1>3, <1>6, <1>7 DEF Left, z

\* A lap that is appended waits behind all the others.
LEMMA AppendWaits ==
    ASSUME NEW q \in Queues, NEW l \in LapIds, NEW a, NEW b, Ahead(Append(q, l), a, b)
    PROVE  Ahead(q, a, b) \/ (a \in ToSet(q) /\ b = l)
<1> DEFINE z == Append(q, l)
<1>1. q \in Seq(LapIds) BY DEF Queues
<1>2. Len(q) \in Nat /\ DOMAIN q = 1..Len(q) BY <1>1, LenProperties
<1>3. /\ z \in Seq(LapIds) /\ Len(z) = Len(q) + 1
      /\ (\A i \in 1..Len(q) : z[i] = q[i]) /\ z[Len(q) + 1] = l
  BY <1>1, AppendProperties
<1>4. DOMAIN z = 1..(Len(q) + 1) BY <1>3, LenProperties
<1>5. PICK x \in DOMAIN z, y \in DOMAIN z : x < y /\ z[x] = a /\ z[y] = b
  BY DEF Ahead
<1> HIDE DEF z
<1>6. x \in DOMAIN q /\ q[x] = a BY <1>2, <1>3, <1>4, <1>5
<1>7. CASE y \in DOMAIN q BY <1>2, <1>3, <1>5, <1>6, <1>7 DEF Ahead
<1>8. CASE y \notin DOMAIN q
  <2>1. y = Len(q) + 1 BY <1>2, <1>4, <1>8
  <2> QED BY <1>3, <1>5, <1>6, <2>1 DEF ToSet
<1> QED BY <1>7, <1>8

LEMMA DropLeaves ==
    ASSUME NEW q \in Queues, NEW n \in Nat PROVE Left(SubSeq(q, n + 1, Len(q)), q)
<1>1. q \in Seq(LapIds) BY DEF Queues
<1>2. /\ Len(q) \in Nat /\ DOMAIN q = 1..Len(q)
      /\ \A k \in 1..Len(q) : q[k] \in LapIds
  BY <1>1, LenProperties
<1>3. PICK m \in Nat : m = Len(q) BY <1>2
<1> DEFINE b == SubSeq(q, n + 1, m)
<1>4. /\ b \in Seq(LapIds)
      /\ Len(b) = IF n + 1 <= m THEN m - (n + 1) + 1 ELSE 0
      /\ \A k \in 1..(m - (n + 1) + 1) : b[k] = q[(n + 1) + k - 1]
  <2>1. \A k \in (n + 1)..m : q[k] \in LapIds BY <1>2, <1>3
  <2> QED BY <2>1, SubSeqProperties
<1> HIDE DEF b
<1>5. DOMAIN b = 1..Len(b) BY <1>4, LenProperties
<1>6. ASSUME NEW k \in DOMAIN b
      PROVE  /\ k \in Int
             /\ (n + 1) + k - 1 \in DOMAIN q /\ b[k] = q[(n + 1) + k - 1]
  <2>1. k \in 1..(m - (n + 1) + 1) /\ (n + 1) + k - 1 \in 1..m BY <1>4, <1>5
  <2>2. b[k] = q[(n + 1) + k - 1] BY <1>4, <2>1
  <2>3. (n + 1) + k - 1 \in DOMAIN q BY <1>2, <1>3, <2>1
  <2>4. k \in Int BY <2>1
  <2> QED BY <2>2, <2>3, <2>4
<1>7. ASSUME NEW a, NEW c, Ahead(b, a, c) PROVE Ahead(q, a, c)
  <2>1. PICK x \in DOMAIN b, y \in DOMAIN b : x < y /\ b[x] = a /\ b[y] = c
    BY <1>7 DEF Ahead
  <2> DEFINE at(k) == (n + 1) + k - 1
  <2>2. at(x) \in DOMAIN q /\ at(y) \in DOMAIN q /\ q[at(x)] = a /\ q[at(y)] = c
    BY <1>6, <2>1
  <2>3. at(x) < at(y) BY <1>6, <2>1
  <2> QED BY <2>2, <2>3 DEF Ahead
<1>8. ToSet(SubSeq(q, n + 1, Len(q))) \subseteq ToSet(q) BY DropKeeps
<1> QED BY <1>3, <1>7, <1>8 DEF Left, b

\* The first of a queue is ahead of all the others.
LEMMA HeadFirst ==
    ASSUME NEW q \in Queues, q # <<>>
    PROVE  /\ Head(q) \in ToSet(q) /\ Head(q) \in LapIds
           /\ \A l \in ToSet(q) : l = Head(q) \/ Ahead(q, Head(q), l)
<1>1. q \in Seq(LapIds) BY DEF Queues
<1>2. Len(q) \in Nat /\ DOMAIN q = 1..Len(q) BY <1>1, LenProperties
<1>3. Head(q) = q[1] /\ 1 \in DOMAIN q /\ Head(q) \in LapIds
  BY <1>1, HeadTailProperties, EmptySeq, LenProperties
<1>4. ASSUME NEW l \in ToSet(q), l # Head(q) PROVE Ahead(q, Head(q), l)
  <2>1. PICK y \in DOMAIN q : q[y] = l BY DEF ToSet
  <2>2. 1 < y BY <1>2, <1>3, <1>4, <2>1
  <2> QED BY <1>3, <2>1, <2>2 DEF Ahead
<1> QED BY <1>3, <1>4 DEF ToSet

LEMMA QueueLaps == ASSUME NEW q \in Queues PROVE ToSet(q) \subseteq LapIds
<1>1. q \in Seq(LapIds) BY DEF Queues
<1>2. Len(q) \in Nat /\ DOMAIN q = 1..Len(q) BY <1>1, LenProperties
<1>3. \A i \in DOMAIN q : q[i] \in LapIds BY <1>1, <1>2
<1> QED BY <1>3 DEF ToSet

\* What the cap leaves of the queues.
LEMMA TrimLeaves ==
    ASSUME NEW rs \in [Sessions -> Record], NEW s \in Sessions
    PROVE  Left(TrimQueue(rs)[s].queue, rs[s].queue)
<1> DEFINE q == rs[s].queue
           n == Cardinality(Overflow(rs, s))
<1>1. q \in Queues /\ q \in Seq(LapIds) BY DEF Record, Queues
<1>2. Len(q) \in Nat /\ DOMAIN q = 1..Len(q) BY <1>1, LenProperties
<1>3. TrimQueue(rs)[s].queue = SubSeq(q, n + 1, Len(q)) BY DEF TrimQueue, Record
<1>4. n \in Nat
  <2>1. IsFiniteSet(DOMAIN q) BY <1>2, FS_Interval
  <2>2. Overflow(rs, s) \subseteq DOMAIN q BY DEF Overflow
  <2> QED BY <2>1, <2>2, FS_Subset, FS_CardinalityType
<1> HIDE DEF n, q
<1>5. Left(SubSeq(q, n + 1, Len(q)), q) BY <1>1, <1>4, DropLeaves
<1> QED BY <1>3, <1>5 DEF q

-----------------------------------------------------------------------------
(* What stays while the service takes nothing.                             *)

\* The world grows, the service stands still, and a row keeps its lap's
\* number until it goes or is a new lap's.
Calm(W, V) ==
    /\ Grows(W, V)
    /\ \A l \in LapIds : /\ V.rows[l].lap \in Nat
                         /\ V.rows[l].lap \in {0, W.rows[l].lap} \/ V.rows[l].lap > W.finished
    /\ \A t \in RemoteIds : /\ V.remote[t].drive = W.remote[t].drive
                            /\ V.remote[t].ended = W.remote[t].ended
                            /\ V.remote[t].laps = W.remote[t].laps

LEMMA RemoteIdsAre == ASSUME NEW t \in 0..MaxRemote, t # 0 PROVE t \in RemoteIds
BY BoundsAssumption DEF RemoteIds

LEMMA ToldStays ==
    ASSUME NEW W, NEW V, Calm(W, V), NEW t \in 0..MaxRemote, t # 0, NEW n
    PROVE  Told(V, t, n) <=> Told(W, t, n)
<1>1. V.remote[t].laps = W.remote[t].laps /\ V.remote[t].drive = W.remote[t].drive
  BY RemoteIdsAre DEF Calm
<1> QED BY <1>1 DEF Told

LEMMA UntoldStays ==
    ASSUME NEW W, NEW V, Calm(W, V), NEW t \in 0..MaxRemote, NEW l \in LapIds, NEW s,
           l <= W.finished, Untold(l, s, t, V)
    PROVE  Untold(l, s, t, W)
<1>1. W.finished \in Nat /\ l \in Nat BY DEF Calm, Grows, LapIds
<1>2. ~(l > W.finished) BY <1>1
<1>3. W.rows[l].lap = l /\ W.rows[l].session = s BY <1>2 DEF Calm, Grows, Untold
<1> QED BY <1>3, ToldStays DEF Untold

LEMMA OpensStays ==
    ASSUME NEW W, NEW V, Calm(W, V), NEW t \in 0..MaxRemote, NEW l, Opens(t, l, W)
    PROVE  Opens(t, l, V)
<1>1. t # 0 => V.remote[t].ended = W.remote[t].ended BY RemoteIdsAre DEF Calm
<1> QED BY <1>1, ToldStays DEF Opens

LEMMA InLineStays ==
    ASSUME NEW W, NEW V, Calm(W, V), NEW s \in Sessions, NEW r \in Record, InLine(r, s, W)
    PROVE  InLine(r, s, V)
<1>1. /\ r.remote \in 0..MaxRemote /\ ToSet(r.queue) \subseteq LapIds
  BY QueueLaps DEF Record
<1>2. /\ W.finished \in Nat /\ V.finished \in Nat /\ W.finished <= V.finished
      /\ W.opened \in Nat /\ V.opened \in Nat /\ W.opened <= V.opened
      /\ V.open \in Nat /\ (V.open \in {0, W.open} \/ V.open > W.opened)
  BY DEF Calm, Grows
<1>3. r.remote # 0 => /\ V.remote[r.remote].drive = W.remote[r.remote].drive
                      /\ V.remote[r.remote].ended = W.remote[r.remote].ended
  BY <1>1, RemoteIdsAre DEF Calm
<1>4. r.remote # 0 => V.remote[r.remote].drive = s BY <1>3 DEF InLine
<1>5. ASSUME NEW l \in ToSet(r.queue)
      PROVE  /\ l <= V.finished
             /\ Untold(l, s, r.remote, V) =>
                   Opens(r.remote, l, V) /\ \A k : Ahead(r.queue, k, l) => k < l
  <2>1. l <= W.finished /\ l \in LapIds /\ l \in Nat BY <1>1 DEF InLine, LapIds
  <2>2. l <= V.finished BY <1>2, <2>1
  <2>3. ASSUME Untold(l, s, r.remote, V)
        PROVE  Opens(r.remote, l, V) /\ \A k : Ahead(r.queue, k, l) => k < l
    <3>1. Untold(l, s, r.remote, W) BY <1>1, <2>1, <2>3, UntoldStays
    <3>2. Opens(r.remote, l, W) /\ \A k : Ahead(r.queue, k, l) => k < l
      BY <3>1 DEF InLine
    <3> QED BY <1>1, <3>2, OpensStays
  <2> QED BY <2>2, <2>3
<1>6. ASSUME NEW l \in LapIds, r.laps[l] = "synced"
      PROVE  l <= V.finished /\ ~Untold(l, s, r.remote, V)
  <2>1. l <= W.finished /\ ~Untold(l, s, r.remote, W) /\ l \in Nat
    BY <1>6 DEF InLine, LapIds
  <2>2. l <= V.finished BY <1>2, <2>1
  <2> QED BY <1>1, <2>1, <2>2, UntoldStays
<1>7. ~r.closed /\ (r.ended \/ r.analysisPending) =>
          r.endPending \/ (r.remote # 0 /\ V.remote[r.remote].ended)
  BY <1>3 DEF InLine
<1>8. r.endPending => s # V.open /\ s <= V.opened
  <2>1. s \in Nat /\ s # 0 BY DEF Sessions
  <2>2. r.endPending => s # W.open /\ s <= W.opened BY DEF InLine
  <2> QED BY <1>2, <2>1, <2>2
<1> QED BY <1>4, <1>5, <1>6, <1>7, <1>8 DEF InLine

\* The record q is what became of r: in its queue are laps of r's, laps the
\* service has, and the lap that has just been driven.
Succeeds(q, r, s, W) ==
    q.remote # 0 =>
        /\ q.remote = r.remote
        /\ \A l \in ToSet(q.queue) :
              \/ l > W.finished /\ s = W.open
              \/ l <= W.finished /\ (l \in ToSet(r.queue) \/ ~Untold(l, s, q.remote, W))

LEMMA NothingOvertaken ==
    ASSUME NEW W, NEW V, Calm(W, V), NEW j \in Job, j.session # 0, j.target # 0,
           j.kind = "lap" => j.lap <= W.finished, j.kind = "end" => j.session # W.open,
           j.kind \in {"lap", "end"},
           NEW r, NEW q \in Record, Succeeds(q, r, j.session, W), ~Overtakes(j, r, W)
    PROVE  ~Overtakes(j, q, V)
<1> SUFFICES ASSUME Overtakes(j, q, V) PROVE FALSE OBVIOUS
<1>1. /\ j.target \in 0..MaxRemote /\ j.lap \in 0..MaxLap
      /\ W.finished \in Nat /\ ToSet(q.queue) \subseteq LapIds
  BY QueueLaps DEF Job, JobFields, Record, Calm, Grows
<1>2. q.remote = j.target /\ r.remote = j.target BY DEF Overtakes, Succeeds
<1>3. PICK l \in ToSet(q.queue) : /\ Untold(l, j.session, j.target, V)
                                  /\ j.kind = "lap" => l < j.lap
  BY DEF Overtakes
<1>4. l \in LapIds /\ l \in Nat /\ j.lap \in Nat BY <1>1, <1>3, BoundsAssumption DEF LapIds
<1>5. ~(l > W.finished /\ j.session = W.open) BY <1>1, <1>3, <1>4
<1>6. l <= W.finished /\ (l \in ToSet(r.queue) \/ ~Untold(l, j.session, q.remote, W))
  BY <1>2, <1>3, <1>5 DEF Succeeds
<1>7. Untold(l, j.session, j.target, W) BY <1>1, <1>3, <1>4, <1>6, UntoldStays
<1> QED BY <1>2, <1>3, <1>6, <1>7 DEF Overtakes

\* A request goes on as it set out, whatever became of the records.
LEMMA WayStays ==
    ASSUME NEW W, NEW V, Calm(W, V), NEW j \in Job, j.session # 0, InFlight(j),
           NEW r, NEW q, Way(j, r, q, W), NEW m \in Record, NEW f \in Record,
           j.own /\ r.held => m.held /\ m.remote = r.remote,
           Succeeds(m, r, j.session, W) \/ Succeeds(m, q, j.session, W),
           Succeeds(f, r, j.session, W) \/ Succeeds(f, q, j.session, W)
    PROVE  Way(j, m, f, V)
<1> DEFINE served == j.kind # "start" \/ (j.at = "answered" /\ j.reply = "ok")
<1>0. /\ j.session \in Sessions /\ j.session \in Nat /\ j.target \in 0..MaxRemote
      /\ j.lap \in 0..MaxLap /\ j.at \in {"load", "sent", "answered"}
      /\ W.finished \in Nat /\ V.finished \in Nat /\ W.finished <= V.finished
      /\ W.opened \in Nat /\ V.opened \in Nat /\ W.opened <= V.opened
  BY DEF Job, JobFields, Calm, Grows, Sessions, InFlight
<1>1. j.session <= V.opened BY <1>0 DEF Way
<1>2. j.own => m.held /\ m.remote = IF j.kind = "start" THEN 0 ELSE j.target
  BY DEF Way
<1>3. served => /\ j.target # 0 /\ j.target \in RemoteIds
                /\ V.remote[j.target].drive = j.session
                /\ V.remote[j.target].ended = W.remote[j.target].ended
                /\ V.remote[j.target].laps = W.remote[j.target].laps
  BY <1>0, RemoteIdsAre DEF Way, Calm
<1>4. j.kind = "lap" => j.lap \in LapIds /\ j.lap \in Nat /\ j.lap <= W.finished /\ j.lap <= V.finished
  <2>1. j.kind = "lap" => j.lap <= W.finished /\ j.lap # 0 BY DEF Way, Job
  <2> QED BY <1>0, <2>1, BoundsAssumption DEF LapIds
<1>5. j.kind = "end" => j.session # V.open
  <2>1. j.kind = "end" => j.session # W.open /\ j.session <= W.opened BY DEF Way
  <2>2. V.open \in Nat /\ (V.open \in {0, W.open} \/ V.open > W.opened) BY DEF Calm, Grows
  <2> QED BY <1>0, <2>1, <2>2
<1>6. j.at # "answered" => Timely(j, m, f, V)
  <2> SUFFICES ASSUME j.at # "answered" PROVE Timely(j, m, f, V) OBVIOUS
  <2>1. Timely(j, r, q, W) BY DEF Way
  <2>2. ASSUME j.kind \in {"lap", "end"} PROVE ~Overtakes(j, m, V) /\ ~Overtakes(j, f, V)
    <3>1. ~Overtakes(j, r, W) /\ ~Overtakes(j, q, W) BY <2>1, <2>2 DEF Timely
    <3>2. j.target # 0 BY <1>3, <2>2
    <3>3. j.kind = "end" => j.session # W.open BY DEF Way
    <3>4. ~Overtakes(j, m, V) BY <1>4, <2>2, <3>1, <3>2, <3>3, NothingOvertaken
    <3>5. ~Overtakes(j, f, V) BY <1>4, <2>2, <3>1, <3>2, <3>3, NothingOvertaken
    <3> QED BY <3>4, <3>5
  <2>3. ASSUME j.kind = "lap", Untold(j.lap, j.session, j.target, V)
        PROVE  Opens(j.target, j.lap, V)
    <3>1. Untold(j.lap, j.session, j.target, W) BY <1>0, <1>4, <2>3, UntoldStays
    <3>2. Opens(j.target, j.lap, W) BY <2>1, <2>3, <3>1 DEF Timely
    <3> QED BY <1>0, <3>2, OpensStays
  <2>4. j.kind = "analysis" => V.remote[j.target].ended BY <1>3, <2>1 DEF Timely
  <2> QED BY <2>2, <2>3, <2>4 DEF Timely
<1>7. j.at = "sent" /\ j.kind = "lap" => Faithful(j, V)
  <2> SUFFICES ASSUME j.at = "sent", j.kind = "lap" PROVE Faithful(j, V) OBVIOUS
  <2>1. Faithful(j, W) BY DEF Way
  <2>2. j.doc.lap \in Nat
    <3>1. j.doc \in Lap BY DEF Job, JobFields
    <3> QED BY <3>1 DEF Lap
  <2>3. j.lap <= j.doc.lap /\ j.doc.lap <= V.finished BY <1>0, <2>1, <2>2 DEF Faithful
  <2>4. ASSUME NEW l \in LapIds, l > j.lap, V.rows[l].lap # 0
        PROVE  V.rows[l].lap > j.doc.lap
    <3>1. /\ V.rows[l].lap \in Nat
          /\ V.rows[l].lap = W.rows[l].lap \/ V.rows[l].lap > W.finished
      BY <2>4 DEF Calm
    <3>2. CASE V.rows[l].lap = W.rows[l].lap BY <2>1, <2>4, <3>2 DEF Faithful
    <3>3. CASE V.rows[l].lap > W.finished
      <4>1. j.doc.lap <= W.finished BY <2>1 DEF Faithful
      <4> QED BY <1>0, <2>2, <3>1, <3>3, <4>1
    <3> QED BY <3>1, <3>2, <3>3
  <2>5. ASSUME V.rows[j.lap].lap = j.lap
        PROVE  j.doc.lap = j.lap /\ j.doc.session = V.rows[j.lap].session
    <3>1. ~(j.lap > W.finished) BY <1>0, <1>4
    <3>2. W.rows[j.lap].lap = j.lap /\ W.rows[j.lap].session = V.rows[j.lap].session
      BY <1>4, <2>5, <3>1 DEF Calm, Grows
    <3> QED BY <2>1, <3>2 DEF Faithful
  <2> QED BY <2>3, <2>4, <2>5 DEF Faithful
<1>8. j.at = "answered" /\ j.reply = "ok" => Arrived(j, V)
  <2> SUFFICES ASSUME j.at = "answered", j.reply = "ok" PROVE Arrived(j, V) OBVIOUS
  <2>1. Arrived(j, W) BY DEF Way
  <2>2. j.kind = "lap" => ~Untold(j.lap, j.session, j.target, V)
    BY <1>0, <1>4, <2>1, UntoldStays DEF Arrived
  <2> QED BY <1>3, <2>1, <2>2 DEF Arrived
<1> QED BY <1>1, <1>2, <1>3, <1>4, <1>5, <1>6, <1>7, <1>8 DEF Way

\* A worker whose record has gone is on its way for nobody.
LEMMA WayDisowned ==
    ASSUME NEW W, NEW j \in Job, NEW r, NEW q, Way(j, r, q, W)
    PROVE  Way([j EXCEPT !.own = FALSE], r, q, W)
<1> DEFINE k == [j EXCEPT !.own = FALSE]
<1>1. /\ k.own = FALSE /\ k.kind = j.kind /\ k.at = j.at /\ k.session = j.session
      /\ k.lap = j.lap /\ k.target = j.target /\ k.doc = j.doc /\ k.reply = j.reply
  BY DEF Job, JobFields
<1> HIDE DEF k
<1>2. \A x : Overtakes(k, x, W) <=> Overtakes(j, x, W) BY <1>1 DEF Overtakes
<1>3. Timely(k, r, q, W) <=> Timely(j, r, q, W) BY <1>1, <1>2 DEF Timely
<1>4. Faithful(k, W) <=> Faithful(j, W) BY <1>1 DEF Faithful
<1>5. Arrived(k, W) <=> Arrived(j, W) BY <1>1 DEF Arrived
<1> QED BY <1>1, <1>3, <1>4, <1>5 DEF Way, k

-----------------------------------------------------------------------------
(* A record in the hands of the operators that change it, and its order.   *)

LEMMA EmptyInLine ==
    ASSUME NEW W, NEW s PROVE InLine(NoRecord, s, W) /\ InLine(NewRecord, s, W)
<1>1. ASSUME NEW r \in {NoRecord, NewRecord} PROVE InLine(r, s, W)
  <2>1. /\ r.remote = 0 /\ ~r.ended /\ ~r.analysisPending /\ ~r.endPending
        /\ r.queue = <<>> /\ r.laps = [l \in LapIds |-> "none"]
    <3>1. CASE r = NoRecord BY <3>1 DEF NoRecord
    <3>2. CASE r = NewRecord BY <3>2 DEF NoRecord, NewRecord
    <3> QED BY <3>1, <3>2
  <2> QED BY <2>1, EmptyLeft DEF InLine
<1> QED BY <1>1

\* A record that holds no more than one that is in order.
LEMMA LessInLine ==
    ASSUME NEW W, NEW s, NEW r, InLine(r, s, W), NEW n, n.remote = r.remote,
           Left(n.queue, r.queue),
           \A l \in LapIds : n.laps[l] = "synced" => r.laps[l] = "synced",
           n.endPending => r.endPending,
           ~n.closed => /\ ~r.closed /\ (r.endPending => n.endPending)
                        /\ n.ended \/ n.analysisPending => r.ended \/ r.analysisPending
    PROVE  InLine(n, s, W)
<1>1. ASSUME NEW l \in ToSet(n.queue)
      PROVE  /\ l <= W.finished
             /\ Untold(l, s, n.remote, W) =>
                   Opens(n.remote, l, W) /\ \A k : Ahead(n.queue, k, l) => k < l
  <2>1. l \in ToSet(r.queue) BY DEF Left
  <2>2. /\ l <= W.finished
        /\ Untold(l, s, r.remote, W) =>
              Opens(r.remote, l, W) /\ \A k : Ahead(r.queue, k, l) => k < l
    BY <2>1 DEF InLine
  <2> QED BY <2>2 DEF Left
<1> QED BY <1>1 DEF InLine

LEMMA SettledInLine ==
    ASSUME NEW W, NEW s, NEW r \in Record, InLine(r, s, W), NEW status
    PROVE  InLine(Settled(r, status), s, W)
<1> DEFINE n == Settled(r, status)
<1>1. /\ n.remote = r.remote /\ n.closed = r.closed /\ n.laps = r.laps
      /\ n.queue = r.queue /\ n.endPending = r.endPending /\ n.ended = r.ended
      /\ n.analysisPending = FALSE
  BY DEF Settled, Record
<1> HIDE DEF n
<1> QED BY <1>1, LeftOfItself, LessInLine DEF n

\* The circuit: nothing the order is about.
LEMMA NamedInLine ==
    ASSUME NEW W, NEW s, NEW r \in Record, InLine(r, s, W)
    PROVE  /\ InLine([r EXCEPT !.trackPending = FALSE], s, W)
           /\ InLine([r EXCEPT !.trackPending = FALSE, !.trackError = TRUE], s, W)
<1>1. ASSUME NEW n \in {[r EXCEPT !.trackPending = FALSE],
                        [r EXCEPT !.trackPending = FALSE, !.trackError = TRUE]}
      PROVE  InLine(n, s, W)
  <2>1. /\ n.remote = r.remote /\ n.closed = r.closed /\ n.laps = r.laps
        /\ n.queue = r.queue /\ n.endPending = r.endPending /\ n.ended = r.ended
        /\ n.analysisPending = r.analysisPending
    BY DEF Record
  <2> QED BY <2>1, LeftOfItself, LessInLine
<1> QED BY <1>1

LEMMA ClosedInLine ==
    ASSUME NEW W, NEW s, NEW r \in Record, InLine(r, s, W) PROVE InLine(Closed(r), s, W)
<1> DEFINE n == Closed(r)
<1>1. /\ n.remote = r.remote /\ n.closed = TRUE /\ n.laps = r.laps
      /\ n.queue = <<>> /\ n.endPending = FALSE
  BY DEF Closed, Record
<1> HIDE DEF n
<1> QED BY <1>1, EmptyLeft, LessInLine DEF n

LEMMA LeftInLine ==
    ASSUME NEW W, NEW s, NEW r \in Record, InLine(r, s, W), NEW q, Left(q, r.queue)
    PROVE  InLine([r EXCEPT !.queue = q], s, W)
<1> DEFINE n == [r EXCEPT !.queue = q]
<1>1. /\ n.remote = r.remote /\ n.closed = r.closed /\ n.laps = r.laps
      /\ n.queue = q /\ n.endPending = r.endPending /\ n.ended = r.ended
      /\ n.analysisPending = r.analysisPending
  BY DEF Record
<1> HIDE DEF n
<1> QED BY <1>1, LessInLine DEF n

\* A lap is dealt with: what is noted as synced, the service has.
LEMMA ResolvedInLine ==
    ASSUME NEW W, NEW s, NEW r \in Record, InLine(r, s, W), NEW l \in LapIds,
           NEW q, Left(q, r.queue), NEW v,
           v = "synced" => l <= W.finished /\ ~Untold(l, s, r.remote, W)
    PROVE  InLine([r EXCEPT !.queue = q, !.laps[l] = v], s, W)
<1> DEFINE m == [r EXCEPT !.queue = q]
           n == [r EXCEPT !.queue = q, !.laps[l] = v]
<1>1. /\ n.remote = m.remote /\ n.closed = m.closed /\ n.laps = [m.laps EXCEPT ![l] = v]
      /\ n.queue = m.queue /\ n.endPending = m.endPending /\ n.ended = m.ended
      /\ n.analysisPending = m.analysisPending /\ m.remote = r.remote
      /\ m.laps = r.laps
  BY DEF Record
<1>2. \A k \in LapIds : n.laps[k] = IF k = l THEN v ELSE m.laps[k]
  BY <1>1 DEF Record
<1>3. InLine(m, s, W) BY LeftInLine
<1> HIDE DEF n, m
<1>4. \A k \in LapIds : n.laps[k] = "synced" => k <= W.finished /\ ~Untold(k, s, n.remote, W)
  <2> SUFFICES ASSUME NEW k \in LapIds, n.laps[k] = "synced"
               PROVE  k <= W.finished /\ ~Untold(k, s, n.remote, W)
    OBVIOUS
  <2>1. CASE k = l BY <1>1, <1>2, <2>1
  <2>2. CASE k # l
    <3>1. m.laps[k] = "synced" BY <1>2, <2>2
    <3> QED BY <1>1, <1>3, <3>1 DEF InLine
  <2> QED BY <2>1, <2>2
<1> QED BY <1>1, <1>3, <1>4 DEF InLine, n

LEMMA EndedInLine ==
    ASSUME NEW W, NEW s, NEW r \in Record, InLine(r, s, W), s # W.open, s <= W.opened
    PROVE  InLine(EndedRecord(r), s, W)
<1> DEFINE n == [r EXCEPT !.endPending = TRUE, !.analysisPending = TRUE, !.ended = TRUE]
<1>1. /\ n.remote = r.remote /\ n.closed = r.closed /\ n.laps = r.laps
      /\ n.queue = r.queue /\ n.endPending = TRUE
  BY DEF Record
<1>2. EndedRecord(r) \in {n, NoRecord} BY DEF EndedRecord
<1> HIDE DEF n
<1>3. InLine(n, s, W) BY <1>1 DEF InLine
<1> QED BY <1>2, <1>3, EmptyInLine

\* A lap that has just been driven.
LEMMA WithLapInLine ==
    ASSUME NEW W, NEW s, NEW r \in Record, InLine(r, s, W),
           NEW l \in LapIds, l <= W.finished, NEW known,
           Untold(l, s, r.remote, W) =>
              Opens(r.remote, l, W) /\ \A k \in ToSet(r.queue) : k < l \/ k = l
    PROVE  InLine(WithLap(r, l, known), s, W)
<1> DEFINE n == WithLap(r, l, known)
           q == IF l \in ToSet(r.queue) THEN r.queue ELSE Append(r.queue, l)
<1>1. /\ n.remote = r.remote /\ n.closed = r.closed /\ n.laps = r.laps
      /\ n.queue = q /\ n.endPending = r.endPending /\ n.ended = r.ended
      /\ n.analysisPending = r.analysisPending
  BY DEF WithLap, Record
<1> HIDE DEF n
<1>2. CASE l \in ToSet(r.queue)
  BY <1>1, <1>2, LeftOfItself, LessInLine DEF n
<1>3. CASE l \notin ToSet(r.queue)
  <2>1. q = Append(r.queue, l) /\ r.queue \in Queues BY <1>3 DEF Record
  <2>2. ToSet(q) = ToSet(r.queue) \cup {l} BY <2>1, AppendKeeps
  <2>3. \A a, b : Ahead(q, a, b) => Ahead(r.queue, a, b) \/ (a \in ToSet(r.queue) /\ b = l)
    BY <2>1, AppendWaits
  <2>4. \A b : \A a : Ahead(r.queue, a, b) => b \in ToSet(r.queue) /\ a \in ToSet(r.queue)
    BY DEF Ahead, ToSet
  <2> HIDE DEF q
  <2>5. ASSUME NEW k \in ToSet(q)
        PROVE  /\ k <= W.finished
               /\ Untold(k, s, n.remote, W) =>
                     Opens(n.remote, k, W) /\ \A a : Ahead(q, a, k) => a < k
    <3>1. CASE k = l
      <4>1. ASSUME Untold(l, s, r.remote, W), NEW a, Ahead(q, a, l) PROVE a < l
        <5>1. a \in ToSet(r.queue) BY <2>3, <2>4, <4>1
        <5>2. a # l BY <1>3, <5>1
        <5> QED BY <4>1, <5>1, <5>2
      <4> QED BY <1>1, <3>1, <4>1
    <3>2. CASE k # l
      <4>1. k \in ToSet(r.queue) BY <2>2, <3>2
      <4>2. \A a : Ahead(q, a, k) => Ahead(r.queue, a, k) BY <2>3, <3>2
      <4> QED BY <1>1, <4>1, <4>2 DEF InLine
    <3> QED BY <3>1, <3>2
  <2> QED BY <1>1, <2>5 DEF InLine, n
<1> QED BY <1>2, <1>3

\* lap_changed queues again only what the record notes as sent.
LEMMA AgainInLine ==
    ASSUME NEW W, NEW s, NEW r \in Record, InLine(r, s, W), NEW l \in LapIds,
           NEW q, q = r.queue \/ (q = Append(r.queue, l) /\ r.laps[l] = "synced"),
           NEW a, a => r.analysisPending \/ r.ended
    PROVE  InLine([r EXCEPT !.analysisPending = a, !.queue = q], s, W)
<1> DEFINE n == [r EXCEPT !.analysisPending = a, !.queue = q]
<1>1. /\ n.remote = r.remote /\ n.closed = r.closed /\ n.laps = r.laps
      /\ n.queue = q /\ n.endPending = r.endPending /\ n.ended = r.ended
      /\ n.analysisPending = a
  BY DEF Record
<1> HIDE DEF n
<1>2. ASSUME NEW k \in ToSet(q)
      PROVE  /\ k <= W.finished
             /\ Untold(k, s, r.remote, W) =>
                   Opens(r.remote, k, W) /\ \A b : Ahead(q, b, k) => b < k
  <2>1. CASE q = r.queue BY <2>1 DEF InLine
  <2>2. CASE q = Append(r.queue, l) /\ r.laps[l] = "synced"
    <3>1. r.queue \in Queues BY DEF Record
    <3>2. ToSet(q) = ToSet(r.queue) \cup {l} BY <2>2, <3>1, AppendKeeps
    <3>3. \A b : Ahead(q, b, k) => Ahead(r.queue, b, k) \/ k = l
      BY <2>2, <3>1, AppendWaits
    <3>4. l <= W.finished /\ ~Untold(l, s, r.remote, W) BY <2>2 DEF InLine
    <3>5. CASE k = l BY <3>4, <3>5
    <3>6. CASE k # l
      <4>1. k \in ToSet(r.queue) /\ \A b : Ahead(q, b, k) => Ahead(r.queue, b, k)
        BY <3>2, <3>3, <3>6
      <4> QED BY <4>1 DEF InLine
    <3> QED BY <3>5, <3>6
  <2> QED BY <2>1, <2>2
<1>3. ~n.closed /\ (n.ended \/ n.analysisPending) =>
          n.endPending \/ (n.remote # 0 /\ W.remote[n.remote].ended)
  BY <1>1 DEF InLine
<1> QED BY <1>1, <1>2, <1>3 DEF InLine, n

\* The service has opened a session, and been told nothing yet.
LEMMA OpenedInLine ==
    ASSUME NEW W, NEW s, NEW r \in Record, InLine(r, s, W), r.remote = 0,
           NEW t, t # 0, W.remote[t].drive = s, W.remote[t].laps = {},
           ~W.remote[t].ended, NEW named
    PROVE  InLine(OpenedAs(r, t, named), s, W)
<1> DEFINE n == OpenedAs(r, t, named)
<1>1. /\ n.remote = t /\ n.closed = r.closed /\ n.laps = r.laps
      /\ n.queue = r.queue /\ n.endPending = r.endPending /\ n.ended = r.ended
      /\ n.analysisPending = r.analysisPending
  BY DEF OpenedAs, Record
<1> HIDE DEF n
<1>2. \A l : Untold(l, s, t, W) <=> Untold(l, s, 0, W) BY DEF Untold, Told
<1>3. \A l : Opens(t, l, W) BY DEF Opens, Told
<1>4. ASSUME NEW l \in ToSet(n.queue)
      PROVE  /\ l <= W.finished
             /\ Untold(l, s, n.remote, W) =>
                   Opens(n.remote, l, W) /\ \A k : Ahead(n.queue, k, l) => k < l
  BY <1>1, <1>2, <1>3 DEF InLine
<1>5. \A l \in LapIds : n.laps[l] = "synced" => l <= W.finished /\ ~Untold(l, s, n.remote, W)
  BY <1>1, <1>2 DEF InLine
<1>6. ~n.closed /\ (n.ended \/ n.analysisPending) => n.endPending
  BY <1>1 DEF InLine
<1>7. n.endPending => s # W.open /\ s <= W.opened BY <1>1 DEF InLine
<1> QED BY <1>1, <1>4, <1>5, <1>6, <1>7 DEF InLine, n

\* The totals have arrived.
LEMMA TotalledInLine ==
    ASSUME NEW W, NEW s, NEW r \in Record, InLine(r, s, W), r.remote # 0,
           W.remote[r.remote].ended
    PROVE  InLine([r EXCEPT !.endPending = FALSE, !.trackPending = FALSE], s, W)
<1> DEFINE n == [r EXCEPT !.endPending = FALSE, !.trackPending = FALSE]
<1>1. /\ n.remote = r.remote /\ n.laps = r.laps /\ n.queue = r.queue
      /\ n.endPending = FALSE
  BY DEF Record
<1> HIDE DEF n
<1> QED BY <1>1 DEF InLine, n

-----------------------------------------------------------------------------
(* The rows and the service from step to step.                             *)

LEMMA RowsMove ==
    ASSUME TypeOK, [Next]_vars
    PROVE  \/ finished' = finished /\ \A k \in LapIds : rows'[k].lap \in {0, rows[k].lap}
           \/ \E l \in LapIds : LapSaved(l)
<1>0. rows \in [LapIds -> Lap \cup {NoLap}] BY Types
<1>1. CASE UNCHANGED <<rows, finished>> BY <1>1
<1>2. CASE \E l \in LapIds : LapSaved(l) BY <1>2
<1>3. ASSUME NEW l \in LapIds, RulingCommitted(l)
      PROVE  finished' = finished /\ \A k \in LapIds : rows'[k].lap \in {0, rows[k].lap}
  <2>1. /\ finished' = finished
        /\ rows' = [rows EXCEPT ![l] = [rows[l] EXCEPT !.ver = rulings + 1]]
    BY <1>3 DEF RulingCommitted
  <2> DEFINE d == [rows[l] EXCEPT !.ver = rulings + 1]
  <2>2. d.lap = rows[l].lap BY <1>0 DEF Lap, NoLap
  <2> HIDE DEF d
  <2> QED BY <1>0, <2>1, <2>2 DEF d
<1>4. CASE AllCleared \/ (\E l \in LapIds : LapDeleted(l)) \/ \E s \in Sessions : SessionDeleted(s)
  <2>1. finished' = finished BY <1>4 DEF AllCleared, LapDeleted, SessionDeleted
  <2>2. \A k \in LapIds : rows'[k] \in {rows[k], NoLap}
    BY <1>0, <1>4 DEF AllCleared, LapDeleted, SessionDeleted
  <2>3. NoLap.lap = 0 BY DEF NoLap
  <2> HIDE DEF NoLap
  <2> QED BY <2>1, <2>2, <2>3
<1>5. CASE SessionStarted \/ (\E l \in LapIds, s \in Sessions : LapChanged(l, s))
  BY <1>1, <1>5 DEF SessionStarted, LapChanged
<1>6. CASE ~Recorder
  <2>1. UNCHANGED <<rows, finished>>
    BY <1>6 DEF Next, Worker, WorkerStops, WorkerIdles, PushNext, LapLoaded, TotalsLoaded,
         AnalysisLoaded, Accepted, Refused, HeldBack, SwitchedOffByService, Unwinds,
         Client, SwitchedOn, SwitchedOff, BringUpAsks, BringUpActs, ConnectionTested,
         PushPressed, ConnectionChanged, ConnectionReset, Restarted, Crashed, Started,
         Service, ServiceTakes, ServiceDeclines, SessionExpires, OfferChanges,
         BackoffOver, vars, dbVars
  <2> QED BY <1>1, <2>1
<1> QED BY <1>2, <1>3, <1>4, <1>5, <1>6 DEF Recorder

\* A lap is numbered above all before it and stored below none.
LEMMA SavedLap ==
    ASSUME TypeOK, Ascending(World), NEW l \in LapIds, LapSaved(l)
    PROVE  /\ finished' = finished + 1 /\ finished \in Nat
           /\ \A k \in LapIds : rows'[k].lap = IF k = l THEN finished + 1 ELSE rows[k].lap
           /\ l <= finished + 1
           /\ \A k \in LapIds : rows[k].lap # 0 => k < l
<1>0. finished \in Nat /\ rows \in [LapIds -> Lap \cup {NoLap}] BY NumbersType, Types
<1>1. /\ finished' = finished + 1 /\ NextLapId(l)
      /\ rows' = [rows EXCEPT ![l] = [session |-> open, lap |-> finished + 1, ver |-> 0]]
  BY DEF LapSaved
<1>2. \A k \in LapIds : rows'[k].lap = IF k = l THEN finished + 1 ELSE rows[k].lap
  BY <1>0, <1>1
<1>3. \A k \in LapIds : rows[k].lap # 0 <=> k \in Stored
  <2>1. NoLap.lap = 0 /\ \A d \in Lap : d.lap # 0 BY DEF NoLap, Lap
  <2> HIDE DEF NoLap, Lap
  <2> QED BY <1>0, <2>1 DEF Stored
<1>4. l <= finished + 1
  <2>1. l = 1 \/ l - 1 \in Stored BY <1>1 DEF NextLapId
  <2>2. l - 1 \in Stored => l - 1 <= finished
    <3> SUFFICES ASSUME l - 1 \in Stored PROVE l - 1 <= finished OBVIOUS
    <3>1. l - 1 \in LapIds /\ rows[l - 1].lap # 0 BY <1>3 DEF Stored
    <3>2. l - 1 <= rows[l - 1].lap /\ rows[l - 1].lap <= finished
      BY <3>1, WorldFields DEF Ascending
    <3>3. rows[l - 1].lap \in Nat
      <4>1. \A d \in Lap \cup {NoLap} : d.lap \in Nat BY DEF Lap, NoLap
      <4> QED BY <1>0, <3>1, <4>1
    <3> QED BY <1>0, <3>1, <3>2, <3>3 DEF LapIds
  <2> QED BY <1>0, <2>1, <2>2 DEF LapIds
<1>5. \A k \in LapIds : rows[k].lap # 0 => k < l BY <1>1, <1>3 DEF NextLapId
<1> QED BY <1>0, <1>1, <1>2, <1>4, <1>5

LEMMA RowLaps == ASSUME TypeOK, NEW l \in LapIds PROVE rows[l].lap \in Nat
<1>1. rows[l] \in Lap \cup {NoLap} BY Types
<1>2. \A d \in Lap \cup {NoLap} : d.lap \in Nat BY DEF Lap, NoLap
<1> QED BY <1>1, <1>2

LEMMA RowLapsNext == ASSUME TypeOK', NEW l \in LapIds PROVE rows'[l].lap \in Nat
<1>1. rows'[l] \in Lap \cup {NoLap} BY DEF TypeOK, DbTypeOK
<1>2. \A d \in Lap \cup {NoLap} : d.lap \in Nat BY DEF Lap, NoLap
<1> QED BY <1>1, <1>2

LEMMA AscendingStays ==
    ASSUME TypeOK, TypeOK', Ascending(World), [Next]_vars PROVE Ascending(World')
<1>0. finished \in Nat BY NumbersType
<1>1. CASE finished' = finished /\ \A k \in LapIds : rows'[k].lap \in {0, rows[k].lap}
  BY <1>1, WorldFields DEF Ascending
<1>2. ASSUME NEW l \in LapIds, LapSaved(l) PROVE Ascending(World')
  <2>1. /\ finished' = finished + 1
        /\ \A k \in LapIds : rows'[k].lap = IF k = l THEN finished + 1 ELSE rows[k].lap
        /\ l <= finished + 1
        /\ \A k \in LapIds : rows[k].lap # 0 => k < l
    BY <1>2, SavedLap
  <2>2. ASSUME NEW k \in LapIds, rows'[k].lap # 0
        PROVE  /\ k <= rows'[k].lap /\ rows'[k].lap <= finished'
               /\ \A i \in LapIds : i < k /\ rows'[i].lap # 0 => rows'[i].lap < rows'[k].lap
    <3>0. k \in Nat BY DEF LapIds
    <3>1. CASE k = l
      <4>1. rows'[k].lap = finished + 1 BY <2>1, <3>1
      <4>2. ASSUME NEW i \in LapIds, i < k, rows'[i].lap # 0
            PROVE  rows'[i].lap < rows'[k].lap
        <5>1. i # l BY <3>0, <3>1, <4>2 DEF LapIds
        <5>2. rows'[i].lap = rows[i].lap /\ rows[i].lap \in Nat BY <2>1, <5>1, RowLaps
        <5>3. rows[i].lap <= finished BY <4>2, <5>2, WorldFields DEF Ascending
        <5> QED BY <1>0, <4>1, <5>2, <5>3
      <4> QED BY <1>0, <2>1, <3>1, <4>1, <4>2
    <3>2. CASE k # l
      <4>1. rows'[k].lap = rows[k].lap /\ rows[k].lap # 0 /\ rows[k].lap \in Nat /\ k < l
        BY <2>1, <2>2, <3>2, RowLaps
      <4>2. /\ k <= rows[k].lap /\ rows[k].lap <= finished
            /\ \A i \in LapIds : i < k /\ rows[i].lap # 0 => rows[i].lap < rows[k].lap
        BY <4>1, WorldFields DEF Ascending
      <4>3. \A i \in LapIds : i < k => i # l BY <3>0, <4>1 DEF LapIds
      <4>4. \A i \in LapIds : i < k => rows'[i].lap = rows[i].lap BY <2>1, <4>3
      <4> QED BY <1>0, <2>1, <4>1, <4>2, <4>4
    <3> QED BY <3>1, <3>2
  <2> QED BY <2>2, WorldFields DEF Ascending
<1> QED BY <1>1, <1>2, RowsMove

\* Only the service's own step tells it anything.
LEMMA RemoteMoves ==
    ASSUME TypeOK, [Next]_vars, ~\E w \in Workers : ServiceTakes(w), NEW t \in RemoteIds
    PROVE  /\ remote'[t].drive = remote[t].drive
           /\ remote'[t].ended = remote[t].ended
           /\ remote'[t].laps = remote[t].laps
           /\ remote'[t].analysis = remote[t].analysis
<1>0. remote \in [RemoteIds -> RemoteSession] BY DEF TypeOK, ServerTypeOK
<1>1. CASE UNCHANGED remote BY <1>1
<1>2. CASE Service
  <2>1. ASSUME NEW r \in RemoteIds, SessionExpires(r)
        PROVE  /\ remote'[t].drive = remote[t].drive
               /\ remote'[t].ended = remote[t].ended
               /\ remote'[t].laps = remote[t].laps
               /\ remote'[t].analysis = remote[t].analysis
    <3>1. remote' = [remote EXCEPT ![r] = [remote[r] EXCEPT !.gone = TRUE]]
      BY <2>1 DEF SessionExpires
    <3> DEFINE h == [remote[r] EXCEPT !.gone = TRUE]
    <3>2. /\ h.drive = remote[r].drive /\ h.ended = remote[r].ended
          /\ h.laps = remote[r].laps /\ h.analysis = remote[r].analysis
      BY <1>0 DEF RemoteSession
    <3> HIDE DEF h
    <3>3. remote'[t] = IF t = r THEN h ELSE remote[t] BY <1>0, <3>1 DEF h
    <3> QED BY <3>2, <3>3
  <2>2. CASE OfferChanges \/ \E w \in Workers : ServiceDeclines(w)
    BY <1>1, <2>2 DEF OfferChanges, ServiceDeclines, serverVars
  <2> QED BY <1>2, <2>1, <2>2 DEF Service
<1>3. CASE ~Service
  <2>1. UNCHANGED remote
    BY <1>3 DEF Next, Worker, WorkerStops, WorkerIdles, PushNext, LapLoaded, TotalsLoaded,
         AnalysisLoaded, Accepted, Refused, HeldBack, SwitchedOffByService, Unwinds,
         Client, SwitchedOn, SwitchedOff, BringUpAsks, BringUpActs, ConnectionTested,
         PushPressed, ConnectionChanged, ConnectionReset, Restarted, Crashed, Started,
         Recorder, SessionStarted, AllCleared, LapSaved, RulingCommitted, LapDeleted,
         LapChanged, SessionDeleted, BackoffOver, vars, serverVars
  <2> QED BY <1>1, <2>1
<1> QED BY <1>2, <1>3

LEMMA StepCalm ==
    ASSUME TypeOK, TypeOK', Ascending(World), [Next]_vars, ~\E w \in Workers : ServiceTakes(w)
    PROVE  Calm(World, World')
<1>1. Grows(World, World') BY StepGrows
<1>2. \A t \in RemoteIds : /\ remote'[t].drive = remote[t].drive
                           /\ remote'[t].ended = remote[t].ended
                           /\ remote'[t].laps = remote[t].laps
  BY RemoteMoves
<1>3. ASSUME NEW l \in LapIds
      PROVE  /\ rows'[l].lap \in Nat
             /\ rows'[l].lap \in {0, rows[l].lap} \/ rows'[l].lap > finished
  <2>1. rows'[l].lap \in Nat BY RowLapsNext
  <2>2. ASSUME NEW k \in LapIds, LapSaved(k)
        PROVE  rows'[l].lap \in {0, rows[l].lap} \/ rows'[l].lap > finished
    <3>1. /\ rows'[l].lap = IF l = k THEN finished + 1 ELSE rows[l].lap
          /\ finished \in Nat
      BY <2>2, SavedLap
    <3> QED BY <3>1
  <2> QED BY <2>1, <2>2, RowsMove
<1> QED BY <1>1, <1>2, <1>3, WorldFields DEF Calm

\* What the service was told stays true of the drives.
LEMMA HeardStays ==
    ASSUME NEW W, NEW V, Calm(W, V), Heard(W), V.remote \in [RemoteIds -> RemoteSession]
    PROVE  Heard(V)
<1>1. /\ W.finished \in Nat /\ V.finished \in Nat /\ W.finished <= V.finished
      /\ W.opened \in Nat /\ V.opened \in Nat /\ W.opened <= V.opened
      /\ V.open \in Nat /\ (V.open \in {0, W.open} \/ V.open > W.opened)
  BY DEF Calm, Grows
<1>2. ASSUME NEW t \in RemoteIds
      PROVE  /\ V.remote[t].drive <= V.opened
             /\ \A d \in V.remote[t].laps : d.lap <= V.finished
             /\ V.remote[t].ended /\ V.remote[t].drive # 0 => V.remote[t].drive # V.open
  <2>1. /\ V.remote[t].drive = W.remote[t].drive
        /\ V.remote[t].ended = W.remote[t].ended
        /\ V.remote[t].laps = W.remote[t].laps
    BY DEF Calm
  <2>2. /\ V.remote[t].drive \in Nat
        /\ \A d \in V.remote[t].laps : d.lap \in Nat
    BY BoundsAssumption DEF RemoteSession, Lap
  <2>3. /\ W.remote[t].drive <= W.opened
        /\ \A d \in W.remote[t].laps : d.lap <= W.finished
        /\ W.remote[t].ended /\ W.remote[t].drive # 0 => W.remote[t].drive # W.open
    BY DEF Heard
  <2>4. V.remote[t].drive <= V.opened BY <1>1, <2>1, <2>2, <2>3
  <2>5. ASSUME NEW d \in V.remote[t].laps PROVE d.lap <= V.finished
    <3>1. d.lap <= W.finished /\ d.lap \in Nat BY <2>1, <2>2, <2>3
    <3> QED BY <1>1, <3>1
  <2>6. V.remote[t].ended /\ V.remote[t].drive # 0 => V.remote[t].drive # V.open
    BY <1>1, <2>1, <2>2, <2>3
  <2> QED BY <2>4, <2>5, <2>6
<1> QED BY <1>2 DEF Heard

-----------------------------------------------------------------------------
(* The invariant under the operators the steps are made of.                *)

LEMMA InOrderStays ==
    ASSUME NEW W, NEW V, Calm(W, V), NEW rs \in [Sessions -> Record], InOrder(rs, W)
    PROVE  InOrder(rs, V)
BY InLineStays DEF InOrder

LEMMA LessSucceeds ==
    ASSUME NEW W, NEW s, NEW r, InLine(r, s, W), NEW q, q.remote \in {0, r.remote},
           q.remote # 0 => ToSet(q.queue) \subseteq ToSet(r.queue)
    PROVE  Succeeds(q, r, s, W)
BY DEF Succeeds, InLine

\* The record q takes the place of session s's, in memory or in the file.
Sequel(q, s) ==
    /\ InLine(q, s, World')
    /\ Succeeds(q, rec[s], s, World) \/ Succeeds(q, disk.recs[s], s, World)

LEMMA SameSequel ==
    ASSUME TypeOK, Lines, Calm(World, World'), NEW s \in Sessions
    PROVE  /\ Sequel(rec[s], s) /\ Sequel(disk.recs[s], s)
           /\ Sequel(NoRecord, s) /\ Sequel(NewRecord, s)
<1>1. rec[s] \in Record /\ disk.recs[s] \in Record BY Types
<1>2. InLine(rec[s], s, World) /\ InLine(disk.recs[s], s, World) BY DEF Lines, InOrder
<1>3. InLine(rec[s], s, World') /\ InLine(disk.recs[s], s, World')
  BY <1>1, <1>2, InLineStays
<1>4. /\ Succeeds(rec[s], rec[s], s, World)
      /\ Succeeds(disk.recs[s], disk.recs[s], s, World)
  BY <1>2, LessSucceeds
<1>5. NoRecord.remote = 0 /\ NewRecord.remote = 0 BY DEF NoRecord, NewRecord
<1>6. Succeeds(NoRecord, rec[s], s, World) /\ Succeeds(NewRecord, rec[s], s, World)
  BY <1>5 DEF Succeeds
<1> QED BY <1>3, <1>4, <1>6, EmptyInLine DEF Sequel

\* A worker goes on, has lost its record, or is through.
Going(w) == job'[w] \in {job[w], [job[w] EXCEPT !.own = FALSE]} \/ ~InFlight(job'[w])

\* The record q is there and names the session r named.
KeepsPlace(r, q) == r.held => q.held /\ q.remote = r.remote

LEMMA Onward ==
    ASSUME TypeOK, TypeOK', Ways, Calm(World, World'),
           \A s \in Sessions : Sequel(rec'[s], s) /\ Sequel(disk'.recs[s], s),
           \A w \in Workers : Going(w),
           \A w \in Workers : InFlight(job[w]) /\ job[w].own /\ job[w].session \in Sessions
                                 /\ job'[w] = job[w] =>
              KeepsPlace(rec[job[w].session], rec'[job[w].session])
    PROVE  Lines' /\ Ways'
<1>1. Lines'
  <2>1. \A s \in Sessions : InLine(rec'[s], s, World') /\ InLine(disk'.recs[s], s, World')
    BY DEF Sequel
  <2> QED BY <2>1 DEF Lines, InOrder
<1>2. ASSUME NEW w \in Workers PROVE OnTime(w)'
  <2> SUFFICES ASSUME InFlight(job'[w])
               PROVE  /\ job'[w].session # 0
                      /\ Way(job'[w], rec'[job'[w].session], disk'.recs[job'[w].session], World')
    BY DEF OnTime
  <2> DEFINE k == [job[w] EXCEPT !.own = FALSE]
  <2>1. PICK j : j = job[w] OBVIOUS
  <2>2. j \in Job /\ k \in Job /\ k.at = j.at /\ k.session = j.session /\ k.own = FALSE
    <3>1. j \in Job BY <2>1, Types
    <3> QED BY <2>1, <3>1 DEF Job, JobFields
  <2> HIDE DEF k
  <2>3. job'[w] \in {j, k} BY <2>1 DEF Going, k
  <2>4. InFlight(j) /\ InFlight(k) BY <2>2, <2>3 DEF InFlight
  <2>5. PICK s : s = j.session OBVIOUS
  <2>6. s # 0 /\ s \in Sessions /\ Way(j, rec[s], disk.recs[s], World)
    <3>1. OnTime(w) BY DEF Ways
    <3>2. s # 0 /\ Way(j, rec[s], disk.recs[s], World) BY <2>1, <2>4, <2>5, <3>1 DEF OnTime
    <3> QED BY <2>2, <2>5, <3>2 DEF Job, JobFields
  <2>7. Way(k, rec[s], disk.recs[s], World) BY <2>1, <2>2, <2>6, WayDisowned DEF k
  <2>8. /\ rec'[s] \in Record /\ disk'.recs[s] \in Record
        /\ Succeeds(rec'[s], rec[s], s, World) \/ Succeeds(rec'[s], disk.recs[s], s, World)
        /\ Succeeds(disk'.recs[s], rec[s], s, World)
              \/ Succeeds(disk'.recs[s], disk.recs[s], s, World)
    <3>1. rec' \in [Sessions -> Record] /\ disk' \in [url: Urls, recs: [Sessions -> Record]]
      BY DEF TypeOK, AdapterTypeOK
    <3> QED BY <2>6, <3>1 DEF Sequel
  <2>9. CASE job'[w] = j
    <3>1. j.own => KeepsPlace(rec[s], rec'[s]) BY <2>1, <2>4, <2>5, <2>6, <2>9
    <3>2. Way(j, rec'[s], disk'.recs[s], World')
      BY <2>2, <2>4, <2>5, <2>6, <2>8, <3>1, WayStays DEF KeepsPlace
    <3> QED BY <2>5, <2>6, <2>9, <3>2
  <2>10. CASE job'[w] = k
    <3>1. Way(k, rec'[s], disk'.recs[s], World')
      BY <2>2, <2>4, <2>5, <2>6, <2>7, <2>8, WayStays
    <3> QED BY <2>2, <2>5, <2>6, <2>10, <3>1
  <2> QED BY <2>3, <2>9, <2>10
<1> QED BY <1>1, <1>2 DEF Ways

\* The file is written with the records the step leaves, or not at all.
LEMMA WrittenSequel ==
    ASSUME TypeOK, Lines, Calm(World, World'), NEW s \in Sessions,
           Sequel(rec'[s], s), disk' = disk \/ Write(rec')
    PROVE  Sequel(disk'.recs[s], s)
<1>1. disk'.recs = disk.recs \/ disk'.recs = rec' BY DEF Write
<1> QED BY <1>1, SameSequel

LEMMA StandsInLine ==
    ASSUME TypeOK, TypeOK', Lines, Ways, Calm(World, World'), UNCHANGED <<rec, disk>>,
           \A w \in Workers : Going(w)
    PROVE  Lines' /\ Ways'
<1>1. \A s \in Sessions : Sequel(rec'[s], s) /\ Sequel(disk'.recs[s], s) BY SameSequel
<1>2. \A r : KeepsPlace(r, r) BY DEF KeepsPlace
<1> QED BY <1>1, <1>2, Onward

\* The session that was open is over, in memory or in the file of the next start.
LEMMA ClosedSequel ==
    ASSUME TypeOK, Lines, Calm(World, World'), open = 0 \/ open' # open, NEW s \in Sessions
    PROVE  Sequel(ClosePrevious[s], s)
<1>1. CASE ClosePrevious[s] \in {rec[s], NoRecord} BY <1>1, SameSequel
<1>2. CASE s = open /\ ClosePrevious[s] = EndedRecord(rec[s])
  <2>1. rec[s] \in Record BY Types
  <2>2. InLine(rec[s], s, World) BY DEF Lines, InOrder
  <2>3. InLine(rec[s], s, World') BY <2>1, <2>2, InLineStays
  <2>4. s # World'.open /\ s <= World'.opened
    <3>1. open # 0 BY <1>2, BoundsAssumption DEF Sessions
    <3>2. /\ World.opened \in Nat /\ World'.opened \in Nat /\ World.opened <= World'.opened
      BY DEF Calm, Grows
    <3>3. open \in Nat /\ open <= opened BY NumbersType
    <3> QED BY <1>2, <3>1, <3>2, <3>3, WorldFields
  <2>5. InLine(EndedRecord(rec[s]), s, World') BY <2>1, <2>3, <2>4, EndedInLine
  <2>6. /\ EndedRecord(rec[s]).remote \in {0, rec[s].remote}
        /\ EndedRecord(rec[s]).remote # 0 => EndedRecord(rec[s]).queue = rec[s].queue
    <3> DEFINE n == [rec[s] EXCEPT !.endPending = TRUE, !.analysisPending = TRUE, !.ended = TRUE]
    <3>1. n.remote = rec[s].remote /\ n.queue = rec[s].queue BY <2>1 DEF Record
    <3>2. NoRecord.remote = 0 BY DEF NoRecord
    <3>3. EndedRecord(rec[s]) \in {n, NoRecord} BY DEF EndedRecord
    <3> HIDE DEF n
    <3> QED BY <3>1, <3>2, <3>3
  <2>7. Succeeds(EndedRecord(rec[s]), rec[s], s, World) BY <2>2, <2>6, LessSucceeds
  <2> QED BY <1>2, <2>5, <2>7 DEF Sequel
<1> QED BY <1>1, <1>2, Closings

-----------------------------------------------------------------------------
(* The recorder and the client.                                            *)

LEMMA SessionStartedInLine ==
    ASSUME TypeOK, TypeOK', Fresh, Lines, Ways, Calm(World, World'), SessionStarted
    PROVE  Lines' /\ Ways'
<1> DEFINE gone == {s \in Sessions : rec[s].held /\ ~ClosePrevious[s].held}
<1>1. /\ opened' = opened + 1 /\ open' = opened + 1 /\ opened < MaxSession
      /\ rec' = [ClosePrevious EXCEPT ![opened + 1] = NewRecord]
      /\ disk' = disk \/ Write(ClosePrevious)
  BY DEF SessionStarted
<1>2. opened + 1 \in Sessions /\ open' # open
  <2>1. opened \in Nat /\ open \in Nat /\ open <= opened BY NumbersType
  <2> QED BY <1>1, <2>1, BoundsAssumption DEF Sessions
<1>3. ClosePrevious \in [Sessions -> Record] BY ClosingKeeps
<1>4. ASSUME NEW s \in Sessions PROVE Sequel(rec'[s], s) /\ Sequel(disk'.recs[s], s)
  <2>1. Sequel(ClosePrevious[s], s) BY <1>2, ClosedSequel
  <2>2. rec'[s] \in {ClosePrevious[s], NewRecord} BY <1>1, <1>3
  <2>3. disk'.recs = disk.recs \/ disk'.recs = ClosePrevious BY <1>1 DEF Write
  <2> QED BY <2>1, <2>2, <2>3, SameSequel
<1>5. \A w \in Workers : job'[w] = Disowned(gone)[w] \/ ~InFlight(job'[w])
  <2>1. \/ Kick(Disowned(gone))
        \/ job' = Disowned(gone) /\ UNCHANGED cancelled
    BY DEF SessionStarted
  <2>2. Disowned(gone) \in [Workers -> Job] BY DisownedType, Types
  <2> QED BY <2>1, <2>2, KickCarries
<1> HIDE DEF gone
<1>6. \A w \in Workers : Going(w) BY <1>5, DisownedCarries DEF Going
<1>7. ASSUME NEW w \in Workers, InFlight(job[w]), job[w].own, job[w].session \in Sessions,
             job'[w] = job[w]
      PROVE  KeepsPlace(rec[job[w].session], rec'[job[w].session])
  <2>1. PICK s \in Sessions : s = job[w].session BY <1>7
  <2>2. s # opened + 1
    <3>1. opened + 1 > opened BY NumbersType
    <3> QED BY <1>2, <2>1, <3>1 DEF Fresh
  <2>3. rec'[s] = ClosePrevious[s] BY <1>1, <1>3, <2>2
  <2>4. rec[s].held => ClosePrevious[s].held
    <3>1. s \notin gone BY <1>5, <1>7, <2>1, DisownedCarries
    <3> QED BY <3>1 DEF gone
  <2>5. ~NoRecord.held BY DEF NoRecord
  <2>6. rec[s] \in Record BY Types
  <2>7. CASE ClosePrevious[s] = EndedRecord(rec[s]) /\ rec[s].held
    <3> DEFINE n == [rec[s] EXCEPT !.endPending = TRUE, !.analysisPending = TRUE, !.ended = TRUE]
    <3>1. n.remote = rec[s].remote BY <2>6 DEF Record
    <3>2. EndedRecord(rec[s]) = n BY <2>4, <2>5, <2>7 DEF EndedRecord
    <3> HIDE DEF n
    <3> QED BY <2>1, <2>3, <2>4, <2>7, <3>1, <3>2 DEF KeepsPlace
  <2>8. CASE ClosePrevious[s] = rec[s] BY <2>1, <2>3, <2>8 DEF KeepsPlace
  <2>9. CASE ~rec[s].held BY <2>1, <2>9 DEF KeepsPlace
  <2> QED BY <2>4, <2>5, <2>7, <2>8, <2>9, Closings
<1> QED BY <1>4, <1>6, <1>7, Onward

\* A lap that is driven comes after all the service has been told.
LEMMA DrivenLast ==
    ASSUME TypeOK, Ascending(World), Heard(World), NEW l \in LapIds, LapSaved(l),
           Calm(World, World'), NEW r \in Record, InLine(r, open, World),
           Untold(l, open, r.remote, World')
    PROVE  Opens(r.remote, l, World') /\ \A k \in ToSet(r.queue) : k < l \/ k = l
<1>1. /\ open # 0 /\ open' = open /\ finished \in Nat
      /\ rows'[l].lap = finished + 1
  BY SavedLap DEF LapSaved
<1>2. l = finished + 1 BY <1>1, WorldFields DEF Untold
<1>3. ASSUME NEW k \in ToSet(r.queue) PROVE k < l
  <2>1. k <= finished /\ k \in Nat
    <3>1. k \in LapIds BY QueueLaps DEF Record
    <3> QED BY <3>1, WorldFields DEF InLine, LapIds
  <2> QED BY <1>1, <1>2, <2>1
<1>4. ASSUME r.remote # 0
      PROVE  ~remote'[r.remote].ended /\ \A n : Told(World', r.remote, n) => n < l
  <2>1. PICK t \in RemoteIds : t = r.remote
    <3>1. r.remote \in 0..MaxRemote BY DEF Record
    <3> QED BY <1>4, <3>1, RemoteIdsAre
  <2>2. /\ remote'[t].ended = remote[t].ended /\ remote'[t].laps = remote[t].laps
    BY WorldFields DEF Calm
  <2>3. remote[t].drive = open BY <1>4, <2>1, WorldFields DEF InLine
  <2>4. ~remote[t].ended BY <1>1, <2>3, WorldFields DEF Heard
  <2>5. ASSUME NEW d \in remote[t].laps PROVE d.lap < l
    <3>1. d.lap <= finished BY WorldFields DEF Heard
    <3>2. d.lap \in Nat
      <4>1. remote[t] \in RemoteSession BY DEF TypeOK, ServerTypeOK
      <4> QED BY <4>1 DEF RemoteSession, Lap
    <3> QED BY <1>1, <1>2, <3>1, <3>2
  <2> QED BY <2>1, <2>2, <2>4, <2>5, WorldFields DEF Told
<1> QED BY <1>3, <1>4, WorldFields DEF Opens

LEMMA LapSavedInLine ==
    ASSUME TypeOK, TypeOK', Ascending(World), Heard(World), Lines, Ways,
           Calm(World, World'), NEW l \in LapIds, LapSaved(l)
    PROVE  Lines' /\ Ways'
<1> DEFINE held  == IF rec[open].held THEN rec[open] ELSE NewRecord
           owed == [rec EXCEPT ![open] = WithLap(held, l, circuit')]
<1>1. /\ open \in Sessions /\ circuit' \in BOOLEAN
      /\ \/ UNCHANGED <<rec, disk, workerVars>>
         \/ rec' = TrimQueue(owed) /\ Write(rec') /\ Kick(job)
  <2>1. open # 0 BY DEF LapSaved
  <2>2. circuit' \in BOOLEAN BY DEF TypeOK, DbTypeOK
  <2> QED BY <2>1, <2>2, NumbersType DEF LapSaved
<1>2. CASE UNCHANGED <<rec, disk, workerVars>>
  <2>1. \A w \in Workers : Going(w) BY <1>2 DEF Going, workerVars
  <2> QED BY <1>2, <2>1, StandsInLine
<1>3. CASE rec' = TrimQueue(owed) /\ Write(rec') /\ Kick(job)
  <2>1. rec \in [Sessions -> Record] /\ held \in Record BY <1>1, Types, NoRecordType
  <2>2. InLine(rec[open], open, World) /\ InLine(held, open, World)
    <3>1. InLine(rec[open], open, World) BY <1>1 DEF Lines, InOrder
    <3> QED BY <3>1, EmptyInLine
  <2>3. rec[open].held => held = rec[open] OBVIOUS
  <2>4. ~rec[open].held => held.remote = 0 BY DEF NewRecord, NoRecord
  <2> HIDE DEF held
  <2> DEFINE n == WithLap(held, l, circuit')
  <2>5. /\ n.held = held.held /\ n.remote = held.remote
        /\ n.queue = IF l \in ToSet(held.queue) THEN held.queue ELSE Append(held.queue, l)
    BY <2>1 DEF WithLap, Record
  <2>6. n \in Record BY <1>1, <2>1, WithLapType
  <2>7. l <= World'.finished
    BY SavedLap, WorldFields
  <2>8. InLine(n, open, World')
    <3>1. InLine(held, open, World') BY <1>1, <2>1, <2>2, InLineStays
    <3>2. Untold(l, open, held.remote, World') =>
             Opens(held.remote, l, World') /\ \A k \in ToSet(held.queue) : k < l \/ k = l
      BY <2>1, <2>2, DrivenLast
    <3> QED BY <2>1, <2>7, <3>1, <3>2, WithLapInLine
  <2> HIDE DEF n
  <2>9. owed = [rec EXCEPT ![open] = n] BY DEF n
  <2>10. owed \in [Sessions -> Record] BY <1>1, <2>1, <2>6, <2>9
  <2>11. ASSUME NEW s \in Sessions
         PROVE  /\ InLine(owed[s], s, World') /\ Succeeds(owed[s], rec[s], s, World)
                /\ rec[s].held => owed[s].held /\ owed[s].remote = rec[s].remote
    <3>1. CASE s # open
      <4>1. owed[s] = rec[s] BY <2>1, <2>9, <3>1
      <4>2. InLine(rec[s], s, World) BY DEF Lines, InOrder
      <4>3. InLine(rec[s], s, World') BY <2>1, <4>2, InLineStays
      <4> QED BY <4>1, <4>2, <4>3, LessSucceeds
    <3>2. CASE s = open
      <4>1. owed[s] = n BY <2>1, <2>9, <3>2
      <4>2. Succeeds(n, rec[s], s, World)
        <5> SUFFICES ASSUME n.remote # 0
                     PROVE  Succeeds(n, rec[s], s, World)
          BY DEF Succeeds
        <5>1. held = rec[s] BY <2>3, <2>4, <2>5, <3>2
        <5>2. ToSet(n.queue) \subseteq ToSet(rec[s].queue) \cup {l}
          <6>1. held.queue \in Queues BY <2>1 DEF Record
          <6>2. CASE l \in ToSet(held.queue) BY <2>5, <5>1, <6>2
          <6>3. CASE l \notin ToSet(held.queue)
            <7>1. ToSet(Append(held.queue, l)) = ToSet(held.queue) \cup {l}
              BY <6>1, AppendKeeps
            <7> QED BY <2>5, <5>1, <6>3, <7>1
          <6> QED BY <6>2, <6>3
        <5>3. rows[l].lap # l
          <6>1. /\ rows[l].lap # 0 => l < l
            BY SavedLap
          <6> QED BY <6>1 DEF LapIds
        <5>4. ~Untold(l, s, n.remote, World) BY <5>3, WorldFields DEF Untold
        <5>5. finished \in Nat /\ l \in Nat BY NumbersType DEF LapIds
        <5>6. \A k \in ToSet(rec[s].queue) : k <= World.finished BY <2>2, <3>2 DEF InLine
        <5>7. l > World.finished \/ l <= World.finished BY <5>5, WorldFields
        <5> QED BY <2>5, <3>2, <5>1, <5>2, <5>4, <5>6, <5>7, WorldFields DEF Succeeds
      <4> QED BY <2>3, <2>5, <2>8, <3>2, <4>1, <4>2
    <3> QED BY <3>1, <3>2
  <2> HIDE DEF owed
  <2>12. ASSUME NEW s \in Sessions
         PROVE  Sequel(rec'[s], s) /\ KeepsPlace(rec[s], rec'[s])
    <3> DEFINE q == TrimQueue(owed)[s].queue
    <3>1. rec'[s] = [owed[s] EXCEPT !.queue = q] BY <1>3, <2>10, TrimKeeps
    <3>2. Left(q, owed[s].queue) BY <2>10, TrimLeaves
    <3>3. owed[s] \in Record BY <2>10
    <3> HIDE DEF q
    <3>4. InLine(rec'[s], s, World') BY <2>11, <3>1, <3>2, <3>3, LeftInLine
    <3>5. /\ rec'[s].remote = owed[s].remote /\ rec'[s].queue = q
          /\ rec'[s].held = owed[s].held
      BY <3>1, <3>3 DEF Record
    <3>6. Succeeds(rec'[s], rec[s], s, World)
      BY <2>11, <3>2, <3>5 DEF Succeeds, Left
    <3> QED BY <2>11, <3>4, <3>5, <3>6 DEF Sequel, KeepsPlace
  <2>13. \A s \in Sessions : Sequel(disk'.recs[s], s) BY <1>3, <2>12, WrittenSequel
  <2>14. \A w \in Workers : Going(w) BY <1>3, Types, KickCarries DEF Going
  <2> QED BY <2>12, <2>13, <2>14, Onward
<1> QED BY <1>1, <1>2, <1>3

LEMMA LapChangedInLine ==
    ASSUME TypeOK, TypeOK', Lines, Ways, Calm(World, World'),
           NEW l \in LapIds, NEW s \in Sessions, LapChanged(l, s)
    PROVE  Lines' /\ Ways'
<1> DEFINE q == IF rec[s].laps[l] = "synced" /\ l \notin ToSet(rec[s].queue)
                THEN Append(rec[s].queue, l) ELSE rec[s].queue
           a == rec[s].analysisPending \/ (rec[s].ended /\ ~rec[s].endPending)
           n == [rec[s] EXCEPT !.analysisPending = a, !.queue = q]
<1>1. \/ UNCHANGED <<rec, disk, workerVars>>
      \/ /\ rec' = [rec EXCEPT ![s] = n]
         /\ \/ Write(rec') /\ Kick(job)
            \/ UNCHANGED <<disk, workerVars>>
  BY DEF LapChanged
<1>2. CASE UNCHANGED <<rec, disk, workerVars>>
  <2>1. \A w \in Workers : Going(w) BY <1>2 DEF Going, workerVars
  <2> QED BY <1>2, <2>1, StandsInLine
<1>3. CASE /\ rec' = [rec EXCEPT ![s] = n]
           /\ \/ Write(rec') /\ Kick(job)
              \/ UNCHANGED <<disk, workerVars>>
  <2>1. rec \in [Sessions -> Record] /\ rec[s] \in Record /\ rec[s].queue \in Queues
    BY Types DEF Record
  <2>2. n.held = rec[s].held /\ n.remote = rec[s].remote /\ n.queue = q
    BY <2>1 DEF Record
  <2>3. InLine(rec[s], s, World) BY DEF Lines, InOrder
  <2>4. q = rec[s].queue \/ (q = Append(rec[s].queue, l) /\ rec[s].laps[l] = "synced")
    OBVIOUS
  <2>5. ToSet(q) \subseteq ToSet(rec[s].queue)
           \/ (rec[s].laps[l] = "synced" /\ ToSet(q) = ToSet(rec[s].queue) \cup {l})
    BY <2>1, <2>4, AppendKeeps
  <2>6. a => rec[s].analysisPending \/ rec[s].ended OBVIOUS
  <2> HIDE DEF q, a
  <2>7. InLine(n, s, World')
    <3>1. InLine(rec[s], s, World') BY <2>1, <2>3, InLineStays
    <3> QED BY <2>1, <2>4, <2>6, <3>1, AgainInLine
  <2> HIDE DEF n
  <2>8. Succeeds(n, rec[s], s, World)
    <3>1. \A k \in ToSet(rec[s].queue) : k <= World.finished BY <2>3 DEF InLine
    <3>2. rec[s].laps[l] = "synced" => l <= World.finished /\ ~Untold(l, s, rec[s].remote, World)
      BY <2>3 DEF InLine
    <3> QED BY <2>2, <2>5, <3>1, <3>2 DEF Succeeds
  <2>9. ASSUME NEW t \in Sessions PROVE Sequel(rec'[t], t) /\ KeepsPlace(rec[t], rec'[t])
    <3>1. CASE t = s
      <4>1. rec'[t] = n BY <1>3, <2>1, <3>1
      <4> QED BY <2>2, <2>7, <2>8, <3>1, <4>1 DEF Sequel, KeepsPlace
    <3>2. CASE t # s
      <4>1. rec'[t] = rec[t] BY <1>3, <2>1, <3>2
      <4> QED BY <4>1, SameSequel DEF KeepsPlace
    <3> QED BY <3>1, <3>2
  <2>10. \A t \in Sessions : Sequel(disk'.recs[t], t) BY <1>3, <2>9, WrittenSequel
  <2>11. \A w \in Workers : Going(w) BY <1>3, Types, KickCarries DEF Going, workerVars
  <2> QED BY <2>9, <2>10, <2>11, Onward
<1> QED BY <1>1, <1>2, <1>3

LEMMA DeletedInLine ==
    ASSUME TypeOK, TypeOK', Lines, Ways, Calm(World, World'),
           AllCleared \/ \E s \in Sessions : SessionDeleted(s)
    PROVE  Lines' /\ Ways'
<1>1. PICK S \in SUBSET Sessions :
         /\ \A s \in Sessions : rec'[s] = rec[s] \/ (s \in S /\ rec'[s] = NoRecord)
         /\ job' = Disowned(S)
         /\ disk' = disk \/ Write(rec')
  <2>1. CASE AllCleared BY <2>1 DEF AllCleared
  <2>2. ASSUME NEW s \in Sessions, SessionDeleted(s)
        PROVE  /\ \A t \in Sessions : rec'[t] = rec[t] \/ (t \in {s} /\ rec'[t] = NoRecord)
               /\ job' = Disowned({s})
               /\ disk' = disk \/ Write(rec')
    BY <2>2, Types DEF SessionDeleted
  <2>3. \A s \in Sessions : {s} \in SUBSET Sessions OBVIOUS
  <2> QED BY <2>1, <2>2, <2>3
<1>2. \A s \in Sessions : Sequel(rec'[s], s) BY <1>1, SameSequel
<1>3. \A s \in Sessions : Sequel(disk'.recs[s], s) BY <1>1, <1>2, WrittenSequel
<1>4. \A w \in Workers : Going(w) BY <1>1, DisownedCarries DEF Going
<1>5. ASSUME NEW w \in Workers, job[w].own, job[w].session \in Sessions, job'[w] = job[w]
      PROVE  KeepsPlace(rec[job[w].session], rec'[job[w].session])
  <2>1. job[w].session \notin S BY <1>1, <1>5, DisownedCarries
  <2>2. rec'[job[w].session] = rec[job[w].session] BY <1>1, <1>5, <2>1
  <2> QED BY <2>2 DEF KeepsPlace
<1> QED BY <1>2, <1>3, <1>4, <1>5, Onward

LEMMA RecorderInLine ==
    ASSUME TypeOK, TypeOK', Fresh, Ascending(World), Heard(World), Lines, Ways,
           Calm(World, World'), Recorder
    PROVE  Lines' /\ Ways'
<1>1. CASE SessionStarted BY <1>1, SessionStartedInLine
<1>2. CASE AllCleared \/ \E s \in Sessions : SessionDeleted(s) BY <1>2, DeletedInLine
<1>3. CASE \E l \in LapIds : LapSaved(l) BY <1>3, LapSavedInLine
<1>4. CASE \E l \in LapIds, s \in Sessions : LapChanged(l, s) BY <1>4, LapChangedInLine
<1>5. CASE \E l \in LapIds : RulingCommitted(l) \/ LapDeleted(l)
  <2>1. UNCHANGED adapterVars BY <1>5 DEF RulingCommitted, LapDeleted
  <2>2. UNCHANGED <<rec, disk>> /\ \A w \in Workers : Going(w)
    BY <2>1 DEF adapterVars, workerVars, Going
  <2> QED BY <2>2, StandsInLine
<1> QED BY <1>1, <1>2, <1>3, <1>4, <1>5 DEF Recorder

LEMMA ReloadedInLine ==
    ASSUME TypeOK, TypeOK', Lines, Ways, Calm(World, World'),
           NEW f, f = disk \/ (f = [url |-> recUrl, recs |-> ClosePrevious] /\ open' = 0),
           disk' = f, rec' = Reloaded(f, recUrl'),
           \A w \in Workers : ~InFlight(job'[w]) \/ job'[w] = Disowned(Sessions)[w]
    PROVE  Lines' /\ Ways'
<1>1. ASSUME NEW s \in Sessions PROVE Sequel(f.recs[s], s)
  <2>1. CASE f = disk BY <2>1, SameSequel
  <2>2. CASE f = [url |-> recUrl, recs |-> ClosePrevious] /\ open' = 0
    <3>1. f.recs = ClosePrevious /\ (open = 0 \/ open' # open) BY <2>2
    <3> QED BY <3>1, ClosedSequel
  <2> QED BY <2>1, <2>2
<1>2. \A s \in Sessions : Sequel(rec'[s], s) /\ Sequel(disk'.recs[s], s)
  BY <1>1, SameSequel DEF Reloaded
<1>3. \A w \in Workers : Going(w) BY DisownedCarries DEF Going
<1>4. \A w \in Workers : ~(InFlight(job[w]) /\ job[w].own /\ job[w].session \in Sessions
                            /\ job'[w] = job[w])
  BY DisownedCarries
<1> QED BY <1>2, <1>3, <1>4, Onward

LEMMA ClientInLine ==
    ASSUME TypeOK, TypeOK', Lines, Ways, Calm(World, World'), Client
    PROVE  Lines' /\ Ways'
<1>1. CASE SwitchedOn \/ SwitchedOff \/ BringUpAsks \/ ConnectionTested
           \/ \E u \in Urls : ConnectionChanged(u)
  <2>1. UNCHANGED <<rec, disk>> /\ job' = job
    BY <1>1 DEF SwitchedOn, SwitchedOff, BringUpAsks, ConnectionTested, ConnectionChanged,
         Learn, Halt, adapterVars, workerVars
  <2>2. \A w \in Workers : Going(w) BY <2>1 DEF Going
  <2> QED BY <2>1, <2>2, StandsInLine
<1>2. CASE BringUpActs \/ PushPressed
  <2>1. UNCHANGED <<rec, disk>> /\ (Kick(job) \/ job' = job)
    BY <1>2 DEF BringUpActs, PushPressed, Halt
  <2>2. \A w \in Workers : Going(w) BY <2>1, Types, KickCarries DEF Going
  <2> QED BY <2>1, <2>2, StandsInLine
<1>3. CASE ConnectionReset
  <2>1. /\ disk' = disk /\ rec' = Reloaded(disk, recUrl')
        /\ job' = Disowned(Sessions)
    BY <1>3 DEF ConnectionReset, Halt
  <2> QED BY <2>1, ReloadedInLine
<1>4. CASE Restarted \/ Crashed
  <2> DEFINE closing == [url |-> recUrl, recs |-> ClosePrevious]
  <2>1. Started(disk) \/ Started(closing) BY <1>4 DEF Restarted, Crashed
  <2>2. ~InFlight(NoJob) BY NoJobType DEF InFlight
  <2>3. ASSUME NEW f, Started(f)
        PROVE  /\ disk' = f /\ rec' = Reloaded(f, recUrl') /\ open' = 0
               /\ \A w \in Workers : ~InFlight(job'[w])
    BY <2>2, <2>3 DEF Started
  <2> HIDE DEF closing
  <2>4. closing = [url |-> recUrl, recs |-> ClosePrevious] BY DEF closing
  <2> QED BY <2>1, <2>3, <2>4, ReloadedInLine
<1> QED BY <1>1, <1>2, <1>3, <1>4 DEF Client

-----------------------------------------------------------------------------
(* The workers.                                                            *)

\* A worker comes back from its request: nobody is under way any more.
LEMMA ComesBack ==
    ASSUME TypeOK', Calm(World, World'), InOrder(rec', World), InOrder(disk'.recs, World),
           \A v \in Workers : ~InFlight(job'[v])
    PROVE  Lines' /\ Ways'
<1>1. rec' \in [Sessions -> Record] /\ disk'.recs \in [Sessions -> Record]
  <2>1. disk' \in [url: Urls, recs: [Sessions -> Record]] /\ rec' \in [Sessions -> Record]
    BY DEF TypeOK, AdapterTypeOK
  <2> QED BY <2>1
<1>2. Lines' BY <1>1, InOrderStays DEF Lines
<1> QED BY <1>2 DEF Ways, OnTime

LEMMA NobodyLeft ==
    ASSUME TypeOK, OneUnderWay, NEW w \in Workers, InFlight(job[w]),
           job' = [job EXCEPT ![w] = Ready] \/ job' = [job EXCEPT ![w] = NoJob]
    PROVE  \A v \in Workers : ~InFlight(job'[v])
<1>1. ~InFlight(Ready) /\ ~InFlight(NoJob) BY NoJobType DEF InFlight
<1> HIDE DEF Ready, NoJob
<1>2. job'[w] \in {Ready, NoJob} /\ \A v \in Workers : v # w => job'[v] = job[v] BY Types
<1> QED BY <1>1, <1>2 DEF OneUnderWay

LEMMA RecordsInLine ==
    ASSUME TypeOK, TypeOK', Lines, Calm(World, World'), OneUnderWay,
           NEW w \in Workers, InFlight(job[w]), NEW r, Records(w, r),
           job[w].own => InLine(r, job[w].session, World)
    PROVE  Lines' /\ Ways'
<1>1. InOrder(rec', World)
  <2>1. rec \in [Sessions -> Record] BY Types
  <2>2. \A s \in Sessions : rec'[s] = rec[s]
                            \/ (job[w].own /\ s = job[w].session /\ rec'[s] = r)
    BY <2>1 DEF Records
  <2> QED BY <2>2 DEF Lines, InOrder
<1>2. disk'.recs = rec' /\ job' = [job EXCEPT ![w] = Ready] BY DEF Records, Write
<1>3. \A v \in Workers : ~InFlight(job'[v]) BY <1>2, NobodyLeft
<1> QED BY <1>1, <1>2, <1>3, ComesBack

LEMMA ResolvesInLine ==
    ASSUME TypeOK, TypeOK', Lines, Calm(World, World'), OneUnderWay,
           NEW w \in Workers, InFlight(job[w]), NEW l \in LapIds, NEW v, Resolves(w, l, v),
           v = "synced" /\ job[w].own =>
              l <= finished /\ ~Untold(l, job[w].session, rec[job[w].session].remote, World)
    PROVE  Lines' /\ Ways'
<1> DEFINE s == job[w].session
           r == rec[s]
<1>1. rec \in [Sessions -> Record] BY Types
<1>2. CASE job[w].own /\ l \notin ToSet(r.queue)
  <2>1. UNCHANGED <<rec, disk>> /\ job' = [job EXCEPT ![w] = NoJob]
    BY <1>2 DEF Resolves, Ends
  <2>2. \A x \in Workers : ~InFlight(job'[x]) BY <2>1, NobodyLeft
  <2>3. InOrder(rec', World) /\ InOrder(disk'.recs, World) BY <2>1 DEF Lines
  <2> QED BY <2>2, <2>3, ComesBack
<1>3. CASE ~job[w].own
  <2>1. rec' = rec /\ Write(rec') /\ job' = [job EXCEPT ![w] = Ready]
    BY <1>3 DEF Resolves
  <2>2. \A x \in Workers : ~InFlight(job'[x]) BY <2>1, NobodyLeft
  <2>3. InOrder(rec', World) /\ InOrder(disk'.recs, World) BY <2>1 DEF Lines, Write
  <2> QED BY <2>2, <2>3, ComesBack
<1>4. CASE job[w].own /\ l \in ToSet(r.queue)
  <2> DEFINE q == Without(r.queue, l)
             n == [r EXCEPT !.queue = q, !.laps[l] = v]
  <2>1. rec' = [rec EXCEPT ![s] = n] /\ Write(rec') /\ job' = [job EXCEPT ![w] = Ready]
    BY <1>4 DEF Resolves
  <2>2. s \in Sessions
    <3>1. job[w] \in Job BY Types
    <3> QED BY <1>4, <3>1 DEF Job, JobFields
  <2>3. r \in Record /\ r.queue \in Queues /\ InLine(r, s, World)
    BY <1>1, <2>2 DEF Lines, InOrder, Record
  <2>4. Left(q, r.queue) BY <1>4, <2>3, WithoutLeaves
  <2>5. v = "synced" => l <= World.finished /\ ~Untold(l, s, r.remote, World)
    BY <1>4, WorldFields
  <2> HIDE DEF q, r, s
  <2>6. InLine(n, s, World) BY <2>3, <2>4, <2>5, ResolvedInLine
  <2> HIDE DEF n
  <2>7. InOrder(rec', World) BY <1>1, <2>1, <2>2, <2>6 DEF Lines, InOrder
  <2>8. disk'.recs = rec' BY <2>1 DEF Write
  <2>9. \A x \in Workers : ~InFlight(job'[x]) BY <2>1, NobodyLeft
  <2> QED BY <2>7, <2>8, <2>9, ComesBack
<1> QED BY <1>2, <1>3, <1>4

\* What a worker knows of the request it has under way.
LEMMA OnItsWay ==
    ASSUME TypeOK, Lines, Ways, NEW w \in Workers, InFlight(job[w])
    PROVE  /\ job[w] \in Job /\ job[w].session \in Sessions /\ job[w].session # 0
           /\ rec[job[w].session] \in Record
           /\ InLine(rec[job[w].session], job[w].session, World)
           /\ Way(job[w], rec[job[w].session], disk.recs[job[w].session], World)
<1>1. job[w] \in Job BY Types
<1>2. job[w].session # 0 /\ Way(job[w], rec[job[w].session], disk.recs[job[w].session], World)
  BY DEF Ways, OnTime
<1>3. job[w].session \in Sessions BY <1>1, <1>2 DEF Job, JobFields
<1>4. rec[job[w].session] \in Record BY <1>3, Types
<1> QED BY <1>1, <1>2, <1>3, <1>4 DEF Lines, InOrder

\* A worker sets out, or goes on to its next await.
LEMMA GoesOut ==
    ASSUME TypeOK, TypeOK', Lines, Calm(World, World'), OneUnderWay', UNCHANGED <<rec, disk>>,
           NEW w \in Workers, NEW j, job' = [job EXCEPT ![w] = j], InFlight(j), j.session # 0,
           Way(j, rec[j.session], disk.recs[j.session], World)
    PROVE  Lines' /\ Ways'
<1>1. job'[w] = j BY Types
<1>2. j \in Job /\ j.session \in Sessions
  <2>1. job' \in [Workers -> Job] BY DEF TypeOK, WorkerTypeOK
  <2>2. j \in Job BY <1>1, <2>1
  <2> QED BY <2>2 DEF Job, JobFields
<1>3. rec \in [Sessions -> Record] /\ disk.recs \in [Sessions -> Record] BY Types
<1>4. Lines' BY <1>3, InOrderStays DEF Lines
<1>5. PICK s \in Sessions : s = j.session BY <1>2
<1>6. rec[s] \in Record /\ disk.recs[s] \in Record BY <1>3
<1>7. /\ Succeeds(rec[s], rec[s], s, World)
      /\ Succeeds(disk.recs[s], disk.recs[s], s, World)
  <2>1. InLine(rec[s], s, World) /\ InLine(disk.recs[s], s, World) BY DEF Lines, InOrder
  <2> QED BY <2>1, LessSucceeds
<1>8. Way(j, rec[s], disk.recs[s], World') BY <1>2, <1>5, <1>6, <1>7, WayStays
<1>9. ASSUME NEW v \in Workers, InFlight(job'[v]) PROVE v = w
  BY <1>1, <1>9 DEF OneUnderWay
<1>10. OnTime(w)' BY <1>1, <1>5, <1>8 DEF OnTime
<1>11. \A v \in Workers : OnTime(v)' BY <1>9, <1>10 DEF OnTime
<1> QED BY <1>4, <1>11 DEF Ways

\* A request leaves the worker as it set out.
LEMMA WaySent ==
    ASSUME NEW W, NEW j, NEW r, NEW q, Way(j, r, q, W), j.at = "load",
           NEW k, k.at = "sent", k.kind = j.kind, k.session = j.session, k.lap = j.lap,
           k.own = j.own, k.target = j.target, k.kind = "lap" => Faithful(k, W)
    PROVE  Way(k, r, q, W)
<1>1. \A x : Overtakes(k, x, W) <=> Overtakes(j, x, W) BY DEF Overtakes
<1>2. Timely(k, r, q, W) <=> Timely(j, r, q, W) BY <1>1 DEF Timely
<1> QED BY <1>2 DEF Way

LEMMA SentInLine ==
    ASSUME TypeOK, TypeOK', Lines, Ways, Calm(World, World'), OneUnderWay',
           UNCHANGED <<rec, disk>>, NEW w \in Workers, job[w].at = "load",
           NEW d, NEW n, NEW v, Send(w, [job[w] EXCEPT !.doc = d, !.names = n, !.ver = v]),
           job[w].kind = "lap" => rows[job[w].lap].lap # 0 /\ d = rows[job[w].lap],
           Ascending(World)
    PROVE  Lines' /\ Ways'
<1> DEFINE k == [job[w] EXCEPT !.doc = d, !.names = n, !.ver = v]
           j == [k EXCEPT !.at = "sent", !.url = url]
<1>1. InFlight(job[w]) BY DEF InFlight
<1>2. PICK i : i = job[w] OBVIOUS
<1>3. /\ i \in Job /\ i.session # 0 /\ Way(i, rec[i.session], disk.recs[i.session], World)
  BY <1>1, <1>2, OnItsWay
<1>4. /\ j.own = i.own /\ j.kind = i.kind /\ j.at = "sent"
      /\ j.session = i.session /\ j.lap = i.lap /\ j.target = i.target /\ j.doc = d
  BY <1>2, <1>3 DEF Job, JobFields
<1>5. job' = [job EXCEPT ![w] = j] BY DEF Send
<1> HIDE DEF j, k
<1>6. j.kind = "lap" => Faithful(j, World)
  <2> SUFFICES ASSUME j.kind = "lap" PROVE Faithful(j, World) OBVIOUS
  <2>1. i.lap \in LapIds BY <1>3, <1>4, BoundsAssumption DEF Job, JobFields, LapIds
  <2>2. d = rows[i.lap] /\ rows[i.lap].lap # 0 BY <1>2, <1>4
  <2>3. /\ i.lap <= rows[i.lap].lap /\ rows[i.lap].lap <= finished
    BY <2>1, <2>2, WorldFields DEF Ascending
  <2>4. ASSUME NEW l \in LapIds, l > i.lap, rows[l].lap # 0
        PROVE  rows[l].lap > rows[i.lap].lap
    <3>1. i.lap < l BY <2>1, <2>4 DEF LapIds
    <3>2. rows[i.lap].lap < rows[l].lap
      BY <2>1, <2>2, <2>4, <3>1, WorldFields DEF Ascending
    <3>3. rows[i.lap].lap \in Nat /\ rows[l].lap \in Nat BY <2>1, RowLaps
    <3> QED BY <3>2, <3>3
  <2> QED BY <1>4, <2>2, <2>3, <2>4, WorldFields DEF Faithful
<1>7. Way(j, rec[j.session], disk.recs[j.session], World)
  BY <1>2, <1>3, <1>4, <1>6, WaySent
<1>8. InFlight(j) BY <1>4 DEF InFlight
<1> QED BY <1>3, <1>4, <1>5, <1>7, <1>8, GoesOut

LEMMA LoadedInLine ==
    ASSUME TypeOK, TypeOK', Ascending(World), Lines, Ways, Calm(World, World'),
           OneUnderWay, OneUnderWay', NEW w \in Workers,
           LapLoaded(w) \/ TotalsLoaded(w) \/ AnalysisLoaded(w)
    PROVE  Lines' /\ Ways'
<1>1. job[w].at = "load" /\ InFlight(job[w])
  BY DEF LapLoaded, TotalsLoaded, AnalysisLoaded, Loading, InFlight
<1>2. /\ job[w] \in Job /\ job[w].session \in Sessions
      /\ rec[job[w].session] \in Record
      /\ InLine(rec[job[w].session], job[w].session, World)
  BY <1>1, OnItsWay
<1>3. CASE LapLoaded(w)
  <2> DEFINE d == rows[job[w].lap]
  <2>1. job[w].kind = "lap" BY <1>3 DEF LapLoaded, Loading
  <2>2. job[w].lap \in LapIds BY <1>2, <2>1, BoundsAssumption DEF Job, JobFields, LapIds
  <2>3. CASE d # NoLap /\ Send(w, [job[w] EXCEPT !.doc = d]) /\ UNCHANGED <<rec, disk>>
    <3>1. [job[w] EXCEPT !.doc = d] =
             [job[w] EXCEPT !.doc = d, !.names = job[w].names, !.ver = job[w].ver]
      BY <1>2 DEF Job, JobFields
    <3>2. Send(w, [job[w] EXCEPT !.doc = d, !.names = job[w].names, !.ver = job[w].ver])
      BY <2>3, <3>1
    <3>3. d.lap # 0
      <4>1. \A e \in Lap : e.lap # 0 BY DEF Lap
      <4>2. d \in Lap BY <2>2, <2>3, Types
      <4> QED BY <4>1, <4>2
    <3>4. PICK e : e = d OBVIOUS
    <3> QED BY <1>1, <2>3, <3>2, <3>3, <3>4, SentInLine
  <2>4. CASE Resolves(w, job[w].lap, "none") \/ Resolves(w, job[w].lap, "rejected")
    BY <1>1, <2>2, <2>4, ResolvesInLine
  <2> QED BY <1>3, <2>3, <2>4 DEF LapLoaded
<1>4. CASE TotalsLoaded(w)
  <2> DEFINE n == IF job[w].own THEN NamesCircuit(rec[job[w].session]) ELSE job[w].names
  <2>1. /\ job[w].kind = "end" /\ UNCHANGED <<rec, disk>>
        /\ Send(w, [job[w] EXCEPT !.names = n])
    BY <1>4 DEF TotalsLoaded, Loading
  <2>2. [job[w] EXCEPT !.names = n] =
           [job[w] EXCEPT !.doc = job[w].doc, !.names = n, !.ver = job[w].ver]
    BY <1>2 DEF Job, JobFields
  <2> HIDE DEF n
  <2>3. Send(w, [job[w] EXCEPT !.doc = job[w].doc, !.names = n, !.ver = job[w].ver])
    BY <2>1, <2>2
  <2> QED BY <1>1, <2>1, <2>3, SentInLine
<1>5. CASE AnalysisLoaded(w)
  <2>1. job[w].kind = "analysis" BY <1>5 DEF AnalysisLoaded, Loading
  <2>2. \/ \E v : Send(w, [job[w] EXCEPT !.ver = v]) /\ UNCHANGED <<rec, disk>>
        \/ \E status : Records(w, Settled(rec[job[w].session], status))
    BY <1>5 DEF AnalysisLoaded, Records
  <2>3. ASSUME NEW v, Send(w, [job[w] EXCEPT !.ver = v]), UNCHANGED <<rec, disk>>
        PROVE  Lines' /\ Ways'
    <3>1. [job[w] EXCEPT !.ver = v] =
             [job[w] EXCEPT !.doc = job[w].doc, !.names = job[w].names, !.ver = v]
      BY <1>2 DEF Job, JobFields
    <3>2. Send(w, [job[w] EXCEPT !.doc = job[w].doc, !.names = job[w].names, !.ver = v])
      BY <2>3, <3>1
    <3> QED BY <1>1, <2>1, <2>3, <3>2, SentInLine
  <2>4. ASSUME NEW status, Records(w, Settled(rec[job[w].session], status))
        PROVE  Lines' /\ Ways'
    BY <1>1, <1>2, <2>4, SettledInLine, RecordsInLine
  <2> QED BY <2>2, <2>3, <2>4
<1> QED BY <1>3, <1>4, <1>5

LEMMA AcceptedInLine ==
    ASSUME TypeOK, TypeOK', Lines, Ways, Calm(World, World'), OneUnderWay,
           NEW w \in Workers, Accepted(w)
    PROVE  Lines' /\ Ways'
<1> DEFINE j == job[w]
           s == job[w].session
           r == rec[s]
           x == IF j.own THEN r ELSE NoRecord
<1>1. InFlight(j) /\ j.at = "answered" /\ j.reply = "ok"
  BY DEF Accepted, Answered, InFlight
<1>2. /\ j \in Job /\ s \in Sessions /\ r \in Record /\ InLine(r, s, World)
      /\ Way(j, r, disk.recs[s], World)
  BY <1>1, OnItsWay
<1>3. /\ j.kind \in Kinds /\ j.target \in 0..MaxRemote
      /\ j.target # 0 /\ World.remote[j.target].drive = s /\ Arrived(j, World)
      /\ j.own => r.remote = IF j.kind = "start" THEN 0 ELSE j.target
      /\ j.kind = "lap" => j.lap <= World.finished
  BY <1>1, <1>2 DEF Job, JobFields, Way
<1>4. CASE \/ j.kind = "start" /\ Records(w, OpenedAs(x, j.target, j.names))
           \/ j.kind = "name" /\ Records(w, [x EXCEPT !.trackPending = FALSE])
           \/ j.kind = "end" /\ Records(w, [x EXCEPT !.endPending = FALSE, !.trackPending = FALSE])
           \/ j.kind = "analysis" /\ Records(w, Settled(x, "synced"))
  <2>1. PICK y : /\ Records(w, y)
                 /\ \/ j.kind = "start" /\ y = OpenedAs(x, j.target, j.names)
                    \/ j.kind = "name" /\ y = [x EXCEPT !.trackPending = FALSE]
                    \/ j.kind = "end" /\ y = [x EXCEPT !.endPending = FALSE, !.trackPending = FALSE]
                    \/ j.kind = "analysis" /\ y = Settled(x, "synced")
    BY <1>4
  <2>2. ASSUME j.own PROVE InLine(y, s, World)
    <3>1. x = r BY <2>2
    <3>2. r.remote = IF j.kind = "start" THEN 0 ELSE j.target BY <1>3, <2>2
    <3> HIDE DEF x, r, s, j
    <3>3. CASE j.kind = "start" /\ y = OpenedAs(x, j.target, j.names)
      <4>1. World.remote[j.target].laps = {} /\ ~World.remote[j.target].ended /\ r.remote = 0
        BY <1>3, <3>2, <3>3 DEF Arrived
      <4> QED BY <1>2, <1>3, <3>1, <3>3, <4>1, OpenedInLine
    <3>4. CASE j.kind = "name" /\ y = [x EXCEPT !.trackPending = FALSE]
      BY <1>2, <3>1, <3>4, NamedInLine
    <3>5. CASE j.kind = "end" /\ y = [x EXCEPT !.endPending = FALSE, !.trackPending = FALSE]
      <4>1. r.remote # 0 /\ World.remote[r.remote].ended BY <1>3, <3>2, <3>5 DEF Arrived
      <4> QED BY <1>2, <3>1, <3>5, <4>1, TotalledInLine
    <3>6. CASE j.kind = "analysis" /\ y = Settled(x, "synced")
      BY <1>2, <3>1, <3>6, SettledInLine
    <3> QED BY <2>1, <3>3, <3>4, <3>5, <3>6
  <2> QED BY <1>1, <2>1, <2>2, RecordsInLine
<1>5. CASE j.kind = "lap" /\ Resolves(w, j.lap, "synced")
  <2>1. j.lap \in LapIds BY <1>2, <1>5, BoundsAssumption DEF Job, JobFields, LapIds
  <2>2. ASSUME j.own PROVE j.lap <= finished /\ ~Untold(j.lap, s, r.remote, World)
    BY <1>3, <1>5, <2>2, WorldFields DEF Arrived
  <2> QED BY <1>1, <1>5, <2>1, <2>2, ResolvesInLine
<1> QED BY <1>3, <1>4, <1>5 DEF Accepted, Kinds

LEMMA RefusedInLine ==
    ASSUME TypeOK, TypeOK', Lines, Ways, Calm(World, World'), OneUnderWay,
           NEW w \in Workers, Refused(w)
    PROVE  Lines' /\ Ways'
<1> DEFINE j == job[w]
           s == job[w].session
           r == rec[s]
           x == IF j.own THEN r ELSE NoRecord
           lost == IF j.lap \in ToSet(x.queue) THEN Without(x.queue, j.lap) ELSE x.queue
<1>1. InFlight(j) BY DEF Refused, Answered, InFlight
<1>2. j \in Job /\ s \in Sessions /\ r \in Record /\ InLine(r, s, World)
  BY <1>1, OnItsWay
<1>3. PICK y : /\ Records(w, y)
               /\ \/ y = Settled(x, "rejected")
                  \/ y = [x EXCEPT !.trackPending = FALSE, !.trackError = TRUE]
                  \/ j.kind = "lap" /\ y = [x EXCEPT !.queue = lost, !.laps[j.lap] = "rejected"]
                  \/ y = Closed(x)
  BY DEF Refused
<1>4. ASSUME j.own PROVE InLine(y, s, World)
  <2>1. x = r BY <1>4
  <2>2. CASE y = Settled(x, "rejected") BY <1>2, <2>1, <2>2, SettledInLine
  <2>3. CASE y = [x EXCEPT !.trackPending = FALSE, !.trackError = TRUE]
    <3> HIDE DEF x, r, s
    <3> QED BY <1>2, <2>1, <2>3, NamedInLine
  <2>4. CASE j.kind = "lap" /\ y = [x EXCEPT !.queue = lost, !.laps[j.lap] = "rejected"]
    <3>1. j.lap \in LapIds BY <1>2, <2>4, BoundsAssumption DEF Job, JobFields, LapIds
    <3>2. Left(lost, r.queue)
      <4>1. r.queue \in Queues BY <1>2 DEF Record
      <4> QED BY <2>1, <4>1, WithoutLeaves, LeftOfItself
    <3> HIDE DEF x, r, s, lost
    <3> QED BY <1>2, <2>1, <2>4, <3>1, <3>2, ResolvedInLine
  <2>5. CASE y = Closed(x) BY <1>2, <2>1, <2>5, ClosedInLine
  <2> QED BY <1>3, <2>2, <2>3, <2>4, <2>5
<1> QED BY <1>1, <1>3, <1>4, RecordsInLine

\* A worker that sets out for the record of session s.
LEMMA SetsOutInLine ==
    ASSUME TypeOK, TypeOK', Fresh, CrashLosesNothing, Afresh, Lines,
           Calm(World, World'), OneUnderWay', UNCHANGED <<rec, disk>>,
           NEW w \in Workers, NEW s \in Sessions, rec[s].held,
           NEW j, job' = [job EXCEPT ![w] = j], j.at \in {"load", "sent"},
           j.session = s, j.own = TRUE, j.target = rec[s].remote,
           j.kind = "start" <=> rec[s].remote = 0,
           j.kind = "lap" => /\ j.at = "load"
                             /\ rec[s].queue # <<>> /\ j.lap = Head(rec[s].queue),
           j.kind = "end" => rec[s].queue = <<>> /\ rec[s].endPending,
           j.kind = "analysis" => /\ ~rec[s].closed /\ rec[s].analysisPending
                                  /\ ~rec[s].endPending
    PROVE  Lines' /\ Ways'
<1> DEFINE r == rec[s]
           q == disk.recs[s]
<1>1. r \in Record /\ q \in Record /\ InLine(r, s, World) /\ r.queue \in Queues
  BY Types DEF Lines, InOrder, Record
<1>2. s <= opened
  <2>1. s \in Nat /\ opened \in Nat BY NumbersType DEF Sessions
  <2>2. ~NoRecord.held BY DEF NoRecord
  <2> QED BY <2>1, <2>2 DEF Fresh
<1>3. s # 0 BY DEF Sessions
<1>4. r.remote # 0 => q.remote = r.remote /\ q.queue = r.queue
  <2> SUFFICES ASSUME r.remote # 0 PROVE q.remote = r.remote /\ q.queue = r.queue
    OBVIOUS
  <2>1. disk.url = recUrl BY DEF Afresh
  <2>2. Kept(q) = Kept(r) BY <2>1 DEF CrashLosesNothing
  <2>3. \A x \in Record : Kept(x).remote = x.remote /\ Kept(x).queue = x.queue
    BY DEF Kept, Record
  <2> HIDE DEF q, r
  <2> QED BY <1>1, <2>2, <2>3
<1>5. r.remote # 0 => World.remote[r.remote].drive = s BY <1>1 DEF InLine
<1> HIDE DEF r, q
<1>6. j.kind = "lap" => /\ j.lap \in ToSet(r.queue) /\ j.lap \in LapIds
                        /\ \A l \in ToSet(r.queue) : l = j.lap \/ Ahead(r.queue, j.lap, l)
  BY <1>1, HeadFirst DEF r
<1>7. j.kind = "lap" => j.lap <= World.finished
  BY <1>1, <1>6 DEF InLine
<1>8. ASSUME NEW x \in {r, q}, j.kind \in {"lap", "end"} PROVE ~Overtakes(j, x, World)
  <2>1. r.remote # 0 BY <1>8 DEF r
  <2>2. x.queue = r.queue /\ r.remote = j.target BY <1>4, <2>1 DEF r
  <2> SUFFICES ASSUME NEW l \in ToSet(r.queue), Untold(l, s, j.target, World),
                      j.kind = "lap" => l < j.lap
               PROVE  FALSE
    BY <2>2 DEF Overtakes
  <2>3. CASE j.kind = "end" BY <2>3, EmptyLeft DEF r
  <2>4. CASE j.kind = "lap"
    <3>1. l \in LapIds /\ l \in Nat /\ j.lap \in Nat BY <1>1, <1>6, <2>4, QueueLaps DEF LapIds
    <3>2. l < j.lap /\ l # j.lap BY <2>4, <3>1
    <3>3. Ahead(r.queue, j.lap, l) BY <1>6, <2>4, <3>2
    <3>4. j.lap < l BY <1>1, <2>2, <3>3 DEF InLine
    <3> QED BY <3>1, <3>2, <3>4
  <2> QED BY <1>8, <2>3, <2>4
<1>9. Timely(j, r, q, World)
  <2>1. j.kind = "lap" =>
           (Untold(j.lap, j.session, j.target, World) => Opens(j.target, j.lap, World))
    BY <1>1, <1>6 DEF InLine, r
  <2>2. j.kind = "analysis" => World.remote[j.target].ended
    BY <1>1 DEF InLine, r
  <2> QED BY <1>8, <2>1, <2>2 DEF Timely
<1>10. Way(j, r, q, World)
  <2>1. j.session <= World.opened BY <1>2, WorldFields
  <2>2. j.own => r.held /\ r.remote = IF j.kind = "start" THEN 0 ELSE j.target BY DEF r
  <2>3. j.at # "answered" /\ ~(j.at = "sent" /\ j.kind = "lap") OBVIOUS
  <2>4. j.kind # "start" => j.target # 0 /\ World.remote[j.target].drive = j.session
    BY <1>5 DEF r
  <2>5. j.kind = "end" => j.session # World.open
    BY <1>1 DEF InLine, r
  <2> QED BY <1>7, <1>9, <2>1, <2>2, <2>3, <2>4, <2>5 DEF Way
<1>11. InFlight(j) BY DEF InFlight
<1> QED BY <1>3, <1>10, <1>11, GoesOut DEF r, q

LEMMA PushNextInLine ==
    ASSUME TypeOK, TypeOK', Fresh, CrashLosesNothing, Afresh, Lines, Ways,
           Calm(World, World'), OneUnderWay', NEW w \in Workers, PushNext(w)
    PROVE  Lines' /\ Ways'
<1> DEFINE begun(s, at, kind, l) ==
              [Ready EXCEPT !.at = at, !.kind = kind, !.lap = l, !.session = s,
                            !.own = TRUE, !.target = rec[s].remote, !.url = url,
                            !.names = NamesCircuit(rec[s])]
           begin(s, at, kind, l) ==
              job' = [job EXCEPT ![w] = begun(s, at, kind, l)] /\ UNCHANGED <<rec, disk>>
<1>1. PICK s \in Sessions :
         /\ NextRec(s)
         /\ IF rec[s].remote = 0 THEN begin(s, "sent", "start", 0)
            ELSE IF NamesNow(rec[s]) THEN begin(s, "sent", "name", 0)
            ELSE IF rec[s].queue # <<>> THEN begin(s, "load", "lap", Head(rec[s].queue))
            ELSE IF rec[s].endPending THEN begin(s, "load", "end", 0)
            ELSE IF "analysis_version" \in Hints THEN begin(s, "load", "analysis", 0)
            ELSE /\ rec' = [rec EXCEPT ![s] = Settled(rec[s], "not_taken")]
                 /\ Write(rec')
                 /\ job' = [job EXCEPT ![w] = Ready]
  BY DEF PushNext
<1>2. rec[s].held /\ (Pending(rec[s]) \/ NamesNow(rec[s])) BY <1>1 DEF NextRec, Waiting
<1>3. rec \in [Sessions -> Record] /\ rec[s] \in Record BY Types
<1>4. ASSUME NEW at \in {"sent", "load"}, NEW kind, NEW l, begin(s, at, kind, l),
             kind = "start" <=> rec[s].remote = 0,
             kind = "lap" => at = "load" /\ rec[s].queue # <<>> /\ l = Head(rec[s].queue),
             kind = "end" => rec[s].queue = <<>> /\ rec[s].endPending,
             kind = "analysis" => /\ ~rec[s].closed /\ rec[s].analysisPending
                                  /\ ~rec[s].endPending
      PROVE  Lines' /\ Ways'
  <2> DEFINE j == begun(s, at, kind, l)
  <2>1. /\ j.at = at /\ j.kind = kind /\ j.lap = l /\ j.session = s /\ j.own = TRUE
        /\ j.target = rec[s].remote
    BY DEF Ready, NoJob
  <2>2. job' = [job EXCEPT ![w] = j] /\ UNCHANGED <<rec, disk>> BY <1>4
  <2> HIDE DEF j, begun, begin
  <2>3. /\ j.at \in {"load", "sent"}
        /\ j.kind = "start" <=> rec[s].remote = 0
        /\ j.kind = "lap" => /\ j.at = "load"
                             /\ rec[s].queue # <<>> /\ j.lap = Head(rec[s].queue)
        /\ j.kind = "end" => rec[s].queue = <<>> /\ rec[s].endPending
        /\ j.kind = "analysis" => /\ ~rec[s].closed /\ rec[s].analysisPending
                                  /\ ~rec[s].endPending
    BY <1>4, <2>1
  <2>4. rec[s].held /\ UNCHANGED <<rec, disk>> BY <1>2, <2>2
  <2> QED BY <2>1, <2>2, <2>3, <2>4, SetsOutInLine, ZenonT(60)
<1> HIDE DEF begin
<1>5. CASE rec[s].remote = 0
  <2>1. begin(s, "sent", "start", 0) BY <1>1, <1>5
  <2> QED BY <1>4, <1>5, <2>1
<1>6. CASE rec[s].remote # 0
  <2>1. CASE NamesNow(rec[s])
    <3>1. begin(s, "sent", "name", 0) BY <1>1, <1>6, <2>1
    <3> QED BY <1>4, <1>6, <3>1
  <2>2. CASE ~NamesNow(rec[s]) /\ rec[s].queue # <<>>
    <3>1. begin(s, "load", "lap", Head(rec[s].queue)) BY <1>1, <1>6, <2>2
    <3> QED BY <1>4, <1>6, <2>2, <3>1
  <2>3. CASE ~NamesNow(rec[s]) /\ rec[s].queue = <<>> /\ rec[s].endPending
    <3>1. begin(s, "load", "end", 0) BY <1>1, <1>6, <2>3
    <3> QED BY <1>4, <1>6, <2>3, <3>1
  <2>4. CASE ~NamesNow(rec[s]) /\ rec[s].queue = <<>> /\ ~rec[s].endPending
    <3>1. ~rec[s].closed /\ rec[s].analysisPending BY <1>2, <2>4 DEF Pending
    <3>2. CASE "analysis_version" \in Hints
      <4>1. begin(s, "load", "analysis", 0) BY <1>1, <1>6, <2>4, <3>2
      <4> QED BY <1>4, <1>6, <2>4, <3>1, <4>1
    <3>3. CASE "analysis_version" \notin Hints
      <4>1. /\ rec' = [rec EXCEPT ![s] = Settled(rec[s], "not_taken")]
            /\ Write(rec') /\ job' = [job EXCEPT ![w] = Ready]
        BY <1>1, <1>6, <2>4, <3>3
      <4> DEFINE n == Settled(rec[s], "not_taken")
      <4>2. n.held = rec[s].held /\ n.remote = rec[s].remote /\ n.queue = rec[s].queue
        BY <1>3 DEF Settled, Record
      <4>3. InLine(rec[s], s, World) /\ InLine(rec[s], s, World')
        <5>1. InLine(rec[s], s, World) BY DEF Lines, InOrder
        <5> QED BY <1>3, <5>1, InLineStays
      <4>4. InLine(n, s, World') BY <1>3, <4>3, SettledInLine
      <4> HIDE DEF n
      <4>5. Succeeds(n, rec[s], s, World) BY <4>2, <4>3, LessSucceeds
      <4>6. ASSUME NEW t \in Sessions PROVE Sequel(rec'[t], t) /\ KeepsPlace(rec[t], rec'[t])
        <5>1. CASE t = s
          <6>1. rec'[t] = n BY <1>3, <4>1, <5>1 DEF n
          <6> QED BY <4>2, <4>4, <4>5, <5>1, <6>1 DEF Sequel, KeepsPlace
        <5>2. CASE t # s
          <6>1. rec'[t] = rec[t] BY <1>3, <4>1, <5>2
          <6> QED BY <6>1, SameSequel DEF KeepsPlace
        <5> QED BY <5>1, <5>2
      <4>7. \A t \in Sessions : Sequel(disk'.recs[t], t) BY <4>1, <4>6, WrittenSequel
      <4>8. ~InFlight(Ready) BY NoJobType DEF InFlight
      <4>9. \A v \in Workers : Going(v)
        <5> HIDE DEF Ready
        <5>1. \A v \in Workers : job'[v] = job[v] \/ job'[v] = Ready BY <4>1, Types
        <5> QED BY <4>8, <5>1 DEF Going
      <4> QED BY <4>6, <4>7, <4>9, Onward
    <3> QED BY <3>2, <3>3
  <2> QED BY <2>1, <2>2, <2>3, <2>4
<1> QED BY <1>5, <1>6

LEMMA LeavesInLine ==
    ASSUME TypeOK, TypeOK', Lines, Ways, Calm(World, World'), NEW w \in Workers,
           WorkerStops(w) \/ WorkerIdles(w) \/ Unwinds(w) \/ HeldBack(w)
             \/ SwitchedOffByService(w)
    PROVE  Lines' /\ Ways'
<1>1. ~InFlight(Ready) /\ ~InFlight(NoJob) BY NoJobType DEF InFlight
<1>2. CASE WorkerIdles(w)
  <2> DEFINE out == {s \in Sessions : rec[s].held /\ ~Pruned[s].held}
  <2>1. /\ rec' = Pruned /\ Write(rec')
        /\ job' = [Disowned(out) EXCEPT ![w] = NoJob]
    BY <1>2 DEF WorkerIdles
  <2>2. \A s \in Sessions : rec'[s] \in {rec[s], NoRecord} BY <2>1 DEF Pruned
  <2>3. \A s \in Sessions : Sequel(rec'[s], s) BY <2>2, SameSequel
  <2>4. \A s \in Sessions : Sequel(disk'.recs[s], s) BY <2>1, <2>3, WrittenSequel
  <2>5. ASSUME NEW s \in Sessions, s \notin out PROVE KeepsPlace(rec[s], rec'[s])
    <3>1. ~NoRecord.held BY DEF NoRecord
    <3> QED BY <2>1, <2>2, <2>5, <3>1 DEF KeepsPlace
  <2> HIDE DEF out, NoJob
  <2>6. Disowned(out) \in [Workers -> Job] BY Types, DisownedType
  <2>7. \A v \in Workers : job'[v] = Disowned(out)[v] \/ job'[v] = NoJob BY <2>1, <2>6
  <2>8. \A v \in Workers : Going(v) BY <1>1, <2>7, DisownedCarries DEF Going
  <2>9. ASSUME NEW v \in Workers, InFlight(job[v]), job[v].own, job[v].session \in Sessions,
               job'[v] = job[v]
        PROVE  KeepsPlace(rec[job[v].session], rec'[job[v].session])
    <3>1. job[v].session \notin out BY <1>1, <2>7, <2>9, DisownedCarries
    <3> QED BY <2>5, <2>9, <3>1
  <2> QED BY <2>3, <2>4, <2>8, <2>9, Onward
<1>3. CASE ~WorkerIdles(w)
  <2>1. /\ UNCHANGED <<rec, disk>>
        /\ job' = [job EXCEPT ![w] = Ready] \/ job' = [job EXCEPT ![w] = NoJob]
    BY <1>3 DEF WorkerStops, Ends, Unwinds, HeldBack, SwitchedOffByService
  <2> HIDE DEF Ready, NoJob
  <2>2. \A v \in Workers : job'[v] \in {job[v], Ready, NoJob} BY <2>1, Types
  <2>3. \A v \in Workers : Going(v) BY <1>1, <2>2 DEF Going
  <2> QED BY <2>1, <2>3, StandsInLine
<1> QED BY <1>2, <1>3

LEMMA WorkerInLine ==
    ASSUME TypeOK, TypeOK', Fresh, CrashLosesNothing, Afresh, Ascending(World), Lines, Ways,
           Calm(World, World'), OneUnderWay, OneUnderWay', NEW w \in Workers, Worker(w)
    PROVE  Lines' /\ Ways'
BY PushNextInLine, LoadedInLine, AcceptedInLine, RefusedInLine, LeavesInLine DEF Worker

-----------------------------------------------------------------------------
(* The service takes a request.                                            *)

\* V is the world W once the service's session t has been told of j.
Tells(j, t, W, V) ==
    /\ V.rows = W.rows /\ V.finished = W.finished /\ V.opened = W.opened /\ V.open = W.open
    /\ \A u \in RemoteIds : u # t => V.remote[u] = W.remote[u]
    /\ V.remote[t] = Holding(j, W.remote[t])
    /\ IF j.kind = "start" THEN W.remote[t].drive = 0
       ELSE t = j.target /\ W.remote[t].drive = j.session

LEMMA Becomes ==
    ASSUME NEW j \in Job, NEW h \in RemoteSession, NEW g, g = Holding(j, h)
    PROVE  /\ j.kind = "start" => g.drive = j.session /\ g.laps = {} /\ ~g.ended
           /\ j.kind # "start" => g.drive = h.drive
           /\ j.kind = "end" => g.ended /\ g.laps = h.laps
           /\ j.kind = "lap" => /\ g.ended = h.ended
                                /\ g.laps = {d \in h.laps : d.lap # j.doc.lap} \cup {j.doc}
           /\ j.kind \in {"name", "analysis"} => g.ended = h.ended /\ g.laps = h.laps
           /\ j.kind \notin {"start", "analysis"} => g.analysis = h.analysis
<1> DEFINE c == h.circuit \/ j.names
           L == {d \in h.laps : d.lap # j.doc.lap} \cup {j.doc}
<1>1. j.kind \in {"start", "name", "lap", "end", "analysis"} BY DEF Job, JobFields, Kinds
<1>2. CASE j.kind = "start"
  <2>1. g = [NoRemote EXCEPT !.url = j.url, !.drive = j.session, !.circuit = j.names]
    BY <1>2 DEF Holding
  <2> QED BY <1>2, <2>1 DEF NoRemote
<1>3. CASE j.kind = "name"
  <2>1. g = [h EXCEPT !.circuit = c] BY <1>3 DEF Holding
  <2> HIDE DEF c
  <2> QED BY <1>3, <2>1 DEF RemoteSession
<1>4. CASE j.kind = "lap"
  <2>1. g = [h EXCEPT !.laps = L] BY <1>4 DEF Holding
  <2> HIDE DEF L
  <2>2. g.drive = h.drive /\ g.ended = h.ended /\ g.laps = L /\ g.analysis = h.analysis
    BY <2>1 DEF RemoteSession
  <2> QED BY <1>4, <2>2 DEF L
<1>5. CASE j.kind = "end"
  <2>1. g = [h EXCEPT !.ended = TRUE, !.circuit = c] BY <1>5 DEF Holding
  <2> HIDE DEF c
  <2> QED BY <1>5, <2>1 DEF RemoteSession
<1>6. CASE j.kind = "analysis"
  <2>1. g = [h EXCEPT !.analysis = j.ver] BY <1>6 DEF Holding
  <2> QED BY <1>6, <2>1 DEF RemoteSession
<1> QED BY <1>1, <1>2, <1>3, <1>4, <1>5, <1>6

\* The service learns of the lap it is sent, and of no other.
LEMMA LearnsOne ==
    ASSUME NEW W, NEW V, NEW j \in Job, NEW t \in RemoteIds, Tells(j, t, W, V),
           W.remote[t] \in RemoteSession, j.kind # "start", NEW n
    PROVE  /\ Told(V, t, n) => Told(W, t, n) \/ (j.kind = "lap" /\ n = j.doc.lap
                                                 /\ j.doc.session = j.session)
           /\ Told(W, t, n) => Told(V, t, n) \/ (j.kind = "lap" /\ n = j.doc.lap)
           /\ j.kind = "lap" /\ j.doc.session = j.session => Told(V, t, j.doc.lap)
<1> DEFINE h == W.remote[t]
           g == V.remote[t]
           L == {d \in h.laps : d.lap # j.doc.lap} \cup {j.doc}
<1>1. h \in RemoteSession /\ g = Holding(j, h) /\ h.drive = j.session BY DEF Tells
<1>2. Told(W, t, n) <=> \E d \in h.laps : d.lap = n /\ d.session = h.drive BY DEF Told
<1>3. \A m : Told(V, t, m) <=> \E d \in g.laps : d.lap = m /\ d.session = g.drive BY DEF Told
<1>4. j.kind \in {"name", "lap", "end", "analysis"} BY DEF Job, JobFields, Kinds
<1> HIDE DEF h, g
<1>5. g.drive = h.drive /\ (j.kind = "lap" => g.laps = L) /\ (j.kind # "lap" => g.laps = h.laps)
  BY <1>1, <1>4, Becomes
<1> QED BY <1>1, <1>2, <1>3, <1>5

\* What is still untold was untold, and was not told now.
LEMMA StillUntold ==
    ASSUME NEW W, NEW V, NEW j \in Job, NEW t \in RemoteIds, Tells(j, t, W, V),
           W.remote[t] \in RemoteSession, j.kind # "start",
           j.kind = "lap" => j.at = "sent" /\ Faithful(j, W),
           NEW l \in LapIds, Untold(l, j.session, t, V)
    PROVE  /\ Untold(l, j.session, t, W)
           /\ j.kind = "lap" => l # j.doc.lap
<1>1. W.rows[l].lap = l /\ W.rows[l].session = j.session /\ l # 0 /\ l \in Nat
  BY DEF Untold, Tells, LapIds
<1>2. t # 0 BY DEF RemoteIds
<1>3. ASSUME j.kind = "lap", l = j.doc.lap PROVE FALSE
  <2>1. j.doc \in Lap /\ j.lap \in Nat
    BY <1>3, BoundsAssumption DEF Job, JobFields
  <2>2. j.lap <= l /\ l \in Nat BY <1>1, <1>3 DEF Faithful
  <2>3. ~(l > j.lap)
    <3>1. l > j.lap => l > l BY <1>1, <1>3 DEF Faithful
    <3> QED BY <1>1, <3>1
  <2>4. l = j.lap BY <2>1, <2>2, <2>3
  <2>5. j.doc.session = j.session BY <1>1, <1>3, <2>4 DEF Faithful
  <2>6. Told(V, t, l) BY <1>3, <2>5, LearnsOne
  <2> QED BY <1>2, <2>6 DEF Untold
<1>4. ~Told(W, t, l)
  <2>1. ~Told(V, t, l) BY <1>2 DEF Untold
  <2> QED BY <1>3, <2>1, LearnsOne
<1> QED BY <1>1, <1>3, <1>4 DEF Untold

LEMMA ToldInLine ==
    ASSUME NEW W, NEW V, NEW j \in Job, NEW t \in RemoteIds, Tells(j, t, W, V),
           W.remote[t] \in RemoteSession, j.at = "sent",
           j.kind = "lap" => Faithful(j, W),
           NEW s \in Sessions, NEW x \in Record, InLine(x, s, W),
           s = j.session /\ j.kind \in {"lap", "end"} => ~Overtakes(j, x, W)
    PROVE  InLine(x, s, V)
<1>1. x.remote \in 0..MaxRemote /\ ToSet(x.queue) \subseteq LapIds BY QueueLaps DEF Record
<1>2. CASE x.remote # t
  <2>1. x.remote # 0 => V.remote[x.remote] = W.remote[x.remote]
    BY <1>1, <1>2, RemoteIdsAre DEF Tells
  <2>2. \A n : x.remote # 0 => (Told(V, x.remote, n) <=> Told(W, x.remote, n))
    BY <2>1 DEF Told
  <2>3. V.rows = W.rows /\ V.finished = W.finished /\ V.opened = W.opened /\ V.open = W.open
    BY DEF Tells
  <2>4. \A l : Untold(l, s, x.remote, V) <=> Untold(l, s, x.remote, W)
    BY <2>2, <2>3 DEF Untold
  <2>5. \A l : Opens(x.remote, l, V) <=> Opens(x.remote, l, W) BY <2>1, <2>2 DEF Opens
  <2> QED BY <2>1, <2>3, <2>4, <2>5 DEF InLine
<1>3. CASE x.remote = t
  <2>1. t # 0 /\ s # 0 BY DEF RemoteIds, Sessions
  <2>2. W.remote[t].drive = s BY <1>3, <2>1 DEF InLine
  <2>3. j.kind # "start" /\ s = j.session /\ t = j.target BY <2>1, <2>2 DEF Tells
  <2>4. /\ V.remote[t] = Holding(j, W.remote[t])
        /\ V.rows = W.rows /\ V.finished = W.finished /\ V.opened = W.opened
        /\ V.open = W.open
    BY DEF Tells
  <2>5. /\ V.remote[t].drive = s
        /\ j.kind # "end" => V.remote[t].ended = W.remote[t].ended
        /\ j.kind = "end" => V.remote[t].ended
    <3>1. j.kind \in {"name", "lap", "end", "analysis"} BY <2>3 DEF Job, JobFields, Kinds
    <3> QED BY <2>2, <2>3, <2>4, <3>1, Becomes
  <2>6. W.remote[t].ended => V.remote[t].ended BY <2>5
  <2>7. ASSUME NEW l \in LapIds, Untold(l, s, t, V)
        PROVE  Untold(l, s, t, W) /\ (j.kind = "lap" => l # j.doc.lap)
    BY <2>3, <2>7, StillUntold
  <2>8. ASSUME NEW l \in ToSet(x.queue), Untold(l, s, t, V)
        PROVE  Opens(t, l, V) /\ \A k : Ahead(x.queue, k, l) => k < l
    <3>1. l \in LapIds /\ l \in Nat BY <1>1 DEF LapIds
    <3>2. Untold(l, s, t, W) /\ (j.kind = "lap" => l # j.doc.lap) BY <2>7, <2>8, <3>1
    <3>3. Opens(t, l, W) /\ \A k : Ahead(x.queue, k, l) => k < l
      BY <1>3, <3>2 DEF InLine
    <3>4. j.kind # "end" BY <1>3, <2>3, <3>2 DEF Overtakes
    <3>5. ASSUME j.kind = "lap" PROVE j.doc.lap < l
      <4>1. ~(l < j.lap) BY <1>3, <2>3, <3>2, <3>5 DEF Overtakes
      <4>2. j.lap \in Nat /\ j.doc \in Lap BY <3>5, BoundsAssumption DEF Job, JobFields
      <4>3. j.doc.lap \in Nat BY <4>2 DEF Lap
      <4>4. W.rows[l].lap = l /\ l # 0 BY <3>1, <3>2 DEF Untold, LapIds
      <4>5. CASE l = j.lap
        <5>1. j.doc.lap = l BY <3>5, <4>4, <4>5 DEF Faithful
        <5> QED BY <3>2, <3>5, <5>1
      <4>6. CASE l > j.lap
        <5>1. l > j.doc.lap BY <3>1, <3>5, <4>4, <4>6 DEF Faithful
        <5> QED BY <3>1, <4>3, <5>1
      <4> QED BY <3>1, <4>1, <4>2, <4>5, <4>6
    <3>6. ~V.remote[t].ended BY <2>1, <2>5, <3>3, <3>4 DEF Opens
    <3>7. ASSUME NEW n, Told(V, t, n) PROVE n < l
      <4>1. Told(W, t, n) \/ (j.kind = "lap" /\ n = j.doc.lap) BY <2>3, <3>7, LearnsOne
      <4> QED BY <2>1, <3>3, <3>5, <4>1 DEF Opens
    <3> QED BY <3>3, <3>6, <3>7 DEF Opens
  <2>9. \A l \in ToSet(x.queue) : l <= V.finished BY <2>4 DEF InLine
  <2>10. \A l \in LapIds : x.laps[l] = "synced" => l <= V.finished /\ ~Untold(l, s, t, V)
    BY <1>3, <2>4, <2>7 DEF InLine
  <2>11. ~x.closed /\ (x.ended \/ x.analysisPending) => x.endPending \/ V.remote[t].ended
    BY <1>3, <2>6 DEF InLine
  <2>12. x.endPending => s # V.open /\ s <= V.opened BY <2>4 DEF InLine
  <2> QED BY <1>3, <2>5, <2>8, <2>9, <2>10, <2>11, <2>12 DEF InLine
<1> QED BY <1>2, <1>3

LEMMA HeardMore ==
    ASSUME NEW W, NEW V, NEW j \in Job, NEW t \in RemoteIds, Tells(j, t, W, V),
           W.remote \in [RemoteIds -> RemoteSession], Heard(W), j.at = "sent",
           j.session <= W.opened, j.kind = "lap" => Faithful(j, W),
           j.kind = "end" => j.session # W.open
    PROVE  Heard(V)
<1>1. ASSUME NEW u \in RemoteIds
      PROVE  /\ V.remote[u].drive <= V.opened
             /\ \A d \in V.remote[u].laps : d.lap <= V.finished
             /\ V.remote[u].ended /\ V.remote[u].drive # 0 => V.remote[u].drive # V.open
  <2>0. V.finished = W.finished /\ V.opened = W.opened /\ V.open = W.open BY DEF Tells
  <2>1. /\ W.remote[u].drive <= W.opened
        /\ \A d \in W.remote[u].laps : d.lap <= W.finished
        /\ W.remote[u].ended /\ W.remote[u].drive # 0 => W.remote[u].drive # W.open
    BY DEF Heard
  <2>2. CASE u # t
    <3>1. V.remote[u] = W.remote[u] BY <2>2 DEF Tells
    <3> QED BY <2>0, <2>1, <3>1
  <2>3. CASE u = t
    <3> DEFINE g == V.remote[t]
               h == W.remote[t]
               L == {d \in h.laps : d.lap # j.doc.lap} \cup {j.doc}
    <3>1. g = Holding(j, h) /\ h \in RemoteSession BY DEF Tells
    <3>2. j.kind # "start" => h.drive = j.session BY DEF Tells
    <3> HIDE DEF g, h
    <3>3. j.kind \in {"start", "name", "lap", "end", "analysis"} BY DEF Job, JobFields, Kinds
    <3>4. CASE j.kind = "start"
      <4>1. g.drive = j.session /\ g.laps = {} /\ ~g.ended BY <3>1, <3>4, Becomes
      <4> QED BY <2>0, <2>3, <4>1 DEF g
    <3>5. CASE j.kind = "lap"
      <4>1. g.drive = h.drive /\ g.ended = h.ended /\ g.laps = L BY <3>1, <3>5, Becomes
      <4>2. \A d \in L : d \in h.laps \/ d = j.doc OBVIOUS
      <4>3. j.doc.lap <= W.finished BY <3>5 DEF Faithful
      <4> HIDE DEF L
      <4> QED BY <2>0, <2>1, <2>3, <4>1, <4>2, <4>3 DEF g, h
    <3>6. CASE j.kind = "end"
      <4>1. g.drive = h.drive /\ g.laps = h.laps BY <3>1, <3>6, Becomes
      <4> QED BY <2>0, <2>1, <2>3, <3>2, <3>6, <4>1 DEF g, h
    <3>7. CASE j.kind \in {"name", "analysis"}
      <4>1. g.drive = h.drive /\ g.laps = h.laps /\ g.ended = h.ended
        BY <3>1, <3>7, Becomes
      <4> QED BY <2>0, <2>1, <2>3, <4>1 DEF g, h
    <3> QED BY <3>3, <3>4, <3>5, <3>6, <3>7
  <2> QED BY <2>2, <2>3
<1> QED BY <1>1 DEF Heard

\* A request that was turned away, or whose answer was lost.
LEMMA WayLost ==
    ASSUME NEW W, NEW V, V.opened = W.opened, V.finished = W.finished, V.open = W.open,
           NEW j, NEW r, NEW q, Way(j, r, q, W), j.at = "sent",
           j.kind # "start" => V.remote[j.target].drive = j.session,
           NEW k, k.at = "answered", k.kind = j.kind, k.session = j.session, k.lap = j.lap,
           k.own = j.own, k.target = j.target, k.reply # "ok"
    PROVE  Way(k, r, q, V)
BY DEF Way

\* A request the service took: what was sent is there.
LEMMA WayTaken ==
    ASSUME NEW W, NEW V, NEW j \in Job, NEW t \in RemoteIds, Tells(j, t, W, V),
           W.remote[t] \in RemoteSession,
           NEW r, NEW q, Way(j, r, q, W), j.at = "sent",
           NEW k, k.at = "answered", k.kind = j.kind, k.session = j.session, k.lap = j.lap,
           k.own = j.own, k.target = t
    PROVE  Way(k, r, q, V)
<1>1. V.finished = W.finished /\ V.opened = W.opened /\ V.open = W.open
      /\ V.rows = W.rows /\ V.remote[t] = Holding(j, W.remote[t]) /\ t # 0
  BY DEF Tells, RemoteIds
<1>2. j.kind # "start" => t = j.target /\ W.remote[t].drive = j.session BY DEF Tells
<1>3. V.remote[t].drive = j.session BY <1>1, <1>2, Becomes
<1>4. Arrived(k, V)
  <2>1. j.kind = "start" => V.remote[t].laps = {} /\ ~V.remote[t].ended BY <1>1, Becomes
  <2>2. j.kind = "end" => V.remote[t].ended BY <1>1, Becomes
  <2>3. j.kind = "lap" => ~Untold(j.lap, j.session, t, V)
    <3> SUFFICES ASSUME j.kind = "lap", Untold(j.lap, j.session, t, V) PROVE FALSE OBVIOUS
    <3>1. j.lap \in LapIds BY BoundsAssumption DEF Job, JobFields, LapIds
    <3>2. Faithful(j, W) BY DEF Way
    <3>3. W.rows[j.lap].lap = j.lap BY <1>1 DEF Untold
    <3>4. j.lap # j.doc.lap BY <3>1, <3>2, StillUntold
    <3> QED BY <3>2, <3>3, <3>4 DEF Faithful
  <2> QED BY <2>1, <2>2, <2>3 DEF Arrived
<1> QED BY <1>1, <1>2, <1>3, <1>4 DEF Way

\* k is the request j with its answer on the way.
Answering(j, k) == /\ k.at = "answered" /\ k.kind = j.kind /\ k.session = j.session
                   /\ k.lap = j.lap /\ k.own = j.own

LEMMA AnswersAs ==
    ASSUME TypeOK, NEW w \in Workers, NEW x, NEW u, Answers(w, x, u)
    PROVE  \E k : /\ job' = [job EXCEPT ![w] = k]
                  /\ Answering(job[w], k) /\ k.reply = x /\ k.target = u
<1> DEFINE k == [job[w] EXCEPT !.at = "answered", !.reply = x, !.target = u]
<1>1. job[w] \in Job BY Types
<1>2. job' = [job EXCEPT ![w] = k] BY <1>1, Types DEF Answers, Job, JobFields
<1>3. Answering(job[w], k) /\ k.reply = x /\ k.target = u
  BY <1>1 DEF Answering, Job, JobFields
<1> QED BY <1>2, <1>3

\* The step of the service that takes a request, as the order sees it.
LEMMA Taking ==
    ASSUME TypeOK, Lines, Ways, NEW w \in Workers, ServiceTakes(w)
    PROVE  /\ job[w] \in Job /\ job[w].at = "sent" /\ job[w].session \in Sessions
           /\ Way(job[w], rec[job[w].session], disk.recs[job[w].session], World)
           /\ UNCHANGED <<rec, disk, recUrl>>
           /\ \E t \in RemoteIds : Tells(job[w], t, World, World')
                 /\ \E k : /\ job' = [job EXCEPT ![w] = k] /\ Answering(job[w], k)
                           /\ \/ k.target = t
                              \/ k.target = job[w].target /\ k.reply # "ok"
<1>1. /\ job[w].at = "sent"
      /\ UNCHANGED <<rec, disk, recUrl, rows, finished, opened, open>>
  BY DEF ServiceTakes, dbVars
<1>2. InFlight(job[w]) BY <1>1 DEF InFlight
<1>3. /\ job[w] \in Job /\ job[w].session \in Sessions
      /\ Way(job[w], rec[job[w].session], disk.recs[job[w].session], World)
  BY <1>2, OnItsWay
<1>4. PICK t \in RemoteIds :
         /\ IF job[w].kind = "start" THEN t \in FreeRemotes ELSE t = job[w].target
         /\ remote' = [remote EXCEPT ![t] = Holding(job[w], remote[t])]
         /\ \/ Answers(w, "ok", t)
            \/ Answers(w, "transient", job[w].target)
  BY DEF ServiceTakes
<1>5. remote \in [RemoteIds -> RemoteSession] BY DEF TypeOK, ServerTypeOK
<1>6. Tells(job[w], t, World, World')
  <2>1. /\ remote'[t] = Holding(job[w], remote[t])
        /\ \A u \in RemoteIds : u # t => remote'[u] = remote[u]
    BY <1>4, <1>5
  <2>2. job[w].kind = "start" => remote[t].drive = 0 BY <1>4 DEF FreeRemotes
  <2>3. job[w].kind # "start" => t = job[w].target /\ remote[t].drive = job[w].session
    BY <1>3, <1>4, WorldFields DEF Way
  <2> QED BY <1>1, <2>1, <2>2, <2>3, WorldFields DEF Tells
<1>7. \E k : /\ job' = [job EXCEPT ![w] = k] /\ Answering(job[w], k)
             /\ \/ k.target = t
                \/ k.target = job[w].target /\ k.reply # "ok"
  <2>1. CASE Answers(w, "ok", t)
    <3>1. PICK k : /\ job' = [job EXCEPT ![w] = k] /\ Answering(job[w], k) /\ k.target = t
      BY <2>1, AnswersAs
    <3> QED BY <3>1
  <2>2. CASE Answers(w, "transient", job[w].target)
    <3>1. PICK k : /\ job' = [job EXCEPT ![w] = k] /\ Answering(job[w], k)
                   /\ k.reply = "transient" /\ k.target = job[w].target
      BY <2>2, AnswersAs
    <3> QED BY <3>1
  <2> QED BY <1>4, <2>1, <2>2
<1> QED BY <1>1, <1>3, <1>6, <1>7

LEMMA TakesInLine ==
    ASSUME TypeOK, Heard(World), Lines, Ways, OneUnderWay,
           NEW w \in Workers, ServiceTakes(w)
    PROVE  Heard(World') /\ Lines' /\ Ways'
<1>1. PICK j : j = job[w] OBVIOUS
<1>2. /\ j \in Job /\ j.at = "sent" /\ j.session \in Sessions
      /\ Way(j, rec[j.session], disk.recs[j.session], World)
      /\ UNCHANGED <<rec, disk>>
  BY <1>1, Taking
<1>3. PICK t \in RemoteIds : Tells(j, t, World, World')
         /\ \E k : /\ job' = [job EXCEPT ![w] = k] /\ Answering(j, k)
                   /\ \/ k.target = t
                      \/ k.target = j.target /\ k.reply # "ok"
  BY <1>1, Taking
<1>4. PICK k : /\ job' = [job EXCEPT ![w] = k] /\ Answering(j, k)
                /\ \/ k.target = t
                   \/ k.target = j.target /\ k.reply # "ok"
  BY <1>3
<1>5. World.remote \in [RemoteIds -> RemoteSession] /\ World.remote[t] \in RemoteSession
  BY WorldFields DEF TypeOK, ServerTypeOK
<1>6. /\ j.kind = "lap" => Faithful(j, World)
      /\ j.kind = "end" => j.session # World.open
      /\ j.session <= World.opened
      /\ j.kind \in {"lap", "end"} => /\ ~Overtakes(j, rec[j.session], World)
                                      /\ ~Overtakes(j, disk.recs[j.session], World)
  BY <1>2 DEF Way, Timely
<1>7. Heard(World') BY <1>2, <1>3, <1>5, <1>6, HeardMore
<1>8. rec \in [Sessions -> Record] /\ disk.recs \in [Sessions -> Record] BY Types
<1>9. ASSUME NEW s \in Sessions
      PROVE  InLine(rec[s], s, World') /\ InLine(disk.recs[s], s, World')
  <2>1. rec[s] \in Record /\ disk.recs[s] \in Record BY <1>8
  <2>2. InLine(rec[s], s, World) /\ InLine(disk.recs[s], s, World) BY DEF Lines, InOrder
  <2>3. InLine(rec[s], s, World') BY <1>2, <1>3, <1>5, <1>6, <2>1, <2>2, ToldInLine
  <2>4. InLine(disk.recs[s], s, World') BY <1>2, <1>3, <1>5, <1>6, <2>1, <2>2, ToldInLine
  <2> QED BY <2>3, <2>4
<1>10. Lines' BY <1>2, <1>9 DEF Lines, InOrder
<1>11. Way(k, rec[j.session], disk.recs[j.session], World')
  <2>1. CASE k.target = t BY <1>2, <1>3, <1>4, <1>5, <2>1, WayTaken DEF Answering
  <2>2. CASE k.target = j.target /\ k.reply # "ok"
    <3>1. /\ World'.opened = World.opened /\ World'.finished = World.finished
          /\ World'.open = World.open
      BY <1>3 DEF Tells
    <3>2. j.kind # "start" => World'.remote[j.target].drive = j.session
      <4>1. j.kind # "start" => /\ t = j.target /\ World.remote[t].drive = j.session
                                /\ World'.remote[t] = Holding(j, World.remote[t])
        BY <1>3 DEF Tells
      <4> QED BY <1>2, <1>5, <4>1, Becomes
    <3> QED BY <1>2, <1>4, <2>2, <3>1, <3>2, WayLost DEF Answering
  <2> QED BY <1>4, <2>1, <2>2
<1>12. job'[w] = k /\ \A v \in Workers : v # w => job'[v] = job[v] BY <1>4, Types
<1>13. k.session = j.session /\ j.session # 0 BY <1>2, <1>4 DEF Answering, Sessions
<1>14. ASSUME NEW v \in Workers PROVE OnTime(v)'
  <2>1. CASE v = w BY <1>2, <1>11, <1>12, <1>13, <2>1 DEF OnTime
  <2>2. CASE v # w
    <3>1. InFlight(job[w]) BY <1>1, <1>2 DEF InFlight
    <3>2. ~InFlight(job'[v]) BY <1>12, <2>2, <3>1 DEF OneUnderWay
    <3> QED BY <3>2 DEF OnTime
  <2> QED BY <2>1, <2>2
<1> QED BY <1>7, <1>10, <1>14 DEF Ways

LEMMA ServiceInLine ==
    ASSUME TypeOK, TypeOK', Lines, Ways, Calm(World, World'), OneUnderWay', Service,
           ~\E w \in Workers : ServiceTakes(w)
    PROVE  Lines' /\ Ways'
<1>1. CASE OfferChanges \/ \E r \in RemoteIds : SessionExpires(r)
  <2>1. UNCHANGED adapterVars BY <1>1 DEF OfferChanges, SessionExpires
  <2>2. UNCHANGED <<rec, disk>> /\ \A w \in Workers : Going(w)
    BY <2>1 DEF adapterVars, workerVars, Going
  <2> QED BY <2>2, StandsInLine
<1>2. ASSUME NEW w \in Workers, ServiceDeclines(w) PROVE Lines' /\ Ways'
  <2>1. PICK j : j = job[w] OBVIOUS
  <2>2. j.at = "sent" /\ UNCHANGED <<rec, disk>> BY <1>2, <2>1 DEF ServiceDeclines
  <2>3. /\ j \in Job /\ j.session # 0
        /\ Way(j, rec[j.session], disk.recs[j.session], World)
    <3>1. InFlight(job[w]) BY <2>1, <2>2 DEF InFlight
    <3> QED BY <2>1, <3>1, OnItsWay
  <2>4. PICK x : x # "ok" /\ Answers(w, x, j.target) BY <1>2, <2>1 DEF ServiceDeclines
  <2>5. PICK k : /\ job' = [job EXCEPT ![w] = k] /\ Answering(j, k)
                 /\ k.reply = x /\ k.target = j.target
    BY <2>1, <2>4, AnswersAs
  <2>6. j.kind # "start" => World.remote[j.target].drive = j.session BY <2>3 DEF Way
  <2>7. Way(k, rec[j.session], disk.recs[j.session], World)
    BY <2>2, <2>3, <2>4, <2>5, <2>6, WayLost DEF Answering
  <2>8. k.session = j.session /\ InFlight(k) BY <2>5 DEF Answering, InFlight
  <2> QED BY <2>2, <2>3, <2>5, <2>7, <2>8, GoesOut
<1> QED BY <1>1, <1>2 DEF Service

-----------------------------------------------------------------------------

LEMMA AfreshStays ==
    ASSUME TypeOK, Afresh, [Next]_vars PROVE Afresh'
<1>0. rec \in [Sessions -> Record] BY Types
<1>1. NoRecord.remote = 0 /\ NewRecord.remote = 0 BY DEF NoRecord, NewRecord
<1>2. CASE Write(rec') /\ recUrl' = recUrl
  <2>1. disk'.url = recUrl' BY <1>2 DEF Write
  <2> QED BY <2>1 DEF Afresh
<1>3. CASE UNCHANGED <<rec, disk, recUrl>> BY <1>3 DEF Afresh
<1>4. CASE SessionStarted
  <2>1. /\ rec' = [ClosePrevious EXCEPT ![opened + 1] = NewRecord] /\ recUrl' = recUrl
        /\ disk' = disk \/ Write(ClosePrevious)
    BY <1>4 DEF SessionStarted
  <2>2. CASE Write(ClosePrevious)
    <3>1. disk'.url = recUrl' BY <2>1, <2>2 DEF Write
    <3> QED BY <3>1 DEF Afresh
  <2>3. CASE disk' = disk
    <3> SUFFICES ASSUME disk.url # recUrl, NEW s \in Sessions PROVE rec'[s].remote = 0
      BY <2>1, <2>3 DEF Afresh
    <3>1. rec[s].remote = 0 /\ rec[s] \in Record BY <1>0 DEF Afresh
    <3>2. ClosePrevious[s].remote = 0
      <4> DEFINE n == [rec[s] EXCEPT !.endPending = TRUE, !.analysisPending = TRUE,
                                     !.ended = TRUE]
      <4>1. n.remote = rec[s].remote BY <3>1 DEF Record
      <4>2. EndedRecord(rec[s]) \in {n, NoRecord} BY DEF EndedRecord
      <4> HIDE DEF n
      <4>3. EndedRecord(rec[s]).remote = 0 BY <1>1, <3>1, <4>1, <4>2
      <4> QED BY <1>1, <3>1, <4>3, Closings
    <3>3. ClosePrevious \in [Sessions -> Record] BY ClosingKeeps
    <3> QED BY <1>1, <2>1, <3>2, <3>3
  <2> QED BY <2>1, <2>2, <2>3
<1>5. ASSUME NEW l \in LapIds, NEW s \in Sessions, LapChanged(l, s) PROVE Afresh'
  <2>1. CASE rec[s].remote = 0
    <3>1. UNCHANGED <<rec, disk, recUrl>> BY <1>5, <2>1 DEF LapChanged
    <3> QED BY <1>3, <3>1
  <2>2. CASE rec[s].remote # 0
    <3>1. disk.url = recUrl BY <2>2 DEF Afresh
    <3>2. recUrl' = recUrl /\ (disk' = disk \/ Write(rec')) BY <1>5 DEF LapChanged
    <3>3. disk'.url = recUrl' BY <3>1, <3>2 DEF Write
    <3> QED BY <3>3 DEF Afresh
  <2> QED BY <2>1, <2>2
<1>6. ASSUME NEW f, disk' = f, rec' = Reloaded(f, recUrl') PROVE Afresh'
  BY <1>1, <1>6 DEF Reloaded, Afresh
<1>7. CASE ConnectionReset
  <2>1. disk' = disk /\ rec' = Reloaded(disk, recUrl') BY <1>7 DEF ConnectionReset
  <2> QED BY <1>6, <2>1
<1>8. CASE Restarted \/ Crashed
  <2>1. PICK f : Started(f) BY <1>8 DEF Restarted, Crashed
  <2>2. disk' = f /\ rec' = Reloaded(f, recUrl') BY <2>1 DEF Started
  <2> QED BY <1>6, <2>2
<1>9. CASE AllCleared \/ (\E l \in LapIds : LapSaved(l) \/ RulingCommitted(l) \/ LapDeleted(l))
           \/ \E s \in Sessions : SessionDeleted(s)
  <2>1. recUrl' = recUrl /\ (Write(rec') \/ UNCHANGED <<rec, disk>>)
    BY <1>9 DEF AllCleared, LapSaved, RulingCommitted, LapDeleted, SessionDeleted, adapterVars
  <2> QED BY <1>2, <1>3, <2>1
<1>10. ASSUME NEW w \in Workers, Worker(w) PROVE Afresh'
  <2>1. CASE WorkerStops(w) \/ HeldBack(w) \/ SwitchedOffByService(w) \/ Unwinds(w)
             \/ TotalsLoaded(w)
    <3>1. UNCHANGED <<rec, disk, recUrl>>
      BY <2>1 DEF WorkerStops, HeldBack, SwitchedOffByService, Unwinds, TotalsLoaded
    <3> QED BY <1>3, <3>1
  <2>2. CASE WorkerIdles(w)
    <3>1. Write(rec') /\ recUrl' = recUrl BY <2>2 DEF WorkerIdles
    <3> QED BY <1>2, <3>1
  <2>3. CASE PushNext(w)
    <3>1. recUrl' = recUrl /\ (Write(rec') \/ UNCHANGED <<rec, disk>>)
      BY <2>3 DEF PushNext
    <3> QED BY <1>2, <1>3, <3>1
  <2>4. CASE LapLoaded(w) \/ AnalysisLoaded(w)
    <3>1. recUrl' = recUrl /\ (Write(rec') \/ UNCHANGED <<rec, disk>>)
      BY <2>4 DEF LapLoaded, AnalysisLoaded, Resolves
    <3> QED BY <1>2, <1>3, <3>1
  <2>5. CASE Accepted(w) \/ Refused(w)
    <3>1. recUrl' = recUrl /\ (Write(rec') \/ UNCHANGED <<rec, disk>>)
      <4>1. CASE Accepted(w)
        <5>1. job[w].kind \in Kinds
          <6>1. job[w] \in Job BY Types
          <6> QED BY <6>1 DEF Job, JobFields
        <5>2. recUrl' = recUrl /\ ((\E r : Records(w, r)) \/ Resolves(w, job[w].lap, "synced"))
          BY <4>1, <5>1 DEF Accepted, Kinds
        <5> QED BY <5>2 DEF Records, Resolves
      <4>2. CASE Refused(w)
        <5>1. recUrl' = recUrl /\ \E r : Records(w, r) BY <4>2 DEF Refused
        <5> QED BY <5>1 DEF Records
      <4> QED BY <2>5, <4>1, <4>2
    <3> QED BY <1>2, <1>3, <3>1
  <2> QED BY <1>10, <2>1, <2>2, <2>3, <2>4, <2>5 DEF Worker
<1>11. CASE SwitchedOn \/ SwitchedOff \/ BringUpAsks \/ BringUpActs \/ ConnectionTested
            \/ PushPressed \/ (\E u \in Urls : ConnectionChanged(u)) \/ Service \/ BackoffOver
            \/ UNCHANGED vars
  <2>1. UNCHANGED <<rec, disk, recUrl>>
    BY <1>11 DEF SwitchedOn, SwitchedOff, BringUpAsks, BringUpActs, ConnectionTested,
         PushPressed, ConnectionChanged, Service, ServiceTakes, ServiceDeclines,
         SessionExpires, OfferChanges, BackoffOver, vars, adapterVars
  <2> QED BY <1>3, <2>1
<1> QED BY <1>4, <1>5, <1>7, <1>8, <1>9, <1>10, <1>11 DEF Next, Recorder, Client

LEMMA InitOrder == Init => OrderInv
<1> SUFFICES ASSUME Init PROVE OrderInv OBVIOUS
<1>1. Inv BY InitInv
<1>2. /\ rows = [l \in LapIds |-> NoLap] /\ rec = [s \in Sessions |-> NoRecord]
      /\ disk.recs = [s \in Sessions |-> NoRecord] /\ disk.url = recUrl
      /\ remote = [t \in RemoteIds |-> NoRemote] /\ job = [w \in Workers |-> NoJob]
      /\ opened = 0
  BY DEF Init
<1>3. NoLap.lap = 0 /\ NoRemote.drive = 0 /\ NoRemote.laps = {}
  BY DEF NoLap, NoRemote
<1>4. ~InFlight(NoJob) BY NoJobType DEF InFlight
<1> HIDE DEF NoLap, NoRemote, NoJob, NoRecord
<1>5. Ascending(World) BY <1>2, <1>3, WorldFields DEF Ascending
<1>6. Heard(World) BY <1>2, <1>3, WorldFields DEF Heard
<1>7. Lines BY <1>2, EmptyInLine DEF Lines, InOrder
<1>8. Ways BY <1>2, <1>4 DEF Ways, OnTime
<1>9. Afresh BY <1>2 DEF Afresh
<1> QED BY <1>1, <1>5, <1>6, <1>7, <1>8, <1>9 DEF OrderInv

LEMMA StepKeepsOrder ==
    ASSUME OrderInv, OneUnderWay, OneUnderWay', [Next]_vars PROVE OrderInv'
<1>0. /\ Inv /\ TypeOK /\ Fresh /\ CrashLosesNothing
      /\ Ascending(World) /\ Heard(World) /\ Afresh /\ Lines /\ Ways
  BY DEF OrderInv, Inv
<1>1. Inv' /\ TypeOK'
  <2>1. Inv' BY <1>0, StepKeepsInv
  <2> QED BY <2>1 DEF Inv
<1>2. Ascending(World') BY <1>0, <1>1, AscendingStays
<1>3. Afresh' BY <1>0, AfreshStays
<1>4. Heard(World') /\ Lines' /\ Ways'
  <2>1. CASE \E w \in Workers : ServiceTakes(w) BY <1>0, <2>1, TakesInLine
  <2>2. CASE ~\E w \in Workers : ServiceTakes(w)
    <3>1. Calm(World, World') BY <1>0, <1>1, <2>2, StepCalm
    <3>2. World'.remote \in [RemoteIds -> RemoteSession]
      BY <1>1, WorldFields DEF TypeOK, ServerTypeOK
    <3>3. Heard(World') BY <1>0, <3>1, <3>2, HeardStays
    <3>4. CASE Recorder BY <1>0, <1>1, <3>1, <3>3, <3>4, RecorderInLine
    <3>5. CASE \E w \in Workers : Worker(w) BY <1>0, <1>1, <3>1, <3>3, <3>5, WorkerInLine
    <3>6. CASE Client BY <1>0, <1>1, <3>1, <3>3, <3>6, ClientInLine
    <3>7. CASE Service BY <1>0, <1>1, <2>2, <3>1, <3>3, <3>7, ServiceInLine
    <3>8. CASE BackoffOver \/ UNCHANGED vars
      <4>1. UNCHANGED <<rec, disk, job>>
        BY <3>8 DEF BackoffOver, vars, adapterVars, workerVars
      <4>2. \A w \in Workers : Going(w) BY <4>1 DEF Going
      <4> QED BY <1>0, <1>1, <3>1, <3>3, <4>1, <4>2, StandsInLine
    <3> QED BY <3>4, <3>5, <3>6, <3>7, <3>8 DEF Next
  <2> QED BY <2>1, <2>2
<1> QED BY <1>1, <1>2, <1>3, <1>4 DEF OrderInv

\* The step of DriveInOrder for the service's session t.
ToldInTurn(t) ==
    remote[t].drive # 0 /\ remote'[t].drive # 0 =>
        /\ \A l \in OwnLaps(t)' \ OwnLaps(t) : OwnId(l) =>
              ~remote[t].ended /\ \A k \in OwnLaps(t) : k < l
        /\ remote'[t].analysis # remote[t].analysis => remote[t].ended

LEMMA OwnLapsTold ==
    ASSUME NEW t PROVE /\ \A n : n \in OwnLaps(t) <=> Told(World, t, n)
                       /\ \A n : n \in OwnLaps(t)' <=> Told(World', t, n)
BY WorldFields DEF OwnLaps, Told

LEMMA StepInTurn ==
    ASSUME OrderInv, [Next]_vars, NEW t \in RemoteIds PROVE ToldInTurn(t)
<1> USE DEF OrderInv, Inv
<1> SUFFICES ASSUME remote[t].drive # 0, remote'[t].drive # 0
             PROVE  /\ \A l \in OwnLaps(t)' \ OwnLaps(t) : OwnId(l) =>
                          ~remote[t].ended /\ \A k \in OwnLaps(t) : k < l
                    /\ remote'[t].analysis # remote[t].analysis => remote[t].ended
  BY DEF ToldInTurn
<1>0. remote \in [RemoteIds -> RemoteSession] BY DEF TypeOK, ServerTypeOK
<1>1. CASE ~\E w \in Workers : ServiceTakes(w)
  <2>1. /\ remote'[t].drive = remote[t].drive /\ remote'[t].laps = remote[t].laps
        /\ remote'[t].analysis = remote[t].analysis
    BY <1>1, RemoteMoves
  <2>2. OwnLaps(t)' = OwnLaps(t) BY <2>1 DEF OwnLaps
  <2> QED BY <2>1, <2>2
<1>2. ASSUME NEW w \in Workers, ServiceTakes(w)
      PROVE  /\ \A l \in OwnLaps(t)' \ OwnLaps(t) : OwnId(l) =>
                   ~remote[t].ended /\ \A k \in OwnLaps(t) : k < l
             /\ remote'[t].analysis # remote[t].analysis => remote[t].ended
  <2>1. PICK j : j = job[w] OBVIOUS
  <2>2. PICK u \in RemoteIds : Tells(j, u, World, World') BY <1>2, <2>1, Taking
  <2>3. /\ j \in Job /\ j.at = "sent"
        /\ Way(j, rec[j.session], disk.recs[j.session], World)
    BY <1>2, <2>1, Taking
  <2>4. CASE u # t
    <3>1. remote'[t] = remote[t] BY <2>2, <2>4, WorldFields DEF Tells
    <3>2. OwnLaps(t)' = OwnLaps(t) BY <3>1 DEF OwnLaps
    <3> QED BY <3>1, <3>2
  <2>5. CASE u = t
    <3>1. /\ j.kind # "start" /\ t = j.target /\ remote[t].drive = j.session
          /\ remote'[t] = Holding(j, remote[t])
      BY <2>2, <2>5, WorldFields DEF Tells
    <3>2. Timely(j, rec[j.session], disk.recs[j.session], World) BY <2>3 DEF Way
    <3>3. ASSUME remote'[t].analysis # remote[t].analysis PROVE remote[t].ended
      <4>1. j.kind = "analysis" BY <1>0, <2>3, <3>1, <3>3, Becomes
      <4> QED BY <3>1, <3>2, <4>1, WorldFields DEF Timely
    <3>4. ASSUME NEW l \in OwnLaps(t)' \ OwnLaps(t), OwnId(l)
          PROVE  ~remote[t].ended /\ \A k \in OwnLaps(t) : k < l
      <4>1. Told(World', t, l) /\ ~Told(World, t, l) BY <3>4, OwnLapsTold
      <4>2. World.remote[t] \in RemoteSession BY <1>0, WorldFields
      <4>3. j.kind = "lap" /\ l = j.doc.lap /\ j.doc.session = j.session
        BY <2>2, <2>3, <2>5, <3>1, <4>1, <4>2, LearnsOne
      <4>4. j.doc \in Lap /\ j.lap \in Nat /\ j.lap \in LapIds
        BY <2>3, <4>3, BoundsAssumption DEF Job, JobFields, LapIds
      <4>5. l \in LapIds /\ l \in Nat /\ l # 0
        BY <4>3, <4>4 DEF Lap, LapIds
      <4>6. Faithful(j, World) /\ j.lap <= l BY <2>3, <4>3 DEF Way, Faithful
      <4>7. rows[l].lap = l BY <3>4 DEF OwnId
      <4>8. ~(l > j.lap)
        <5>1. l > j.lap => l > l
          BY <4>3, <4>5, <4>6, <4>7, WorldFields DEF Faithful
        <5> QED BY <4>5, <5>1
      <4>9. l = j.lap BY <4>4, <4>5, <4>6, <4>8
      <4>10. Untold(j.lap, j.session, t, World)
        <5>1. rows[j.lap].lap = j.lap /\ rows[j.lap].session = j.session
          BY <4>3, <4>6, <4>7, <4>9, WorldFields DEF Faithful
        <5> QED BY <4>1, <4>9, <5>1, WorldFields DEF Untold
      <4>11. Opens(t, l, World) BY <3>1, <3>2, <4>3, <4>9, <4>10 DEF Timely
      <4>12. t # 0 BY DEF RemoteIds
      <4>13. ~World.remote[t].ended /\ \A n : Told(World, t, n) => n < l
        BY <4>11, <4>12 DEF Opens
      <4> QED BY <4>13, OwnLapsTold, WorldFields
    <3> QED BY <3>3, <3>4
  <2> QED BY <2>4, <2>5
<1> QED BY <1>1, <1>2

\* DriveInOrder for every value of the constants, while one request at a time
\* is under way: the service is told a drive's laps in the order they were
\* driven, then its totals, then its analysis, whatever failed, was retried,
\* was queued again or was lost with the process.
THEOREM ToldInOrder == Spec => ([]OneUnderWay => DriveInOrder)
<1>1. Init => OrderInv BY InitOrder
<1>2. OrderInv /\ OneUnderWay /\ OneUnderWay' /\ [Next]_vars => OrderInv'
  BY StepKeepsOrder
<1>3. OrderInv /\ [Next]_vars => [\A r \in RemoteIds : ToldInTurn(r)]_vars
  BY StepInTurn
<1>4. (\A r \in RemoteIds : ToldInTurn(r)) <=>
         \A r \in RemoteIds :
            remote[r].drive # 0 /\ remote'[r].drive # 0 =>
              /\ \A l \in OwnLaps(r)' \ OwnLaps(r) : OwnId(l) =>
                    ~remote[r].ended /\ \A k \in OwnLaps(r) : k < l
              /\ remote'[r].analysis # remote[r].analysis => remote[r].ended
  BY DEF ToldInTurn
<1> QED BY <1>1, <1>2, <1>3, <1>4, PTL DEF Spec, DriveInOrder

-----------------------------------------------------------------------------
(* The tracks adapter.                                                     *)

\* A note about b, made of the server s: what it calls synced s has taken, or
\* it left while the settings held another address.
Statuses == {"queued", "unconfirmed", "imported", "uploading", "synced", "rejected", "error"}
NoteType == [held: BOOLEAN, status: Statuses, digest: Nat]
AnsweredFor(s, b, doc) == <<b, doc>> \in taken[s] \/ <<s, b, doc>> \in astray
NotesSound(notes, s) ==
    \A b \in Bundles : notes[b].status = "synced" => AnsweredFor(s, b, notes[b].digest)

PushType ==
    [at: {"off", "new", "ready", "loading", "digesting", "sent", "answered"},
     batch: SUBSET Bundles, of: Bundles \cup {0}, doc: Nat, own: BOOLEAN, to: Servers,
     reply: {"none", "ok", "transient", "auth", "rejected", "type_disabled"}]

\* A push past the queue is of a bundle; one that still owns its record is on
\* its way to the server the records are about or went astray, and what was
\* answered with a success its server has taken.
PushSound(p) ==
    /\ p.at \in {"loading", "digesting", "sent", "answered"} => p.of \in Bundles
    /\ p.own /\ p.at \in {"sent", "answered"} => 
          p.to = recordsOf \/ <<recordsOf, p.of, p.doc>> \in astray
    /\ p.at = "answered" /\ p.reply = "ok" => <<p.of, p.doc>> \in taken[p.to]

TracksType ==
    /\ bundle \in [Bundles -> [here: BOOLEAN, layout: BOOLEAN, own: Nat]] /\ writes \in Nat
    /\ server \in Servers /\ recordsOf \in Servers
    /\ records \in [Bundles -> NoteType]
    /\ stateFile \in [of: Servers, records: [Bundles -> NoteType]]
    /\ dirty \subseteq Bundles
    /\ push \in [Uploads -> PushType]
    /\ taken \in [Servers -> SUBSET ((Bundles \cup {0}) \X Nat)]

TracksInv ==
    /\ TracksType
    /\ NotesSound(records, recordsOf)
    /\ NotesSound(stateFile.records, stateFile.of)
    /\ \A w \in Uploads : PushSound(push[w])

LEMMA InitTracks == Tracks!Init => TracksInv
<1> SUFFICES ASSUME Tracks!Init PROVE TracksInv OBVIOUS
<1> USE HomeAssumption DEF Tracks!Init, Tracks!NoRecord, Tracks!NoPush
<1>1. TracksType BY DEF TracksType, NoteType, Statuses, PushType
<1>2. NotesSound(records, recordsOf) /\ NotesSound(stateFile.records, stateFile.of)
  BY DEF NotesSound
<1>3. \A w \in Uploads : PushSound(push[w]) BY DEF PushSound
<1> QED BY <1>1, <1>2, <1>3 DEF TracksInv

\* What the file keeps of sound notes is sound.
LEMMA TracksKept ==
    ASSUME NEW notes \in [Bundles -> NoteType], NEW s, NotesSound(notes, s)
    PROVE  Tracks!Kept(notes) \in [Bundles -> NoteType] /\ NotesSound(Tracks!Kept(notes), s)
<1>1. Tracks!NoRecord \in NoteType /\ Tracks!NoRecord.status # "synced"
  BY DEF Tracks!NoRecord, NoteType, Statuses
<1> QED BY <1>1 DEF Tracks!Kept, NotesSound

\* A step that leaves the documents, the server, the notes and what was taken
\* alone need only answer for the pushes.
LEMMA PushesMove ==
    ASSUME TracksInv, UNCHANGED <<bundle, writes, server, recordsOf, records, stateFile, astray>>,
           dirty' \subseteq Bundles, push' \in [Uploads -> PushType],
           taken' \in [Servers -> SUBSET ((Bundles \cup {0}) \X Nat)],
           \A s \in Servers : taken[s] \subseteq taken'[s],
           \A w \in Uploads : push'[w] = push[w] \/ PushSound(push[w])'
    PROVE  TracksInv'
<1>1. TracksType' BY DEF TracksInv, TracksType
<1>2. NotesSound(records, recordsOf)' /\ NotesSound(stateFile.records, stateFile.of)'
  BY DEF TracksInv, TracksType, NotesSound, AnsweredFor
<1>3. ASSUME NEW w \in Uploads PROVE PushSound(push[w])'
  <2>1. push[w] \in PushType BY DEF TracksInv, TracksType
  <2>2. push[w].to \in Servers BY <2>1 DEF PushType
  <2>3. CASE push'[w] = push[w]
    BY <2>2, <2>3 DEF TracksInv, PushSound
  <2> QED BY <2>3
<1> QED BY <1>1, <1>2, <1>3 DEF TracksInv

\* The push that a worker goes on with once one is over, and a fresh one.
LEMMA FreshPush ==
    /\ Tracks!NoPush \in PushType /\ ~Tracks!NoPush.own /\ Tracks!NoPush.at = "off"
    /\ [Tracks!NoPush EXCEPT !.at = "new"] \in PushType
    /\ ~[Tracks!NoPush EXCEPT !.at = "new"].own /\ [Tracks!NoPush EXCEPT !.at = "new"].at = "new"
    /\ \A S \in SUBSET Bundles :
          /\ Tracks!Idle(S) \in PushType /\ ~Tracks!Idle(S).own /\ Tracks!Idle(S).at = "ready"
BY HomeAssumption DEF Tracks!NoPush, Tracks!Idle, PushType

\* _kick begins at most one coroutine.
LEMMA TracksKicked ==
    ASSUME NEW p \in [Uploads -> PushType], Tracks!Kick(p)
    PROVE  /\ push' \in [Uploads -> PushType]
           /\ \A w \in Uploads : push'[w] = p[w] \/ PushSound(push[w])'
<1>1. \/ push' = p
      \/ \E w \in Uploads : push' = [p EXCEPT ![w] = [Tracks!NoPush EXCEPT !.at = "new"]]
  BY DEF Tracks!Kick, Tracks!Spawns
<1> QED BY <1>1, FreshPush DEF PushSound

\* A step that changes notes, with the server and what was taken as they were.
LEMMA NotesMove ==
    ASSUME TracksInv, UNCHANGED <<server, recordsOf, taken>>, astray \subseteq astray',
           bundle' \in [Bundles -> [here: BOOLEAN, layout: BOOLEAN, own: Nat]], writes' \in Nat,
           dirty' \subseteq Bundles, push' \in [Uploads -> PushType],
           records' \in [Bundles -> NoteType], NotesSound(records', recordsOf),
           stateFile' = stateFile \/ Tracks!Write(records'),
           \A w \in Uploads : push'[w] = push[w] \/ PushSound(push[w])'
    PROVE  TracksInv'
<1>1. /\ stateFile' \in [of: Servers, records: [Bundles -> NoteType]]
      /\ NotesSound(stateFile.records, stateFile.of)'
  <2>1. CASE stateFile' = stateFile
    BY <2>1 DEF TracksInv, TracksType, NotesSound, AnsweredFor
  <2>2. CASE Tracks!Write(records')
    <3>1. Tracks!Kept(records') \in [Bundles -> NoteType] /\ NotesSound(Tracks!Kept(records'), recordsOf)
      BY TracksKept
    <3>2. stateFile' = [of |-> recordsOf, records |-> Tracks!Kept(records')] /\ recordsOf \in Servers
      BY <2>2 DEF Tracks!Write, TracksInv, TracksType
    <3>3. /\ stateFile'.of = recordsOf /\ stateFile'.records = Tracks!Kept(records')
          /\ stateFile' \in [of: Servers, records: [Bundles -> NoteType]]
      BY <3>1, <3>2
    <3> QED BY <3>1, <3>3 DEF NotesSound, AnsweredFor
  <2> QED BY <2>1, <2>2
<1>2. TracksType' BY <1>1 DEF TracksInv, TracksType
<1>3. NotesSound(records, recordsOf)' BY DEF NotesSound, AnsweredFor
<1>4. \A w \in Uploads : PushSound(push[w])'
  BY DEF TracksInv, TracksType, PushSound
<1> QED BY <1>1, <1>2, <1>3, <1>4 DEF TracksInv

LEMMA TracksPush ==
    ASSUME TracksInv, NEW w \in Uploads
    PROVE  /\ push[w] \in PushType /\ PushSound(push[w])
BY DEF TracksInv, TracksType

\* A worker's push put back to what Done leaves.
LEMMA TracksDone ==
    ASSUME TracksInv, NEW w \in Uploads
    PROVE  /\ Tracks!Done(w) \in [Uploads -> PushType]
           /\ \A v \in Uploads : v # w => Tracks!Done(w)[v] = push[v]
           /\ ~Tracks!Done(w)[w].own /\ Tracks!Done(w)[w].at = "ready"
<1>1. push \in [Uploads -> PushType] /\ push[w].batch \in SUBSET Bundles
  BY DEF TracksInv, TracksType, PushType
<1> QED BY <1>1, FreshPush DEF Tracks!Done

\* Documents.
LEMMA DocumentsKeepTracks ==
    ASSUME TracksInv, NEW b \in Bundles,
           Tracks!Written(b) \/ Tracks!Deleted(b) \/ Tracks!Passes(b)
    PROVE  TracksInv'
<1>1. CASE Tracks!Written(b)
  <2>1. /\ bundle' \in [Bundles -> [here: BOOLEAN, layout: BOOLEAN, own: Nat]] /\ writes' \in Nat
    BY <1>1 DEF Tracks!Written, TracksInv, TracksType
  <2>2. dirty' \subseteq Bundles /\ UNCHANGED <<server, recordsOf, records, stateFile, taken, astray>>
    BY <1>1 DEF Tracks!Written, Tracks!client, Tracks!memory, Tracks!service, TracksInv, TracksType
  <2>3. push \in [Uploads -> PushType] BY DEF TracksInv, TracksType
  <2>4. /\ push' \in [Uploads -> PushType]
        /\ \A w \in Uploads : push'[w] = push[w] \/ PushSound(push[w])'
    BY <1>1, <2>3, TracksKicked DEF Tracks!Written
  <2>5. records' \in [Bundles -> NoteType] /\ NotesSound(records', recordsOf)
    BY <2>2 DEF TracksInv, TracksType
  <2> QED BY <2>1, <2>2, <2>4, <2>5, NotesMove
<1>2. CASE Tracks!Deleted(b)
  <2>1. /\ bundle' \in [Bundles -> [here: BOOLEAN, layout: BOOLEAN, own: Nat]] /\ writes' \in Nat
    BY <1>2 DEF Tracks!Deleted, TracksInv, TracksType
  <2>2. dirty' \subseteq Bundles /\ UNCHANGED <<server, recordsOf, taken, astray>>
    BY <1>2 DEF Tracks!Deleted, Tracks!Forgotten, Tracks!client, Tracks!service, TracksInv, TracksType
  <2>3. Tracks!Forgotten(b, push) BY <1>2 DEF Tracks!Deleted
  <2>4. PICK p \in [Uploads -> PushType] : p = push BY DEF TracksInv, TracksType
  <2>5. /\ push' \in [Uploads -> PushType]
        /\ \A w \in Uploads : push'[w] = push[w] \/ PushSound(push[w])'
    <3>1. ASSUME NEW v \in Uploads
          PROVE  push'[v] \in PushType /\ (push'[v] = push[v] \/ PushSound(push[v])')
      <4>1. push[v] \in PushType /\ push'[v] \in {push[v], [push[v] EXCEPT !.own = FALSE]}
        BY <2>3, <2>4 DEF Tracks!Forgotten
      <4>2. CASE push'[v] = push[v] BY <4>1, <4>2
      <4>3. CASE push'[v] = [push[v] EXCEPT !.own = FALSE]
        <5>1. PushSound(push[v]) /\ UNCHANGED taken BY <1>2, TracksPush DEF Tracks!Deleted, Tracks!service
        <5> QED BY <4>1, <4>3, <5>1 DEF PushSound, PushType
      <4> QED BY <4>1, <4>2, <4>3
    <3>2. push' = [v \in Uploads |-> push'[v]] BY <2>3 DEF Tracks!Forgotten
    <3> QED BY <3>1, <3>2
  <2>6. /\ records' \in [Bundles -> NoteType] /\ NotesSound(records', recordsOf)
        /\ stateFile' = stateFile \/ Tracks!Write(records')
    BY <2>3 DEF Tracks!Forgotten, Tracks!NoRecord, NotesSound, NoteType, Statuses, TracksInv,
       TracksType
  <2> QED BY <2>1, <2>2, <2>5, <2>6, NotesMove
<1>3. CASE Tracks!Passes(b)
  <2>1. UNCHANGED <<bundle, writes, server, recordsOf, records, stateFile, push, taken, dirty, astray>>
    BY <1>3 DEF Tracks!Passes, Tracks!SettleOver, Tracks!FloorOver, Tracks!BackoffOver,
       Tracks!documents, Tracks!client, Tracks!memory, Tracks!coroutines, Tracks!service
  <2>2. /\ dirty' \subseteq Bundles /\ push' \in [Uploads -> PushType]
        /\ taken' \in [Servers -> SUBSET ((Bundles \cup {0}) \X Nat)]
    BY <2>1 DEF TracksInv, TracksType
  <2> QED BY <2>1, <2>2, PushesMove
<1> QED BY <1>1, <1>2, <1>3

\* The worker, up to the request.
LEMMA WorkerKeepsTracks ==
    ASSUME TracksInv, NEW w \in Uploads,
           \/ Tracks!WorkerStops(w) \/ Tracks!Begins(w) \/ Tracks!Loaded(w) \/ Tracks!Digested(w)
           \/ Tracks!Unwinds(w)
    PROVE  TracksInv'
<1> USE DEF Tracks!documents, Tracks!client, Tracks!memory, Tracks!queue, Tracks!service
<1>0. /\ push \in [Uploads -> PushType] /\ dirty \subseteq Bundles /\ server \in Servers
      /\ taken \in [Servers -> SUBSET ((Bundles \cup {0}) \X Nat)]
      /\ bundle \in [Bundles -> [here: BOOLEAN, layout: BOOLEAN, own: Nat]] /\ writes \in Nat
      /\ records \in [Bundles -> NoteType] /\ NotesSound(records, recordsOf)
  BY DEF TracksInv, TracksType
<1>1. CASE Tracks!WorkerStops(w) \/ Tracks!Unwinds(w)
  <2>1. /\ UNCHANGED <<bundle, writes, server, recordsOf, records, stateFile, taken, dirty, astray>>
        /\ push' = [push EXCEPT ![w] = Tracks!NoPush]
    BY <1>1 DEF Tracks!WorkerStops, Tracks!Unwinds, Tracks!Ended
  <2>2. /\ push' \in [Uploads -> PushType]
        /\ \A v \in Uploads : push'[v] = push[v] \/ PushSound(push[v])'
    BY <1>0, <2>1, FreshPush DEF PushSound
  <2> QED BY <1>0, <2>1, <2>2, PushesMove
<1>2. CASE Tracks!Begins(w)
  <2> DEFINE batch == IF push[w].batch = {} THEN Tracks!Due ELSE push[w].batch
  <2>1. PICK b \in batch :
           /\ dirty' = dirty \ {b}
           /\ push' = [push EXCEPT ![w] = [Tracks!Idle(batch \ {b}) EXCEPT !.at = "loading", !.of = b]]
    BY <1>2 DEF Tracks!Begins
  <2>2. batch \subseteq Bundles BY <1>0 DEF PushType, Tracks!Due
  <2> DEFINE q == [Tracks!Idle(batch \ {b}) EXCEPT !.at = "loading", !.of = b]
  <2>3. Tracks!Idle(batch \ {b}) \in PushType BY <2>2, FreshPush
  <2>4. q \in PushType /\ q.at = "loading" /\ q.of = b /\ b \in Bundles BY <2>1, <2>2, <2>3 DEF PushType
  <2>5. /\ push' \in [Uploads -> PushType]
        /\ \A v \in Uploads : push'[v] = push[v] \/ PushSound(push[v])'
    BY <1>0, <2>1, <2>4 DEF PushSound
  <2>6. UNCHANGED <<bundle, writes, server, recordsOf, records, stateFile, taken, astray>>
    BY <1>2 DEF Tracks!Begins
  <2> QED BY <1>0, <2>1, <2>5, <2>6, PushesMove
<1>3. CASE Tracks!Loaded(w)
  <2> DEFINE b == push[w].of
  <2>0. UNCHANGED <<bundle, writes, server, recordsOf, taken, astray>> BY <1>3 DEF Tracks!Loaded
  <2>b. b \in Bundles
    BY <1>3, TracksPush DEF Tracks!Loaded, Tracks!Running, PushSound
  <2>1. CASE Tracks!Forgotten(b, Tracks!Done(w))
    <3>1. PICK p \in [Uploads -> PushType] :
             p = Tracks!Done(w) /\ (\A v \in Uploads : v # w => p[v] = push[v]) /\ ~p[w].own /\ p[w].at = "ready"
      BY TracksDone
    <3>2. /\ push' \in [Uploads -> PushType]
          /\ \A v \in Uploads : push'[v] = push[v] \/ PushSound(push[v])'
      <4>1. ASSUME NEW v \in Uploads
            PROVE  push'[v] \in PushType /\ (push'[v] = push[v] \/ PushSound(push[v])')
        <5>1. p[v] \in PushType /\ push'[v] \in {p[v], [p[v] EXCEPT !.own = FALSE]}
          BY <2>1, <3>1 DEF Tracks!Forgotten
        <5>2. PushSound(push[v]) BY TracksPush
        <5>3. CASE v = w
          BY <3>1, <5>1, <5>3 DEF PushSound, PushType
        <5>4. CASE v # w /\ push'[v] = p[v] BY <3>1, <5>1, <5>4
        <5>5. CASE v # w /\ push'[v] = [p[v] EXCEPT !.own = FALSE]
          <6>1. push[v] \in PushType /\ push'[v] = [push[v] EXCEPT !.own = FALSE]
            BY <3>1, <5>1, <5>5
          <6>2. taken' = taken BY <2>0
          <6> QED BY <5>2, <6>1, <6>2 DEF PushSound, PushType
        <5> QED BY <5>1, <5>3, <5>4, <5>5
      <4>2. push' = [v \in Uploads |-> push'[v]] BY <2>1 DEF Tracks!Forgotten
      <4> QED BY <4>1, <4>2
    <3>3. /\ records' \in [Bundles -> NoteType] /\ NotesSound(records', recordsOf)
          /\ stateFile' = stateFile \/ Tracks!Write(records')
      BY <1>0, <2>1 DEF Tracks!Forgotten, Tracks!NoRecord, NotesSound, NoteType, Statuses
    <3>4. dirty' \subseteq Bundles BY <1>0, <2>1 DEF Tracks!Forgotten
    <3> QED BY <1>0, <2>0, <3>2, <3>3, <3>4, NotesMove
  <2>2. ASSUME UNCHANGED <<stateFile, dirty>>, push' = Tracks!Done(w),
               NEW status \in {"unconfirmed", "imported"},
               records' = [records EXCEPT ![b] = [@ EXCEPT !.held = TRUE, !.status = status]]
        PROVE  TracksInv'
    <3>1. records' \in [Bundles -> NoteType] /\ NotesSound(records', recordsOf)
      BY <1>0, <2>b, <2>2 DEF NotesSound, NoteType, Statuses
    <3>2. /\ push' \in [Uploads -> PushType]
          /\ \A v \in Uploads : push'[v] = push[v] \/ PushSound(push[v])'
      BY <2>2, TracksDone DEF PushSound
    <3> QED BY <1>0, <2>0, <2>2, <3>1, <3>2, NotesMove
  <2>3. ASSUME UNCHANGED <<stateFile, dirty>>, records' = [records EXCEPT ![b].held = TRUE],
               bundle[b].here,
               push' = [push EXCEPT ![w].at = "digesting", ![w].doc = bundle[b].own, ![w].own = TRUE]
        PROVE  TracksInv'
    <3>1. records' \in [Bundles -> NoteType] /\ NotesSound(records', recordsOf)
      <4>1. records[b] \in NoteType BY <1>0, <2>b
      <4>2. /\ [records[b] EXCEPT !.held = TRUE] \in NoteType
            /\ [records[b] EXCEPT !.held = TRUE].status = records[b].status
            /\ [records[b] EXCEPT !.held = TRUE].digest = records[b].digest
        BY <4>1 DEF NoteType
      <4>3. records' = [records EXCEPT ![b] = [records[b] EXCEPT !.held = TRUE]] BY <2>3
      <4> QED BY <1>0, <2>b, <4>2, <4>3 DEF NotesSound
    <3>2. bundle[b].own \in Nat BY <1>0, <2>b
    <3>3. /\ push' \in [Uploads -> PushType]
          /\ \A v \in Uploads : push'[v] = push[v] \/ PushSound(push[v])'
      <4>1. push[w] \in PushType BY <1>0
      <4> DEFINE q == [push[w] EXCEPT !.at = "digesting", !.doc = bundle[b].own, !.own = TRUE]
      <4>2. q \in PushType /\ q.at = "digesting" /\ q.of = b BY <3>2, <4>1 DEF PushType
      <4>3. push' = [push EXCEPT ![w] = q] BY <1>0, <2>3
      <4> HIDE DEF q
      <4> QED BY <1>0, <2>b, <4>2, <4>3 DEF PushSound
    <3> QED BY <1>0, <2>0, <2>3, <3>1, <3>3, NotesMove
  <2> QED BY <1>3, <2>1, <2>2, <2>3 DEF Tracks!Loaded
<1>4. CASE Tracks!Digested(w)
  <2> DEFINE b == push[w].of
             r == records[b]
  <2>0. UNCHANGED <<bundle, writes, server, recordsOf, taken, stateFile>> BY <1>4 DEF Tracks!Digested
  <2>1. CASE push' = Tracks!Done(w) /\ UNCHANGED <<records, dirty, delay, astray>>
    <3>1. /\ push' \in [Uploads -> PushType]
          /\ \A v \in Uploads : push'[v] = push[v] \/ PushSound(push[v])'
      BY <2>1, TracksDone DEF PushSound
    <3> QED BY <1>0, <2>0, <2>1, <3>1, PushesMove
  <2>2. ASSUME NEW status \in {"queued", "uploading"}
        PROVE  /\ Tracks!Noted(w, status, r.digest) \in [Bundles -> NoteType]
               /\ NotesSound(Tracks!Noted(w, status, r.digest), recordsOf)
    <3>1. b \in Bundles /\ r.digest \in Nat
      BY <1>0, <1>4, TracksPush DEF Tracks!Digested, Tracks!Running, PushSound, NoteType
    <3> QED BY <1>0, <2>2, <3>1 DEF Tracks!Noted, NotesSound, NoteType, Statuses
  <2>3. CASE /\ dirty' = dirty \cup {b} /\ b \in recent
             /\ records' = Tracks!Noted(w, "queued", r.digest) /\ push' = Tracks!Done(w)
             /\ UNCHANGED astray
    <3>1. /\ push' \in [Uploads -> PushType]
          /\ \A v \in Uploads : push'[v] = push[v] \/ PushSound(push[v])'
      BY <2>3, TracksDone DEF PushSound
    <3>2. dirty' \subseteq Bundles
      BY <1>0, <1>4, <2>3, TracksPush DEF Tracks!Digested, Tracks!Running, PushSound
    <3> QED BY <1>0, <2>0, <2>2, <2>3, <3>1, <3>2, NotesMove
  <2>4. CASE /\ push' = [push EXCEPT ![w].at = "sent", ![w].to = server]
             /\ records' = Tracks!Noted(w, "uploading", r.digest) /\ UNCHANGED dirty
             /\ astray' = IF server = recordsOf THEN astray
                          ELSE astray \cup {<<recordsOf, b, push[w].doc>>}
    <3>1. /\ push' \in [Uploads -> PushType]
          /\ \A v \in Uploads : push'[v] = push[v] \/ PushSound(push[v])'
      <4>1. push[w] \in PushType /\ b \in Bundles
        BY <1>0, <1>4, TracksPush DEF Tracks!Digested, Tracks!Running, PushSound
      <4> DEFINE q == [push[w] EXCEPT !.at = "sent", !.to = server]
      <4>2. q \in PushType /\ q.at = "sent" /\ q.to = server /\ q.of = b /\ q.doc = push[w].doc
        BY <1>0, <4>1 DEF PushType
      <4>3. push' = [push EXCEPT ![w] = q] BY <1>0, <2>4
      <4> HIDE DEF q
      <4>4. q.to = recordsOf \/ <<recordsOf, q.of, q.doc>> \in astray' BY <2>4, <4>2
      <4> QED BY <1>0, <2>0, <4>1, <4>2, <4>3, <4>4 DEF PushSound
    <3>2. astray \subseteq astray' BY <2>4
    <3> QED BY <1>0, <2>0, <2>2, <2>4, <3>1, <3>2, NotesMove
  <2> QED BY <1>4, <2>1, <2>3, <2>4 DEF Tracks!Digested
<1> QED BY <1>1, <1>2, <1>3, <1>4

\* The service, and what comes back.
LEMMA AnswersKeepTracks ==
    ASSUME TracksInv, NEW w \in Uploads,
           \/ Tracks!ServiceTakes(w) \/ Tracks!ServiceDeclines(w)
           \/ Tracks!Accepted(w) \/ Tracks!Failed(w)
    PROVE  TracksInv'
<1> USE DEF Tracks!documents, Tracks!client, Tracks!memory, Tracks!queue, Tracks!service
<1>0. /\ push \in [Uploads -> PushType] /\ dirty \subseteq Bundles /\ server \in Servers
      /\ taken \in [Servers -> SUBSET ((Bundles \cup {0}) \X Nat)]
      /\ bundle \in [Bundles -> [here: BOOLEAN, layout: BOOLEAN, own: Nat]] /\ writes \in Nat
      /\ records \in [Bundles -> NoteType] /\ NotesSound(records, recordsOf)
      /\ push[w] \in PushType /\ PushSound(push[w])
  BY TracksPush DEF TracksInv, TracksType
<1> DEFINE b == push[w].of
<1>1. push[w].at \in {"sent", "answered"} /\ b \in Bundles
  BY <1>0 DEF PushSound, Tracks!ServiceTakes, Tracks!ServiceDeclines, Tracks!Accepted,
     Tracks!Failed, Tracks!Running
<1>2. ASSUME NEW reply \in {"ok", "transient", "auth", "rejected", "type_disabled"},
             push[w].at = "sent", push' = [push EXCEPT ![w].at = "answered", ![w].reply = reply],
             UNCHANGED <<recordsOf, astray>>,
             \A s \in Servers : taken[s] \subseteq taken'[s],
             reply = "ok" => Tracks!Sent(w) \in taken'[push[w].to]
      PROVE  /\ push' \in [Uploads -> PushType]
             /\ \A v \in Uploads : push'[v] = push[v] \/ PushSound(push[v])'
  <2> DEFINE q == [push[w] EXCEPT !.at = "answered", !.reply = reply]
  <2>1. /\ q \in PushType /\ q.at = "answered" /\ q.reply = reply /\ q.of = b
        /\ q.doc = push[w].doc /\ q.to = push[w].to /\ q.own = push[w].own
    BY <1>0 DEF PushType
  <2>2. push' = [push EXCEPT ![w] = q] BY <1>0, <1>2
  <2>3. Tracks!Sent(w) = <<b, push[w].doc>> BY DEF Tracks!Sent
  <2> HIDE DEF q
  <2>4. push'[w] = q BY <1>0, <2>2
  <2>5. PushSound(push[w])' BY <1>0, <1>1, <1>2, <2>1, <2>3, <2>4 DEF PushSound
  <2> QED BY <1>0, <2>1, <2>2, <2>5
<1>3. CASE Tracks!ServiceTakes(w)
  <2>1. UNCHANGED <<bundle, writes, server, recordsOf, records, stateFile, dirty, astray>>
    BY <1>3 DEF Tracks!ServiceTakes
  <2>2. /\ push[w].at = "sent"
        /\ taken' = [taken EXCEPT ![push[w].to] = @ \cup {Tracks!Sent(w)}]
    BY <1>3 DEF Tracks!ServiceTakes
  <2>3. push[w].to \in Servers /\ Tracks!Sent(w) \in (Bundles \cup {0}) \X Nat
    BY <1>0, <1>1 DEF Tracks!Sent, PushType
  <2>4. /\ taken' \in [Servers -> SUBSET ((Bundles \cup {0}) \X Nat)]
        /\ \A s \in Servers : taken[s] \subseteq taken'[s]
        /\ Tracks!Sent(w) \in taken'[push[w].to]
    BY <1>0, <2>2, <2>3
  <2>5. \E reply \in {"ok", "transient"} :
           push' = [push EXCEPT ![w].at = "answered", ![w].reply = reply]
    BY <1>3 DEF Tracks!ServiceTakes
  <2>6. /\ push' \in [Uploads -> PushType]
        /\ \A v \in Uploads : push'[v] = push[v] \/ PushSound(push[v])'
    BY <1>2, <2>1, <2>2, <2>4, <2>5
  <2> QED BY <1>0, <2>1, <2>4, <2>6, PushesMove
<1>4. CASE Tracks!ServiceDeclines(w)
  <2>1. UNCHANGED <<bundle, writes, server, recordsOf, records, stateFile, dirty, taken, astray>>
    BY <1>4 DEF Tracks!ServiceDeclines
  <2>2. push[w].at = "sent" BY <1>4 DEF Tracks!ServiceDeclines
  <2>3. PICK reply \in {"transient", "auth", "rejected", "type_disabled"} :
           push' = [push EXCEPT ![w].at = "answered", ![w].reply = reply]
    BY <1>4 DEF Tracks!ServiceDeclines
  <2>4. /\ push' \in [Uploads -> PushType]
        /\ \A v \in Uploads : push'[v] = push[v] \/ PushSound(push[v])'
    BY <1>2, <2>1, <2>2, <2>3
  <2>5. taken' \in [Servers -> SUBSET ((Bundles \cup {0}) \X Nat)] BY <1>0, <2>1
  <2>6. \A s \in Servers : taken[s] \subseteq taken'[s] BY <2>1
  <2> QED BY <1>0, <2>1, <2>4, <2>5, <2>6, PushesMove
<1>5. CASE Tracks!Accepted(w)
  <2>1. /\ UNCHANGED <<bundle, writes, server, recordsOf, dirty, taken, astray>>
        /\ push' = Tracks!Done(w) /\ Tracks!Write(records')
        /\ records' = Tracks!Noted(w, "synced", push[w].doc)
        /\ push[w].at = "answered" /\ push[w].reply = "ok"
    BY <1>5 DEF Tracks!Accepted, Tracks!Running
  <2>2. records' \in [Bundles -> NoteType]
    BY <1>0, <1>1, <2>1 DEF Tracks!Noted, NoteType, Statuses, PushType
  <2>3. NotesSound(records', recordsOf)
    <3>1. CASE ~push[w].own BY <1>0, <2>1, <3>1 DEF Tracks!Noted
    <3>2. CASE push[w].own
      <4>1. AnsweredFor(recordsOf, b, push[w].doc)
        BY <1>0, <2>1, <3>2 DEF PushSound, AnsweredFor
      <4>2. records' = [records EXCEPT ![b] = [held |-> TRUE, status |-> "synced",
                                               digest |-> push[w].doc]]
        BY <2>1, <3>2 DEF Tracks!Noted
      <4> QED BY <1>0, <1>1, <4>1, <4>2 DEF NotesSound
    <3> QED BY <3>1, <3>2
  <2>4. /\ push' \in [Uploads -> PushType]
        /\ \A v \in Uploads : push'[v] = push[v] \/ PushSound(push[v])'
    BY <2>1, TracksDone DEF PushSound
  <2> QED BY <1>0, <2>1, <2>2, <2>3, <2>4, NotesMove
<1>6. CASE Tracks!Failed(w)
  <2>1. /\ UNCHANGED <<bundle, writes, server, recordsOf, taken, astray>>
        /\ push' = Tracks!Done(w) /\ dirty' \in {dirty, dirty \cup {b}}
        /\ stateFile' = stateFile \/ Tracks!Write(records')
    BY <1>6 DEF Tracks!Failed
  <2>2. \E status \in {"rejected", "error", "queued"}, digest \in {push[w].doc, records[b].digest} :
           records' = Tracks!Noted(w, status, digest)
    BY <1>6 DEF Tracks!Failed
  <2>3. PICK status \in {"rejected", "error", "queued"}, digest \in {push[w].doc, records[b].digest} :
           records' = Tracks!Noted(w, status, digest)
    BY <2>2
  <2>4. digest \in Nat BY <1>0, <1>1 DEF PushType, NoteType
  <2>5. records' \in [Bundles -> NoteType] /\ NotesSound(records', recordsOf)
    BY <1>0, <1>1, <2>3, <2>4 DEF Tracks!Noted, NotesSound, NoteType, Statuses
  <2>6. /\ push' \in [Uploads -> PushType]
        /\ \A v \in Uploads : push'[v] = push[v] \/ PushSound(push[v])'
    BY <2>1, TracksDone DEF PushSound
  <2>7. dirty' \subseteq Bundles BY <1>0, <1>1, <2>1
  <2> QED BY <1>0, <2>1, <2>5, <2>6, <2>7, NotesMove
<1> QED BY <1>3, <1>4, <1>5, <1>6

\* The client, and the buttons.
LEMMA ClientKeepsTracks ==
    ASSUME TracksInv,
           \/ Tracks!Toggled \/ Tracks!Sweeps \/ Tracks!SyncNow \/ Tracks!Readdressed
           \/ Tracks!Reconnected \/ Tracks!Restarted
    PROVE  TracksInv'
<1> USE DEF Tracks!documents, Tracks!client, Tracks!memory, Tracks!queue, Tracks!service,
            Tracks!coroutines
<1>0. /\ push \in [Uploads -> PushType] /\ dirty \subseteq Bundles /\ server \in Servers
      /\ taken \in [Servers -> SUBSET ((Bundles \cup {0}) \X Nat)] /\ recordsOf \in Servers
      /\ bundle \in [Bundles -> [here: BOOLEAN, layout: BOOLEAN, own: Nat]] /\ writes \in Nat
      /\ records \in [Bundles -> NoteType] /\ NotesSound(records, recordsOf)
      /\ stateFile \in [of: Servers, records: [Bundles -> NoteType]]
      /\ NotesSound(stateFile.records, stateFile.of)
  BY DEF TracksInv, TracksType
<1>1. CASE Tracks!Toggled \/ Tracks!SyncNow
  <2>1. UNCHANGED <<bundle, writes, server, recordsOf, records, stateFile, dirty, taken, push, astray>>
    BY <1>1 DEF Tracks!Toggled, Tracks!SyncNow, Tracks!Halt
  <2>2. push' \in [Uploads -> PushType] /\ taken' \in [Servers -> SUBSET ((Bundles \cup {0}) \X Nat)]
    BY <1>0, <2>1
  <2> QED BY <1>0, <2>1, <2>2, PushesMove
<1>2. CASE Tracks!Sweeps
  <2>1. /\ UNCHANGED <<bundle, writes, server, recordsOf, records, stateFile, taken, astray>>
        /\ dirty' \subseteq Bundles /\ Tracks!Kick(push)
    BY <1>0, <1>2 DEF Tracks!Sweeps
  <2>2. /\ push' \in [Uploads -> PushType]
        /\ \A w \in Uploads : push'[w] = push[w] \/ PushSound(push[w])'
    BY <1>0, <2>1, TracksKicked
  <2>3. taken' \in [Servers -> SUBSET ((Bundles \cup {0}) \X Nat)] BY <1>0, <2>1
  <2> QED BY <2>1, <2>2, <2>3, PushesMove
<1>3. ASSUME NEW s \in Servers
      PROVE  /\ Tracks!Reloaded(s) \in [Bundles -> NoteType]
             /\ NotesSound(Tracks!Reloaded(s), s)
  BY <1>0 DEF Tracks!Reloaded, Tracks!NoRecord, NotesSound, NoteType, Statuses
<1>4. ASSUME UNCHANGED <<bundle, writes, stateFile, taken, astray>>, dirty' \subseteq dirty,
             server' \in Servers, recordsOf' = server', records' = Tracks!Reloaded(server'),
             push' \in [Uploads -> PushType], \A w \in Uploads : PushSound(push[w])'
      PROVE  TracksInv'
  <2>1. records' \in [Bundles -> NoteType] /\ NotesSound(records', recordsOf')
    BY <1>3, <1>4
  <2>2. TracksType' BY <1>0, <1>4, <2>1 DEF TracksInv, TracksType
  <2>3. NotesSound(records, recordsOf)' /\ NotesSound(stateFile.records, stateFile.of)'
    BY <1>0, <1>4, <2>1 DEF NotesSound, AnsweredFor
  <2> QED BY <1>4, <2>2, <2>3 DEF TracksInv
<1>5. CASE Tracks!Readdressed
  <2>1. /\ UNCHANGED <<bundle, writes, recordsOf, records, stateFile, dirty, taken, push, astray>>
        /\ server' \in Servers
    BY <1>5 DEF Tracks!Readdressed
  <2>2. TracksType' BY <1>0, <2>1 DEF TracksInv, TracksType
  <2>3. NotesSound(records, recordsOf)' /\ NotesSound(stateFile.records, stateFile.of)'
    BY <1>0, <2>1 DEF NotesSound, AnsweredFor
  <2>4. \A w \in Uploads : PushSound(push[w])' BY <2>1, TracksPush DEF PushSound
  <2> QED BY <2>2, <2>3, <2>4 DEF TracksInv
<1>6. CASE Tracks!Reconnected
  <2>1. /\ UNCHANGED <<bundle, writes, stateFile, dirty, taken, server, astray>>
        /\ records' = Tracks!Reloaded(server) /\ recordsOf' = server
        /\ push' = [w \in Uploads |-> [push[w] EXCEPT !.own = FALSE]]
    BY <1>6 DEF Tracks!Reconnected, Tracks!Halt
  <2>2. ASSUME NEW w \in Uploads PROVE push'[w] \in PushType /\ PushSound(push[w])'
    <3>1. push[w] \in PushType /\ PushSound(push[w]) BY TracksPush
    <3> QED BY <2>1, <3>1 DEF PushSound, PushType
  <2>3. push' \in [Uploads -> PushType] BY <2>1, <2>2
  <2> QED BY <1>0, <1>4, <2>1, <2>2, <2>3
<1>7. CASE Tracks!Restarted
  <2>1. /\ UNCHANGED <<bundle, writes, stateFile, taken, astray>> /\ dirty' = {}
        /\ server' \in {server, recordsOf} /\ recordsOf' = server'
        /\ records' = Tracks!Reloaded(server')
        /\ push' = [w \in Uploads |-> Tracks!NoPush]
    BY <1>7 DEF Tracks!Restarted
  <2>2. /\ push' \in [Uploads -> PushType]
        /\ \A w \in Uploads : PushSound(push[w])'
    BY <2>1, FreshPush DEF PushSound
  <2> QED BY <1>0, <1>4, <2>1, <2>2
<1> QED BY <1>1, <1>2, <1>5, <1>6, <1>7

\* "The adapter remembers that per track ... so a restart does not re-send what
\* it already sent": what is noted as synced was accepted by the server the
\* notes are about, or left while the settings already held another address
\* (sync/tracks.py, _push, _failed, forget, reload_state; api/admin.py,
\* _apply_sync).
THEOREM NotedIsTaken == Tracks!Spec => []SyncedIsTaken
<1>1. TracksInv => SyncedIsTaken
  BY DEF TracksInv, NotesSound, AnsweredFor, SyncedIsTaken, Tracks!SyncedIsTaken
<1>2. TracksInv /\ [Tracks!Next]_(Tracks!tracksVars) => TracksInv'
  <2> SUFFICES ASSUME TracksInv, [Tracks!Next]_(Tracks!tracksVars) PROVE TracksInv'
    OBVIOUS
  <2>1. CASE UNCHANGED Tracks!tracksVars
    <3>1. UNCHANGED <<bundle, writes, server, recordsOf, records, stateFile, dirty, taken, push, astray>>
      BY <2>1 DEF Tracks!tracksVars, Tracks!documents, Tracks!client, Tracks!memory,
         Tracks!queue, Tracks!service, Tracks!coroutines
    <3>2. /\ push' \in [Uploads -> PushType] /\ dirty' \subseteq Bundles
          /\ taken' \in [Servers -> SUBSET ((Bundles \cup {0}) \X Nat)]
      BY <3>1 DEF TracksInv, TracksType
    <3> QED BY <3>1, <3>2, PushesMove
  <2>2. CASE Tracks!Next
    BY <2>2, DocumentsKeepTracks, WorkerKeepsTracks, AnswersKeepTracks, ClientKeepsTracks
       DEF Tracks!Next, Tracks!Worker
  <2> QED BY <2>1, <2>2
<1> QED BY <1>1, <1>2, InitTracks, PTL DEF Tracks!Spec
=============================================================================
