---------------------------- MODULE EngineerProofs ----------------------------
(***************************************************************************)
(* Proofs about the race engineer (MCEngineer): that what a lap is         *)
(* compared with counts and is whole (EngineerReference), that what is     *)
(* critical is heard and the race called in order (PacketCalls), that the  *)
(* plan is known (LapCalls) and that the sectors add up (SectorTimes).     *)
(*                                                                         *)
(* Of the reference the invariant is EngineerSound. Its heart, Sound, says *)
(* of a manager what every one of its operations preserves: whichever lap  *)
(* is in hand, the reference or the one that is to replace it, is the lap  *)
(* that is numbered or chased; a chase knows where it belongs; no lap that *)
(* counts is quicker than the one chased. The operations are compositions  *)
(* of a few (Unsplit, Adopted, Settled, Best, Reflagged), so each has a    *)
(* lemma that says what it leaves, another that it leaves the manager      *)
(* Sound, and the actions of the recorder follow from those of the         *)
(* operations they call. While a lap is being told the verdicts may be     *)
(* ahead of the manager: InStep says when they are not.                    *)
(*                                                                         *)
(* Of the calls they are CallsSound, PlanSound and SectorsSound, each      *)
(* before its proof: what a detector keeps of what it said is what was     *)
(* heard, as far as the gate let it be.                                    *)
(***************************************************************************)
EXTENDS MCEngineer, FiniteSetTheorems, SequenceTheorems, WellFoundedInduction, TLAPS

-----------------------------------------------------------------------------
(* The coaching reference: what the manager's operations leave it with.    *)

LapNames == {Nothing} \cup {Driven(s, n) : s \in Nat, n \in Nat} \cup {Stored(l) : l \in StoredLaps}
Records == [n : Nat, time : Nat, counts : BOOLEAN]
Bases == [lap : LapNames, time : Nat]
Managers ==
    [chase : BOOLEAN, hist : Seq(Records), session : Nat, road : Roads \cup {Unknown},
     car : Cars \cup {0}, ref : LapNames, refLap : Nat, corners : LapNames, splits : Bases,
     pending : LapNames, base : Bases, chased : Bases, confirmed : BOOLEAN,
     baseRoad : Roads \cup {Unknown}, baseCar : Cars \cup {0}]

\* Two managers agree on where they are, on the laps told and on the chase.
SameGround(e, f) == f.session = e.session /\ f.road = e.road /\ f.car = e.car
SameChase(e, f) ==
    /\ f.chase = e.chase /\ f.base = e.base /\ f.confirmed = e.confirmed
    /\ f.baseRoad = e.baseRoad /\ f.baseCar = e.baseCar
SameReference(e, f) == f.ref = e.ref /\ f.corners = e.corners

LEMMA Names ==
    /\ Nothing \in LapNames /\ NoBase \in Bases /\ NoBase.lap = Nothing /\ NoBase.time = 0
    /\ \A s, n \in Nat : Driven(s, n) \in LapNames /\ Driven(s, n) # Nothing
    /\ \A s, n, t, m \in Nat : Driven(s, n) = Driven(t, m) => s = t /\ n = m
    /\ \A l \in StoredLaps : Stored(l) \in LapNames /\ Stored(l) # Nothing
    /\ \A l, m \in StoredLaps : Stored(l) = Stored(m) => l = m
    /\ \A s, n \in Nat, l \in StoredLaps : Driven(s, n) # Stored(l)
<1>1. \A s, n : Driven(s, n)[1] = "driven" /\ Driven(s, n)[2] = s /\ Driven(s, n)[3] = n BY DEF Driven
<1>2. \A l : Stored(l)[1] = "stored" /\ Stored(l)[2] = l BY DEF Stored
<1>3. \A s, n : Driven(s, n) # Nothing BY DEF Driven, Nothing
<1>4. \A l : Stored(l) # Nothing BY DEF Stored, Nothing
<1>5. /\ Nothing \in LapNames
      /\ \A s, n \in Nat : Driven(s, n) \in LapNames
      /\ \A l \in StoredLaps : Stored(l) \in LapNames
  BY DEF LapNames
<1>6. NoBase \in Bases /\ NoBase.lap = Nothing /\ NoBase.time = 0 BY <1>5 DEF NoBase, Bases
<1>7. \A s, n, t, m \in Nat : Driven(s, n) = Driven(t, m) => s = t /\ n = m BY <1>1
<1>8. \A l, m \in StoredLaps : Stored(l) = Stored(m) => l = m BY <1>2
<1>9. \A s, n \in Nat, l \in StoredLaps : Driven(s, n) # Stored(l)
  <2> SUFFICES ASSUME NEW s \in Nat, NEW n \in Nat, NEW l \in StoredLaps, Driven(s, n) = Stored(l)
               PROVE  FALSE
    OBVIOUS
  <2>1. Driven(s, n)[1] = "driven" /\ Stored(l)[1] = "stored" BY <1>1, <1>2
  <2> QED BY <2>1
<1> QED BY <1>3, <1>4, <1>5, <1>6, <1>7, <1>8, <1>9

LEMMA Unsplits ==
    ASSUME NEW e \in Managers, NEW f, f = Unsplit(e)
    PROVE  /\ f \in Managers /\ SameGround(e, f) /\ SameChase(e, f) /\ SameReference(e, f)
           /\ f.hist = e.hist /\ f.chased = e.chased /\ f.refLap = e.refLap
           /\ f.pending = e.pending /\ f.splits = NoBase
BY Names DEF Unsplit, Managers, SameGround, SameChase, SameReference

\* A manager whose reference is given a lap's number.
LEMMA RenumberedTypes ==
    ASSUME NEW e \in Managers, NEW n \in Nat, NEW f, f = [e EXCEPT !.refLap = n]
    PROVE  f \in Managers
BY DEF Managers

\* A manager that has forgotten its reference.
LEMMA ForgottenTypes ==
    ASSUME NEW e \in Managers, NEW f, f = [e EXCEPT !.ref = Nothing, !.corners = Nothing]
    PROVE  f \in Managers
BY Names DEF Managers

LEMMA AdoptedIs ==
    ASSUME NEW e \in Managers, NEW b \in Bases, NEW n \in Nat, NEW f, f = Adopted(e, b, n)
    PROVE  /\ f \in Managers /\ SameGround(e, f) /\ SameChase(e, f) /\ SameReference(e, f)
           /\ f.hist = e.hist /\ f.chased = b /\ f.refLap = n
           /\ f.pending = (IF b.lap # e.chased.lap \/ e.ref = Nothing THEN b.lap ELSE e.pending)
           /\ f.splits \in {e.splits, NoBase}
<1> DEFINE g == [e EXCEPT !.chased = b, !.refLap = n]
           u == Unsplit(g)
<1>1. /\ g \in Managers /\ SameGround(e, g) /\ SameChase(e, g) /\ SameReference(e, g)
      /\ g.hist = e.hist /\ g.chased = b /\ g.refLap = n /\ g.pending = e.pending
      /\ g.splits = e.splits
  BY DEF Managers, SameGround, SameChase, SameReference
<1>2. f = IF b.lap # e.chased.lap \/ e.ref = Nothing THEN [u EXCEPT !.pending = b.lap] ELSE g
  BY DEF Adopted
<1> HIDE DEF g
<1>3. /\ u \in Managers /\ SameGround(g, u) /\ SameChase(g, u) /\ SameReference(g, u)
      /\ u.hist = g.hist /\ u.chased = g.chased /\ u.refLap = g.refLap
      /\ u.pending = g.pending /\ u.splits = NoBase
  BY <1>1, Unsplits
<1> HIDE DEF u
<1>4. b.lap \in LapNames BY DEF Bases
<1>5. CASE b.lap # e.chased.lap \/ e.ref = Nothing
  <2>1. f = [u EXCEPT !.pending = b.lap] BY <1>2, <1>5
  <2>2. /\ f \in Managers /\ SameGround(u, f) /\ SameChase(u, f) /\ SameReference(u, f)
        /\ f.hist = u.hist /\ f.chased = u.chased /\ f.refLap = u.refLap
        /\ f.pending = b.lap /\ f.splits = u.splits
    BY <1>3, <1>4, <2>1 DEF Managers, SameGround, SameChase, SameReference
  <2> QED BY <1>1, <1>3, <1>5, <2>2 DEF SameGround, SameChase, SameReference
<1>6. CASE ~(b.lap # e.chased.lap \/ e.ref = Nothing)
  BY <1>1, <1>2, <1>6 DEF SameGround, SameChase, SameReference
<1> QED BY <1>5, <1>6

\* A set of numbers that is not empty has a least one.
LEMMA Smallest ==
    ASSUME NEW V, V \subseteq Nat, V # {}
    PROVE  \E m \in V : \A k \in V : m <= k
<1> DEFINE R == OpToRel(<, Nat)
<1>1. IsWellFoundedOn(R, Nat) BY NatLessThanWellFounded
<1>2. \A x, y \in Nat : x < y => <<x, y>> \in R BY DEF OpToRel
<1> HIDE DEF R
<1>3. PICK m \in V : \A k \in V : <<k, m>> \notin R BY <1>1, WFMin
<1>4. \A k \in V : ~(k < m) BY <1>2, <1>3
<1>5. m \in Nat /\ \A k \in V : k \in Nat OBVIOUS
<1> QED BY <1>4, <1>5

\* The i-th lap told is the quickest of those that count.
Quickest(e, i) ==
    /\ i \in DOMAIN e.hist /\ e.hist[i].counts
    /\ \A j \in DOMAIN e.hist : e.hist[j].counts => e.hist[i].time <= e.hist[j].time

LEMMA ToldTypes ==
    ASSUME NEW e \in Managers, NEW i \in DOMAIN e.hist
    PROVE  /\ e.hist[i] \in Records /\ e.hist[i].time \in Nat /\ e.hist[i].n \in Nat
           /\ e.hist[i].counts \in BOOLEAN /\ i \in Nat
<1>1. e.hist \in Seq(Records) BY DEF Managers
<1>2. e.hist[i] \in Records /\ i \in Nat BY <1>1
<1> QED BY <1>2 DEF Records

LEMMA FastestIs ==
    ASSUME NEW e \in Managers
    PROVE  /\ \A r \in Fastest(e) : \E i \in DOMAIN e.hist : r = e.hist[i] /\ Quickest(e, i)
           /\ Fastest(e) = {} => \A i \in DOMAIN e.hist : ~e.hist[i].counts
<1> DEFINE counting == {i \in DOMAIN e.hist : e.hist[i].counts}
           first(j) == \A k \in counting :
               e.hist[j].time < e.hist[k].time \/ (e.hist[j].time = e.hist[k].time /\ j <= k)
<1>1. Fastest(e) = {e.hist[i] : i \in {j \in counting : first(j)}} BY DEF Fastest
<1>2. \A j \in counting : first(j) => Quickest(e, j)
  <2> SUFFICES ASSUME NEW j \in counting, first(j), NEW k \in DOMAIN e.hist, e.hist[k].counts
               PROVE  e.hist[j].time <= e.hist[k].time
    BY DEF Quickest
  <2>1. e.hist[j].time \in Nat /\ e.hist[k].time \in Nat BY ToldTypes
  <2> QED BY <2>1
<1>3. ASSUME counting # {} PROVE \E j \in counting : first(j)
  <2> DEFINE times == {e.hist[i].time : i \in counting}
  <2>1. times \subseteq Nat /\ times # {} BY <1>3, ToldTypes
  <2> HIDE DEF times
  <2>2. PICK t \in times : \A u \in times : t <= u BY <2>1, Smallest
  <2> DEFINE those == {i \in counting : e.hist[i].time = t}
  <2>3. those \subseteq Nat /\ those # {} BY ToldTypes DEF times
  <2> HIDE DEF those
  <2>4. PICK j \in those : \A k \in those : j <= k BY <2>3, Smallest
  <2>5. first(j)
    <3> SUFFICES ASSUME NEW k \in counting
                 PROVE  e.hist[j].time < e.hist[k].time
                           \/ (e.hist[j].time = e.hist[k].time /\ j <= k)
      OBVIOUS
    <3>1. e.hist[j].time = t /\ j \in counting BY DEF those
    <3>2. t <= e.hist[k].time BY <2>2 DEF times
    <3>3. e.hist[k].time \in Nat /\ t \in Nat BY <2>1, ToldTypes
    <3>4. e.hist[k].time = t => j <= k BY <2>4 DEF those
    <3> QED BY <3>1, <3>2, <3>3, <3>4
  <2> QED BY <2>5 DEF those
<1> HIDE DEF first
<1>4. \A r \in Fastest(e) : \E i \in DOMAIN e.hist : r = e.hist[i] /\ Quickest(e, i)
  BY <1>1, <1>2
<1>5. Fastest(e) = {} => counting = {} BY <1>1, <1>3
<1> QED BY <1>4, <1>5

LEMMA SettledIs ==
    ASSUME NEW e \in Managers, NEW f, f = Settled(e), e.base # NoBase, e.confirmed
    PROVE  /\ f \in Managers /\ SameGround(e, f) /\ SameChase(e, f) /\ SameReference(e, f)
           /\ f.hist = e.hist /\ f.splits \in {e.splits, NoBase}
           /\ f.pending = (IF f.chased.lap # e.chased.lap \/ e.ref = Nothing THEN f.chased.lap ELSE e.pending)
           /\ \/ /\ f.refLap = 0 /\ f.chased = e.base
                 /\ \A i \in DOMAIN e.hist : e.hist[i].counts => e.base.time <= e.hist[i].time
              \/ \E i \in DOMAIN e.hist :
                    /\ Quickest(e, i) /\ e.hist[i].time < e.base.time
                    /\ f.refLap = e.hist[i].n /\ f.chased.time = e.hist[i].time
                    /\ f.chased.lap = Driven(e.session, e.hist[i].n)
<1> DEFINE quicker == {r \in Fastest(e) : r.time < e.base.time}
           q == CHOOSE r \in quicker : TRUE
           b == [lap |-> Samples(e, q), time |-> q.time]
<1>1. f = IF quicker = {} THEN Adopted(e, e.base, 0) ELSE Adopted(e, b, q.n)
  BY DEF Settled
<1>2. e.base \in Bases /\ e.base.time \in Nat /\ e.session \in Nat BY DEF Managers, Bases
<1>3. CASE quicker = {}
  <2>1. f = Adopted(e, e.base, 0) BY <1>1, <1>3
  <2>2. \A i \in DOMAIN e.hist : e.hist[i].counts => e.base.time <= e.hist[i].time
    <3> SUFFICES ASSUME NEW i \in DOMAIN e.hist, e.hist[i].counts PROVE e.base.time <= e.hist[i].time
      OBVIOUS
    <3>1. PICK r \in Fastest(e) : TRUE BY FastestIs
    <3>2. PICK j \in DOMAIN e.hist : r = e.hist[j] /\ Quickest(e, j) BY <3>1, FastestIs
    <3>3. r.time <= e.hist[i].time BY <3>2 DEF Quickest
    <3>4. ~(r.time < e.base.time) BY <1>3, <3>1
    <3>5. r.time \in Nat /\ e.hist[i].time \in Nat BY <3>2, ToldTypes
    <3> QED BY <1>2, <3>3, <3>4, <3>5
  <2> HIDE DEF quicker
  <2> QED BY <1>2, <2>1, <2>2, AdoptedIs
<1>4. CASE quicker # {}
  <2>1. q \in quicker BY <1>4
  <2> HIDE DEF q
  <2>2. PICK i \in DOMAIN e.hist : q = e.hist[i] /\ Quickest(e, i) BY <2>1, FastestIs
  <2>3. q.time < e.base.time BY <2>1
  <2>4. q.n \in Nat /\ q.time \in Nat BY <2>2, ToldTypes
  <2>5. b \in Bases /\ b.lap = Driven(e.session, q.n) /\ b.time = q.time
    BY <1>2, <2>4, Names DEF Samples, Bases
  <2>6. f = Adopted(e, b, q.n) BY <1>1, <1>4
  <2> HIDE DEF b, quicker
  <2>7. /\ f \in Managers /\ SameGround(e, f) /\ SameChase(e, f) /\ SameReference(e, f)
        /\ f.hist = e.hist /\ f.chased = b /\ f.refLap = q.n
        /\ f.pending = (IF b.lap # e.chased.lap \/ e.ref = Nothing THEN b.lap ELSE e.pending)
        /\ f.splits \in {e.splits, NoBase}
    BY <2>4, <2>5, <2>6, AdoptedIs
  <2> QED BY <2>2, <2>3, <2>5, <2>7
<1> QED BY <1>3, <1>4

LEMMA ChaseEndedIs ==
    ASSUME NEW e \in Managers, NEW f, f = ChaseEnded(e)
    PROVE  /\ f \in Managers /\ SameGround(e, f) /\ SameReference(e, f)
           /\ f.hist = e.hist /\ f.splits = e.splits /\ f.pending = e.pending /\ f.refLap = e.refLap
           /\ ~f.chase /\ ~f.confirmed /\ f.base = NoBase /\ f.chased = NoBase
BY Names DEF ChaseEnded, Managers, SameGround, SameReference

LEMMA BestIs ==
    ASSUME NEW e \in Managers, NEW r \in Records, NEW f, f = Best(e, r)
    PROVE  /\ f \in Managers /\ SameGround(e, f) /\ SameChase(e, f) /\ SameReference(e, f)
           /\ f.hist = e.hist /\ f.splits = NoBase /\ f.chased = e.chased
           /\ f.pending = Driven(e.session, r.n) /\ f.refLap = r.n
<1> DEFINE u == Unsplit(e)
<1>1. /\ u \in Managers /\ SameGround(e, u) /\ SameChase(e, u) /\ SameReference(e, u)
      /\ u.hist = e.hist /\ u.chased = e.chased /\ u.splits = NoBase
  BY Unsplits
<1>2. f = [u EXCEPT !.pending = Driven(e.session, r.n), !.refLap = r.n] BY DEF Best, Samples
<1>3. r.n \in Nat /\ e.session \in Nat BY DEF Records, Managers
<1>4. Driven(e.session, r.n) \in LapNames BY <1>3, Names
<1> HIDE DEF u
<1>5. /\ f \in Managers /\ SameGround(u, f) /\ SameChase(u, f) /\ SameReference(u, f)
      /\ f.hist = u.hist /\ f.splits = u.splits /\ f.chased = u.chased
      /\ f.pending = Driven(e.session, r.n) /\ f.refLap = r.n
  BY <1>1, <1>2, <1>3, <1>4 DEF Managers, SameGround, SameChase, SameReference
<1> QED BY <1>1, <1>5 DEF SameGround, SameChase, SameReference

LEMMA ChosenBestIs ==
    ASSUME NEW e \in Managers, NEW f, f = ChosenBest(e)
    PROVE  /\ f \in Managers /\ SameGround(e, f) /\ f.hist = e.hist /\ f.splits = NoBase
           /\ ~f.chase /\ ~f.confirmed /\ f.base = NoBase /\ f.chased = NoBase
           /\ \/ f.pending = Nothing /\ f.ref = Nothing /\ f.corners = Nothing /\ f.refLap = 0
              \/ /\ SameReference(e, f)
                 /\ \E i \in DOMAIN e.hist :
                       Quickest(e, i) /\ f.pending = Driven(e.session, e.hist[i].n) /\ f.refLap = e.hist[i].n
<1> DEFINE c == ChaseEnded(e)
           u == Unsplit(c)
           q == CHOOSE r \in Fastest(e) : TRUE
<1>1. f = IF Fastest(e) = {}
          THEN [u EXCEPT !.pending = Nothing, !.refLap = 0, !.ref = Nothing, !.corners = Nothing]
          ELSE Best(u, q)
  BY DEF ChosenBest
<1>2. /\ c \in Managers /\ SameGround(e, c) /\ SameReference(e, c) /\ c.hist = e.hist
      /\ ~c.chase /\ ~c.confirmed /\ c.base = NoBase /\ c.chased = NoBase
  BY ChaseEndedIs
<1> HIDE DEF c
<1>3. /\ u \in Managers /\ SameGround(c, u) /\ SameChase(c, u) /\ SameReference(c, u)
      /\ u.hist = c.hist /\ u.chased = c.chased /\ u.splits = NoBase
  BY <1>2, Unsplits
<1> HIDE DEF u
<1>4. CASE Fastest(e) = {}
  <2>1. f = [u EXCEPT !.pending = Nothing, !.refLap = 0, !.ref = Nothing, !.corners = Nothing]
    BY <1>1, <1>4
  <2>2. /\ f \in Managers /\ SameGround(u, f) /\ SameChase(u, f) /\ f.hist = u.hist
        /\ f.splits = u.splits /\ f.chased = u.chased
        /\ f.pending = Nothing /\ f.ref = Nothing /\ f.corners = Nothing /\ f.refLap = 0
    <3>1. Nothing \in LapNames BY Names
    <3>2. f \in Managers
      <4> DEFINE w == [u EXCEPT !.pending = Nothing, !.refLap = 0]
      <4>1. w \in Managers BY <1>3, <3>1 DEF Managers
      <4>2. f = [w EXCEPT !.ref = Nothing, !.corners = Nothing] BY <2>1
      <4> HIDE DEF w
      <4> QED BY <4>1, <4>2, ForgottenTypes
    <3>3. /\ f.pending = Nothing /\ f.ref = Nothing /\ f.corners = Nothing /\ f.refLap = 0
          /\ f.hist = u.hist /\ f.splits = u.splits /\ f.chased = u.chased
      BY <1>3, <2>1 DEF Managers
    <3>4. SameGround(u, f) /\ SameChase(u, f) BY <1>3, <2>1 DEF Managers, SameGround, SameChase
    <3> QED BY <1>3, <3>2, <3>3, <3>4
  <2> QED BY <1>2, <1>3, <2>2 DEF SameGround, SameChase
<1>5. CASE Fastest(e) # {}
  <2>1. q \in Fastest(e) BY <1>5
  <2>2. f = Best(u, q) BY <1>1, <1>5
  <2> HIDE DEF q
  <2>3. PICK i \in DOMAIN e.hist : q = e.hist[i] /\ Quickest(e, i) BY <2>1, FastestIs
  <2>4. q \in Records BY <2>3, ToldTypes
  <2>5. /\ f \in Managers /\ SameGround(u, f) /\ SameChase(u, f) /\ SameReference(u, f)
        /\ f.hist = u.hist /\ f.splits = NoBase /\ f.chased = u.chased
        /\ f.pending = Driven(u.session, q.n) /\ f.refLap = q.n
    BY <1>3, <2>2, <2>4, BestIs
  <2>6. u.session = e.session BY <1>2, <1>3 DEF SameGround
  <2>7. f.pending = Driven(e.session, e.hist[i].n) /\ f.refLap = e.hist[i].n BY <2>3, <2>5, <2>6
  <2> QED BY <1>2, <1>3, <2>3, <2>5, <2>7 DEF SameGround, SameChase, SameReference
<1> QED BY <1>4, <1>5

LEMMA ReflaggedIs ==
    ASSUME NEW e \in Managers, NEW out, NEW f, f = Reflagged(e, out)
    PROVE  /\ f \in Managers /\ SameGround(e, f) /\ SameChase(e, f)
           /\ f.chased = e.chased /\ f.splits = e.splits /\ f.pending = e.pending
           /\ DOMAIN f.hist = DOMAIN e.hist
           /\ \A i \in DOMAIN e.hist :
                 f.hist[i].n = e.hist[i].n /\ f.hist[i].time = e.hist[i].time
                 /\ (f.hist[i].counts <=> e.hist[i].n \notin out)
           /\ \/ e.refLap \notin out /\ f.refLap = e.refLap /\ SameReference(e, f)
              \/ e.refLap \in out /\ f.refLap = 0 /\ f.ref = Nothing /\ f.corners = Nothing
<1> DEFINE h == [i \in DOMAIN e.hist |-> [e.hist[i] EXCEPT !.counts = e.hist[i].n \notin out]]
           g == [e EXCEPT !.hist = h]
<1>1. /\ DOMAIN h = DOMAIN e.hist
      /\ \A i \in DOMAIN e.hist :
            /\ h[i] \in Records /\ h[i].n = e.hist[i].n /\ h[i].time = e.hist[i].time
            /\ (h[i].counts <=> e.hist[i].n \notin out)
  <2> SUFFICES ASSUME NEW i \in DOMAIN e.hist
               PROVE  /\ h[i] \in Records /\ h[i].n = e.hist[i].n /\ h[i].time = e.hist[i].time
                      /\ (h[i].counts <=> e.hist[i].n \notin out)
    OBVIOUS
  <2>1. e.hist[i] \in Records BY ToldTypes
  <2>2. h[i] = [e.hist[i] EXCEPT !.counts = (e.hist[i].n \notin out)] OBVIOUS
  <2> QED BY <2>1, <2>2 DEF Records
<1>2. h \in Seq(Records)
  <2>1. e.hist \in Seq(Records) BY DEF Managers
  <2>2. DOMAIN e.hist = 1..Len(e.hist) /\ Len(e.hist) \in Nat BY <2>1
  <2> HIDE DEF h
  <2>3. \A i \in 1..Len(e.hist) : h[i] \in Records BY <1>1, <2>2
  <2>4. h = [i \in 1..Len(e.hist) |-> h[i]] BY <1>1, <2>2 DEF h
  <2>5. h \in [1..Len(e.hist) -> Records] BY <2>3, <2>4
  <2> QED BY <2>2, <2>5
<1>3. f = IF e.refLap \in out THEN [g EXCEPT !.ref = Nothing, !.corners = Nothing, !.refLap = 0] ELSE g
  BY DEF Reflagged
<1> HIDE DEF h
<1>4. /\ g \in Managers /\ SameGround(e, g) /\ SameChase(e, g) /\ SameReference(e, g)
      /\ g.hist = h /\ g.chased = e.chased /\ g.refLap = e.refLap
      /\ g.splits = e.splits /\ g.pending = e.pending
  BY <1>2 DEF Managers, SameGround, SameChase, SameReference
<1> HIDE DEF g
<1>5. CASE e.refLap \in out
  <2>1. f = [g EXCEPT !.ref = Nothing, !.corners = Nothing, !.refLap = 0] BY <1>3, <1>5
  <2>2. /\ f \in Managers /\ SameGround(g, f) /\ SameChase(g, f)
        /\ f.hist = h /\ f.chased = g.chased /\ f.splits = g.splits /\ f.pending = g.pending
        /\ f.refLap = 0 /\ f.ref = Nothing /\ f.corners = Nothing
    <3>1. Nothing \in LapNames BY Names
    <3>2. f \in Managers
      <4> DEFINE w == [g EXCEPT !.ref = Nothing, !.corners = Nothing]
      <4>1. w \in Managers BY <1>4, <3>1 DEF Managers
      <4>2. f = [w EXCEPT !.refLap = 0] BY <2>1
      <4> HIDE DEF w
      <4> QED BY <4>1, <4>2, RenumberedTypes
    <3>3. /\ f.pending = g.pending /\ f.ref = Nothing /\ f.corners = Nothing /\ f.refLap = 0
          /\ f.hist = g.hist /\ f.splits = g.splits /\ f.chased = g.chased
      BY <1>4, <2>1 DEF Managers
    <3>4. SameGround(g, f) /\ SameChase(g, f) BY <1>4, <2>1 DEF Managers, SameGround, SameChase
    <3> QED BY <1>4, <3>2, <3>3, <3>4
  <2> QED BY <1>1, <1>4, <1>5, <2>2 DEF SameGround, SameChase
<1>6. CASE e.refLap \notin out BY <1>1, <1>3, <1>4, <1>6
<1> QED BY <1>5, <1>6

-----------------------------------------------------------------------------
(* What holds of a manager in session s, in car c on road r, with the laps  *)
(* ls driven.  miss: it was not told of a verdict.                          *)

\* The reference, or the one that is to replace it.
InHand(e) == IF e.pending # Nothing THEN e.pending ELSE e.ref

Elsewhere(x, s, r) ==
    \/ \E l \in StoredLaps : x = Stored(l) /\ StoredRoad[l] = r
    \/ \E t, n \in Nat : t < s /\ x = Driven(t, n)

Chasing(e) == e.chase /\ e.confirmed

\* A lap of this session, or the floor of the chase.
Allowed(e, ls) ==
    {Nothing} \cup {Driven(e.session, n) : n \in DOMAIN ls}
              \cup (IF Chasing(e) THEN {e.base.lap} ELSE {})

GroundOK(e, s, c) == e \in Managers /\ e.session = s /\ (s # 0 => e.car = c)
ToldOK(e, ls) ==
    \A i \in DOMAIN e.hist : e.hist[i].n \in DOMAIN ls /\ e.hist[i].time = ls[e.hist[i].n].time
FlagsOK(e, out) == \A i \in DOMAIN e.hist : e.hist[i].counts <=> e.hist[i].n \notin out
ChaseOK(e, s, c, r) ==
    /\ e.chase => s # 0 /\ e.baseCar = c /\ Elsewhere(e.base.lap, s, e.baseRoad)
    /\ Chasing(e) => e.baseRoad = r
    /\ e.chase /\ ~e.confirmed =>
          e.ref = Nothing /\ e.pending = Nothing /\ e.chased = NoBase /\ e.refLap = 0
    /\ ~e.chase => e.base = NoBase /\ e.chased = NoBase /\ ~e.confirmed
FollowOK(e) ==
    Chasing(e) =>
        /\ e.chased.time <= e.base.time
        /\ \A i \in DOMAIN e.hist : e.hist[i].counts => e.chased.time <= e.hist[i].time
        /\ e.chased.lap = (IF e.refLap = 0 THEN e.base.lap ELSE Driven(e.session, e.refLap))
        /\ InHand(e) = e.chased.lap
NumberOK(e, ls, miss) ==
    /\ e.refLap \in {0} \cup DOMAIN ls
    /\ ~e.chase /\ ~miss => InHand(e) = (IF e.refLap = 0 THEN Nothing ELSE Driven(e.session, e.refLap))
ToComeOK(e, ls) == InHand(e) \in Allowed(e, ls)
RefOK(e, ls) == e.ref \in Allowed(e, ls)
SplitOK(e) == e.ref # Nothing /\ e.splits # NoBase => e.splits.lap = e.ref
CornersOK(e) == e.ref # Nothing => e.corners \in {Nothing, e.ref}

Sound(e, s, c, r, ls, miss) ==
    /\ GroundOK(e, s, c) /\ ToldOK(e, ls) /\ ChaseOK(e, s, c, r) /\ FollowOK(e)
    /\ NumberOK(e, ls, miss) /\ ToComeOK(e, ls) /\ SplitOK(e)

\* What a settled chase needs of the manager before.
Unsettled(e, s, c, r, ls) ==
    /\ GroundOK(e, s, c) /\ ToldOK(e, ls) /\ ChaseOK(e, s, c, r) /\ Chasing(e) /\ SplitOK(e)
    /\ e.chased = NoBase \/ e.ref = Nothing \/ InHand(e) = e.chased.lap

LEMMA ElsewhereIs ==
    ASSUME NEW s \in Nat, NEW r, NEW x, Elsewhere(x, s, r)
    PROVE  x \in LapNames /\ x # Nothing /\ \A n \in Nat : x # Driven(s, n)
<1>1. CASE \E l \in StoredLaps : x = Stored(l) /\ StoredRoad[l] = r BY <1>1, Names
<1>2. CASE \E t, n \in Nat : t < s /\ x = Driven(t, n)
  <2>1. PICK t \in Nat, n \in Nat : t < s /\ x = Driven(t, n) BY <1>2
  <2>2. t # s BY <2>1
  <2> QED BY <2>1, <2>2, Names
<1> QED BY <1>1, <1>2 DEF Elsewhere

LEMMA ManagerTypes ==
    ASSUME NEW e \in Managers
    PROVE  /\ e.session \in Nat /\ e.refLap \in Nat /\ e.base \in Bases /\ e.chased \in Bases
           /\ e.base.time \in Nat /\ e.chased.time \in Nat /\ e.base.lap \in LapNames
           /\ e.chased.lap \in LapNames /\ e.pending \in LapNames /\ e.ref \in LapNames
           /\ e.chase \in BOOLEAN /\ e.confirmed \in BOOLEAN
BY DEF Managers, Bases

LEMMA SettleSound ==
    ASSUME NEW s, NEW c, NEW r, NEW ls, DOMAIN ls \subseteq Nat \ {0}, NEW e,
           Unsettled(e, s, c, r, ls), NEW f, f = Settled(e), NEW miss
    PROVE  /\ Sound(f, s, c, r, ls, miss) /\ SameReference(e, f) /\ SameChase(e, f) /\ f.hist = e.hist
           /\ \A out : FlagsOK(e, out) /\ out \subseteq DOMAIN ls => f.refLap \notin out
           /\ f.pending # Nothing \/ f.pending = e.pending
<1>1. /\ e \in Managers /\ e.session = s /\ e.chase /\ e.confirmed /\ s \in Nat
      /\ Elsewhere(e.base.lap, s, e.baseRoad)
  BY ManagerTypes DEF Unsettled, GroundOK, ChaseOK, Chasing
<1>2. e.base.lap # Nothing /\ e.base.lap \in LapNames /\ e.base # NoBase
  <2>1. e.base.lap # Nothing /\ e.base.lap \in LapNames BY <1>1, ElsewhereIs
  <2> QED BY <2>1, Names
<1>3. /\ f \in Managers /\ SameGround(e, f) /\ SameChase(e, f) /\ SameReference(e, f)
      /\ f.hist = e.hist /\ f.splits \in {e.splits, NoBase}
      /\ f.pending = (IF f.chased.lap # e.chased.lap \/ e.ref = Nothing THEN f.chased.lap ELSE e.pending)
      /\ \/ /\ f.refLap = 0 /\ f.chased = e.base
            /\ \A i \in DOMAIN e.hist : e.hist[i].counts => e.base.time <= e.hist[i].time
         \/ \E i \in DOMAIN e.hist :
               /\ Quickest(e, i) /\ e.hist[i].time < e.base.time
               /\ f.refLap = e.hist[i].n /\ f.chased.time = e.hist[i].time
               /\ f.chased.lap = Driven(e.session, e.hist[i].n)
  BY <1>1, <1>2, SettledIs
<1>4. Chasing(f) /\ f.chase /\ f.session = s BY <1>1, <1>3 DEF Chasing, SameGround, SameChase
<1>5. /\ f.chased.time <= f.base.time
      /\ \A i \in DOMAIN f.hist : f.hist[i].counts => f.chased.time <= f.hist[i].time
      /\ f.chased.lap = (IF f.refLap = 0 THEN f.base.lap ELSE Driven(f.session, f.refLap))
      /\ f.refLap \in {0} \cup DOMAIN ls
      /\ f.refLap = 0 \/ \E i \in DOMAIN e.hist : e.hist[i].counts /\ f.refLap = e.hist[i].n
  <2>1. CASE /\ f.refLap = 0 /\ f.chased = e.base
             /\ \A i \in DOMAIN e.hist : e.hist[i].counts => e.base.time <= e.hist[i].time
    <3>1. f.base = e.base BY <1>3 DEF SameChase
    <3>2. f.chased.time <= f.base.time BY <1>1, <2>1, <3>1, ManagerTypes
    <3> QED BY <1>3, <2>1, <3>1, <3>2
  <2>2. ASSUME NEW i \in DOMAIN e.hist,
               /\ Quickest(e, i) /\ e.hist[i].time < e.base.time
               /\ f.refLap = e.hist[i].n /\ f.chased.time = e.hist[i].time
               /\ f.chased.lap = Driven(e.session, e.hist[i].n)
        PROVE  <1>5!:
    <3>1. f.base = e.base /\ f.session = e.session BY <1>3 DEF SameChase, SameGround
    <3>2. e.hist[i].n \in DOMAIN ls /\ e.hist[i].n # 0 BY DEF Unsettled, ToldOK
    <3>3. e.hist[i].time \in Nat /\ e.base.time \in Nat BY <1>1, ManagerTypes, ToldTypes
    <3>4. e.hist[i].counts /\ \A j \in DOMAIN e.hist : e.hist[j].counts => e.hist[i].time <= e.hist[j].time
      BY <2>2 DEF Quickest
    <3> QED BY <1>3, <2>2, <3>1, <3>2, <3>3, <3>4
  <2> QED BY <1>3, <2>1, <2>2
<1>6. f.chased.lap # Nothing
  <2>1. f.base = e.base BY <1>3 DEF SameChase
  <2>2. f.session \in Nat /\ f.refLap \in Nat BY <1>3, ManagerTypes
  <2> QED BY <1>2, <1>5, <2>1, <2>2, Names
<1>7. InHand(f) = f.chased.lap
  <2>1. CASE f.chased.lap # e.chased.lap \/ e.ref = Nothing BY <1>3, <1>6, <2>1 DEF InHand
  <2>2. CASE ~(f.chased.lap # e.chased.lap \/ e.ref = Nothing)
    <3>1. e.chased # NoBase BY <1>6, <2>2, Names
    <3>2. InHand(e) = e.chased.lap BY <2>2, <3>1 DEF Unsettled
    <3> QED BY <1>3, <2>2, <3>2 DEF InHand, SameReference
  <2> QED BY <2>1, <2>2
<1>8. FollowOK(f) BY <1>5, <1>7 DEF FollowOK
<1>9. NumberOK(f, ls, miss) BY <1>4, <1>5 DEF NumberOK
<1>10. ToComeOK(f, ls)
  <2>1. f.chased.lap \in Allowed(f, ls) BY <1>4, <1>5 DEF Allowed
  <2> QED BY <1>7, <2>1 DEF ToComeOK
<1>11. SplitOK(f) BY <1>3 DEF Unsettled, SplitOK, SameReference
<1>12. GroundOK(f, s, c) BY <1>3 DEF Unsettled, GroundOK, SameGround
<1>13. ToldOK(f, ls) BY <1>3 DEF Unsettled, ToldOK
<1>14. ChaseOK(f, s, c, r)
  BY <1>3, <1>4 DEF Unsettled, ChaseOK, Chasing, SameChase
<1>15. Sound(f, s, c, r, ls, miss) BY <1>8, <1>9, <1>10, <1>11, <1>12, <1>13, <1>14 DEF Sound
<1>16. ASSUME NEW out, FlagsOK(e, out), out \subseteq DOMAIN ls PROVE f.refLap \notin out
  BY <1>5, <1>16 DEF FlagsOK
<1>17. f.pending # Nothing \/ f.pending = e.pending BY <1>3, <1>6
<1> QED BY <1>3, <1>15, <1>16, <1>17

\* Bringing the history in line: the reference goes if it stopped counting,
\* and the one to come may have too.
LEMMA ReflagSound ==
    ASSUME NEW s, NEW c, NEW r, NEW ls, DOMAIN ls \subseteq Nat \ {0}, NEW out, out \subseteq DOMAIN ls,
           NEW e, GroundOK(e, s, c), ToldOK(e, ls), ChaseOK(e, s, c, r), SplitOK(e),
           Chasing(e) => InHand(e) = e.chased.lap,
           NEW miss, NumberOK(e, ls, miss), ToComeOK(e, ls),
           NEW f, f = Reflagged(e, out)
    PROVE  /\ GroundOK(f, s, c) /\ ToldOK(f, ls) /\ ChaseOK(f, s, c, r) /\ SplitOK(f)
           /\ SameGround(e, f) /\ SameChase(e, f)
           /\ FlagsOK(f, out) /\ f.refLap \notin out
           /\ RefOK(e, ls) => RefOK(f, ls)
           /\ CornersOK(e) => CornersOK(f)
           /\ ToComeOK(f, ls)
           /\ Chasing(f) => Unsettled(f, s, c, r, ls)
           /\ ~f.chase => NumberOK(f, ls, miss) \/ StillToCome(f, out)
           /\ f.chase => NumberOK(f, ls, miss)
           /\ f.pending = e.pending
<1>1. e \in Managers /\ e.session = s /\ s \in Nat BY ManagerTypes DEF GroundOK
<1>2. /\ f \in Managers /\ SameGround(e, f) /\ SameChase(e, f)
      /\ f.chased = e.chased /\ f.splits = e.splits /\ f.pending = e.pending
      /\ DOMAIN f.hist = DOMAIN e.hist
      /\ \A i \in DOMAIN e.hist :
            f.hist[i].n = e.hist[i].n /\ f.hist[i].time = e.hist[i].time
            /\ (f.hist[i].counts <=> e.hist[i].n \notin out)
      /\ \/ e.refLap \notin out /\ f.refLap = e.refLap /\ SameReference(e, f)
         \/ e.refLap \in out /\ f.refLap = 0 /\ f.ref = Nothing /\ f.corners = Nothing
  BY <1>1, ReflaggedIs
<1>3. 0 \notin out OBVIOUS
<1>4. GroundOK(f, s, c) BY <1>2 DEF GroundOK, SameGround
<1>5. ToldOK(f, ls) BY <1>2 DEF ToldOK
<1>6. FlagsOK(f, out) BY <1>2 DEF FlagsOK
<1>7. f.refLap \notin out BY <1>2, <1>3
<1>8. ChaseOK(f, s, c, r)
  <2>1. f.chase /\ ~f.confirmed => f.ref = Nothing /\ f.refLap = 0 /\ f.pending = Nothing /\ f.chased = NoBase
    BY <1>2, <1>3 DEF ChaseOK, SameChase, SameReference
  <2> QED BY <1>2, <2>1 DEF ChaseOK, Chasing, SameChase
<1>9. Chasing(f) <=> Chasing(e) BY <1>2 DEF Chasing, SameChase
<1>10. Allowed(f, ls) = Allowed(e, ls)
  BY <1>2, <1>9 DEF Allowed, SameGround, SameChase
<1>11. Nothing \in Allowed(f, ls) BY DEF Allowed
<1>12. SplitOK(f) BY <1>2 DEF SplitOK, SameReference
<1>13. CornersOK(e) => CornersOK(f) BY <1>2 DEF CornersOK, SameReference
<1>14. InHand(f) = InHand(e) \/ f.ref = Nothing BY <1>2 DEF InHand, SameReference
<1>15. ToComeOK(f, ls)
  <2>1. InHand(f) \in {InHand(e), Nothing} BY <1>2 DEF InHand, SameReference
  <2> QED BY <1>10, <1>11, <2>1 DEF ToComeOK
<1>16. RefOK(e, ls) => RefOK(f, ls) BY <1>2, <1>10, <1>11 DEF RefOK, SameReference
<1>17. Chasing(f) => Unsettled(f, s, c, r, ls)
  BY <1>2, <1>4, <1>5, <1>8, <1>9, <1>12, <1>14 DEF Unsettled
<1>18. CASE e.refLap \notin out /\ f.refLap = e.refLap /\ SameReference(e, f)
  <2>1. NumberOK(f, ls, miss)
    BY <1>2, <1>18 DEF NumberOK, InHand, SameReference, SameChase, SameGround
  <2> QED
    BY <1>2, <1>4, <1>5, <1>6, <1>7, <1>8, <1>12, <1>13, <1>15, <1>16, <1>17, <2>1
<1>19. CASE e.refLap \in out /\ f.refLap = 0 /\ f.ref = Nothing
  <2>1. CASE f.pending = Nothing
    <3>1. NumberOK(f, ls, miss) BY <1>19, <2>1 DEF NumberOK, InHand
    <3> QED
      BY <1>2, <1>4, <1>5, <1>6, <1>7, <1>8, <1>12, <1>13, <1>15, <1>16, <1>17, <3>1
  <2>2. CASE f.pending # Nothing /\ ~f.chase
    <3>1. ~e.chase /\ InHand(e) = f.pending BY <1>2, <2>2 DEF SameChase, InHand
    <3>2. CASE miss
      <4>1. NumberOK(f, ls, miss) BY <1>19, <3>2 DEF NumberOK
      <4> QED
        BY <1>2, <1>4, <1>5, <1>6, <1>7, <1>8, <1>12, <1>13, <1>15, <1>16, <1>17, <4>1
    <3>3. CASE ~miss
      <4>1. f.pending = Driven(e.session, e.refLap)
        BY <1>3, <1>19, <3>1, <3>3 DEF NumberOK
      <4>2. StillToCome(f, out) BY <1>2, <1>19, <4>1 DEF StillToCome, SameGround
      <4> QED
        BY <1>2, <1>4, <1>5, <1>6, <1>7, <1>8, <1>12, <1>13, <1>15, <1>16, <1>17, <2>2, <4>2
    <3> QED BY <3>2, <3>3
  <2>3. CASE f.chase
    <3>1. NumberOK(f, ls, miss) BY <1>19, <2>3 DEF NumberOK
    <3> QED
      BY <1>2, <1>4, <1>5, <1>6, <1>7, <1>8, <1>12, <1>13, <1>15, <1>16, <1>17, <2>3, <3>1
  <2> QED BY <2>1, <2>2, <2>3
<1> QED BY <1>2, <1>18, <1>19

\* The fastest lap told becomes the one to come.
LEMMA BestSound ==
    ASSUME NEW s, NEW c, NEW r, NEW ls, DOMAIN ls \subseteq Nat \ {0}, NEW miss,
           NEW e, GroundOK(e, s, c), ToldOK(e, ls), ChaseOK(e, s, c, r), ~e.chase,
           NEW q \in Records, q.n \in DOMAIN ls, NEW f, f = Best(e, q)
    PROVE  /\ Sound(f, s, c, r, ls, miss) /\ f.hist = e.hist /\ SameReference(e, f) /\ SameChase(e, f)
           /\ f.refLap = q.n /\ f.pending = Driven(s, q.n)
<1>1. e \in Managers /\ e.session = s /\ s \in Nat BY ManagerTypes DEF GroundOK
<1>2. /\ f \in Managers /\ SameGround(e, f) /\ SameChase(e, f) /\ SameReference(e, f)
      /\ f.hist = e.hist /\ f.splits = NoBase /\ f.chased = e.chased
      /\ f.pending = Driven(e.session, q.n) /\ f.refLap = q.n
  BY <1>1, BestIs
<1>3. ~f.chase /\ ~Chasing(f) BY <1>2 DEF SameChase, Chasing
<1>4. f.pending # Nothing /\ InHand(f) = Driven(f.session, q.n) /\ q.n # 0
  BY <1>1, <1>2, Names DEF InHand, SameGround
<1>5. GroundOK(f, s, c) BY <1>2 DEF GroundOK, SameGround
<1>6. ToldOK(f, ls) BY <1>2 DEF ToldOK
<1>7. ChaseOK(f, s, c, r) BY <1>2, <1>3 DEF ChaseOK, SameChase
<1>8. FollowOK(f) BY <1>3 DEF FollowOK
<1>9. NumberOK(f, ls, miss) BY <1>2, <1>4 DEF NumberOK
<1>10. ToComeOK(f, ls) BY <1>4 DEF ToComeOK, Allowed
<1>11. SplitOK(f) BY <1>2 DEF SplitOK
<1> QED BY <1>1, <1>2, <1>5, <1>6, <1>7, <1>8, <1>9, <1>10, <1>11 DEF Sound

LEMMA ChosenBestSound ==
    ASSUME NEW s, NEW c, NEW r, NEW ls, DOMAIN ls \subseteq Nat \ {0}, NEW miss,
           NEW e, GroundOK(e, s, c), ToldOK(e, ls), NEW f, f = ChosenBest(e)
    PROVE  /\ Sound(f, s, c, r, ls, miss) /\ f.hist = e.hist
           /\ f.ref = Nothing \/ SameReference(e, f)
           /\ f.ref = Nothing \/ f.pending # Nothing
           /\ \A out : FlagsOK(e, out) /\ out \subseteq DOMAIN ls => f.refLap \notin out
<1>1. e \in Managers /\ e.session = s /\ s \in Nat BY ManagerTypes DEF GroundOK
<1>2. /\ f \in Managers /\ SameGround(e, f) /\ f.hist = e.hist /\ f.splits = NoBase
      /\ ~f.chase /\ ~f.confirmed /\ f.base = NoBase /\ f.chased = NoBase
      /\ \/ f.pending = Nothing /\ f.ref = Nothing /\ f.corners = Nothing /\ f.refLap = 0
         \/ /\ SameReference(e, f)
            /\ \E i \in DOMAIN e.hist :
                  Quickest(e, i) /\ f.pending = Driven(e.session, e.hist[i].n) /\ f.refLap = e.hist[i].n
  BY <1>1, ChosenBestIs
<1>3. GroundOK(f, s, c) BY <1>2 DEF GroundOK, SameGround
<1>4. ToldOK(f, ls) BY <1>2 DEF ToldOK
<1>5. ChaseOK(f, s, c, r) /\ FollowOK(f) /\ ~Chasing(f) BY <1>2 DEF ChaseOK, FollowOK, Chasing
<1>6. SplitOK(f) BY <1>2 DEF SplitOK
<1>7. CASE f.pending = Nothing /\ f.ref = Nothing /\ f.refLap = 0
  <2>1. InHand(f) = Nothing BY <1>7 DEF InHand
  <2>2. NumberOK(f, ls, miss) BY <1>7, <2>1 DEF NumberOK
  <2>3. ToComeOK(f, ls) BY <2>1 DEF ToComeOK, Allowed
  <2> QED BY <1>2, <1>3, <1>4, <1>5, <1>6, <1>7, <2>2, <2>3 DEF Sound
<1>8. ASSUME SameReference(e, f), NEW i \in DOMAIN e.hist,
             Quickest(e, i) /\ f.pending = Driven(e.session, e.hist[i].n) /\ f.refLap = e.hist[i].n
      PROVE  /\ Sound(f, s, c, r, ls, miss) /\ f.pending # Nothing
             /\ \A out : FlagsOK(e, out) /\ out \subseteq DOMAIN ls => f.refLap \notin out
  <2>1. e.hist[i].n \in DOMAIN ls /\ e.hist[i].counts BY <1>8 DEF ToldOK, Quickest
  <2>2. f.pending # Nothing /\ InHand(f) = Driven(f.session, f.refLap) /\ f.refLap # 0
    BY <1>1, <1>2, <1>8, <2>1, Names DEF InHand, SameGround
  <2>3. NumberOK(f, ls, miss) BY <1>8, <2>1, <2>2 DEF NumberOK
  <2>4. ToComeOK(f, ls) BY <1>8, <2>1, <2>2 DEF ToComeOK, Allowed
  <2>5. \A out : FlagsOK(e, out) => f.refLap \notin out BY <1>8, <2>1 DEF FlagsOK
  <2> QED BY <1>3, <1>4, <1>5, <1>6, <2>2, <2>3, <2>4, <2>5 DEF Sound
<1> QED BY <1>2, <1>7, <1>8

LEMMA OverriddenSound ==
    ASSUME NEW s, NEW c, NEW r, NEW ls, DOMAIN ls \subseteq Nat \ {0}, NEW out, out \subseteq DOMAIN ls,
           NEW miss, NEW e, Sound(e, s, c, r, ls, miss), RefOK(e, ls), NEW f, f = Overridden(e, out),
           NEW m, miss \/ StillToCome(f, out) => m
    PROVE  /\ Sound(f, s, c, r, ls, m) /\ RefOK(f, ls)
           /\ FlagsOK(f, out) /\ f.refLap \notin out /\ (CornersOK(e) => CornersOK(f))
<1> DEFINE g == Reflagged(e, out)
           other == {q \in Fastest(g) : q.n # g.refLap}
<1>1. f = IF e.chase THEN Settled(g)
          ELSE IF other = {} THEN g ELSE Best(g, CHOOSE q \in other : TRUE)
  BY DEF Overridden
<1>2. /\ GroundOK(g, s, c) /\ ToldOK(g, ls) /\ ChaseOK(g, s, c, r) /\ SplitOK(g)
      /\ SameChase(e, g) /\ FlagsOK(g, out) /\ g.refLap \notin out
      /\ RefOK(g, ls) /\ (CornersOK(e) => CornersOK(g)) /\ ToComeOK(g, ls)
      /\ Chasing(g) => Unsettled(g, s, c, r, ls)
      /\ ~g.chase => NumberOK(g, ls, miss) \/ StillToCome(g, out)
      /\ g.chase => NumberOK(g, ls, miss)
  <2>1. Chasing(e) => InHand(e) = e.chased.lap BY DEF Sound, FollowOK
  <2> QED BY <2>1, ReflagSound DEF Sound
<1> HIDE DEF g
<1>3. g.chase <=> e.chase BY <1>2 DEF SameChase
<1>4. CASE Chasing(g)
  <2>1. f = Settled(g) BY <1>1, <1>3, <1>4 DEF Chasing
  <2>2. /\ Sound(f, s, c, r, ls, m) /\ SameReference(g, f) /\ SameChase(g, f) /\ f.hist = g.hist
        /\ f.refLap \notin out
    BY <1>2, <1>4, <2>1, SettleSound
  <2>3. Allowed(f, ls) = Allowed(g, ls)
    BY <1>2, <2>2 DEF Allowed, Chasing, SameChase, Sound, GroundOK
  <2>4. RefOK(f, ls) /\ FlagsOK(f, out) /\ (CornersOK(e) => CornersOK(f))
    BY <1>2, <2>2, <2>3 DEF RefOK, SameReference, FlagsOK, CornersOK
  <2> QED BY <2>2, <2>4
<1>5. CASE g.chase /\ ~g.confirmed
  <2>1. f = g BY <1>1, <1>3, <1>5 DEF Settled
  <2>2. FollowOK(g) BY <1>5 DEF FollowOK, Chasing
  <2>3. NumberOK(g, ls, m) BY <1>2, <1>5 DEF NumberOK
  <2> QED BY <1>2, <2>1, <2>2, <2>3 DEF Sound
<1>6. CASE ~g.chase
  <2>1. FollowOK(g) BY <1>6 DEF FollowOK, Chasing
  <2>2. CASE other = {}
    <3>1. f = g BY <1>1, <1>3, <1>6, <2>2
    <3>2. NumberOK(g, ls, m)
      <4>1. CASE NumberOK(g, ls, miss) BY <4>1 DEF NumberOK
      <4>2. CASE StillToCome(g, out)
        <5>1. g.refLap \in {0} \cup DOMAIN ls
          <6>1. g.refLap = 0 \/ g.refLap = e.refLap
            <7>1. e \in Managers BY DEF Sound, GroundOK
            <7> QED BY <7>1, ReflaggedIs DEF g
          <6>2. e.refLap \in {0} \cup DOMAIN ls BY DEF Sound, NumberOK
          <6> QED BY <6>1, <6>2
        <5> QED BY <3>1, <4>2, <5>1 DEF NumberOK
      <4> QED BY <1>2, <1>6, <4>1, <4>2
    <3> QED BY <1>2, <2>1, <3>1, <3>2 DEF Sound
  <2>3. CASE other # {}
    <3> DEFINE q == CHOOSE q \in other : TRUE
    <3>1. q \in other BY <2>3
    <3>2. f = Best(g, q) BY <1>1, <1>3, <1>6, <2>3
    <3> HIDE DEF q
    <3>3. g \in Managers BY <1>2 DEF GroundOK
    <3>4. PICK i \in DOMAIN g.hist : q = g.hist[i] /\ Quickest(g, i) BY <3>1, <3>3, FastestIs
    <3>5. q \in Records /\ q.n \in DOMAIN ls /\ q.n \notin out
      BY <1>2, <3>3, <3>4, ToldTypes DEF ToldOK, FlagsOK, Quickest
    <3>6. /\ Sound(f, s, c, r, ls, m) /\ f.hist = g.hist /\ SameReference(g, f) /\ SameChase(g, f)
          /\ f.refLap = q.n
      BY <1>2, <1>6, <3>2, <3>5, BestSound
    <3>7. Allowed(f, ls) = Allowed(g, ls)
      BY <1>2, <3>6 DEF Allowed, Chasing, SameChase, Sound, GroundOK
    <3>8. RefOK(f, ls) /\ FlagsOK(f, out) /\ (CornersOK(e) => CornersOK(f))
      BY <1>2, <3>6, <3>7 DEF RefOK, SameReference, FlagsOK, CornersOK
    <3> QED BY <3>5, <3>6, <3>8
  <2> QED BY <2>2, <2>3
<1> QED BY <1>4, <1>5, <1>6, <1>2 DEF Chasing, GroundOK

\* A lap of this circuit is chosen for a chase.
LEMMA ChosenLapSound ==
    ASSUME NEW s, NEW c \in Cars, NEW r \in Roads, NEW ls, DOMAIN ls \subseteq Nat \ {0}, NEW miss,
           NEW e, GroundOK(e, s, c), ToldOK(e, ls), s # 0, e.road = r,
           NEW l \in StoredLaps, StoredRoad[l] = r, NEW f, f = ChosenLap(e, l)
    PROVE  /\ Sound(f, s, c, r, ls, miss) /\ f.hist = e.hist
           /\ f.pending # Nothing
           /\ \A out : FlagsOK(e, out) /\ out \subseteq DOMAIN ls => f.refLap \notin out
<1> DEFINE u == Unsplit(e)
           b == [lap |-> Stored(l), time |-> StoredTime[l]]
           g == [u EXCEPT !.chase = TRUE, !.base = b, !.chased = NoBase, !.baseCar = e.car,
                          !.baseRoad = e.road, !.confirmed = TRUE]
<1>1. f = Settled(g) BY DEF ChosenLap
<1>2. e \in Managers /\ e.session = s /\ s \in Nat /\ e.car = c BY ManagerTypes DEF GroundOK
<1>3. /\ u \in Managers /\ SameGround(e, u) /\ u.hist = e.hist /\ u.splits = NoBase
      /\ u.pending = e.pending
  BY <1>2, Unsplits
<1>4. b \in Bases /\ b.lap = Stored(l)
  <2>1. StoredTime[l] \in Nat BY SetsAssumption
  <2>2. Stored(l) \in LapNames BY Names
  <2> QED BY <2>1, <2>2 DEF Bases
<1>5. NoBase \in Bases /\ NoBase.lap = Nothing BY Names
<1> HIDE DEF u, b
<1>6. g \in Managers
  <2> DEFINE w == [u EXCEPT !.chase = TRUE, !.base = b, !.chased = NoBase]
  <2>1. w \in Managers BY <1>3, <1>4, <1>5 DEF Managers
  <2>2. g = [w EXCEPT !.baseCar = e.car, !.baseRoad = e.road, !.confirmed = TRUE] OBVIOUS
  <2> HIDE DEF w, g
  <2>3. e.car \in Cars \cup {0} /\ e.road \in Roads \cup {Unknown} BY <1>2 DEF Managers
  <2> QED BY <2>1, <2>2, <2>3 DEF Managers
<1>7. /\ SameGround(e, g) /\ g.hist = e.hist /\ g.splits = NoBase /\ g.pending = e.pending
      /\ g.chase /\ g.confirmed /\ g.base = b /\ g.chased = NoBase /\ g.baseCar = c /\ g.baseRoad = r
  BY <1>2, <1>3 DEF Managers, SameGround
<1> HIDE DEF g
<1>8. Elsewhere(g.base.lap, s, g.baseRoad) BY <1>4, <1>7 DEF Elsewhere
<1>9. Chasing(g) BY <1>7 DEF Chasing
<1>10. ChaseOK(g, s, c, r) BY <1>7, <1>8, <1>9 DEF ChaseOK
<1>11. GroundOK(g, s, c) BY <1>2, <1>6, <1>7 DEF GroundOK, SameGround
<1>12. ToldOK(g, ls) BY <1>7 DEF ToldOK
<1>13. SplitOK(g) BY <1>7 DEF SplitOK
<1>14. Unsettled(g, s, c, r, ls) BY <1>7, <1>9, <1>10, <1>11, <1>12, <1>13 DEF Unsettled
<1>15. /\ Sound(f, s, c, r, ls, miss) /\ SameReference(g, f) /\ f.hist = g.hist
       /\ SameChase(g, f)
       /\ \A out : FlagsOK(g, out) /\ out \subseteq DOMAIN ls => f.refLap \notin out
  BY <1>1, <1>14, SettleSound
<1>16. f.pending # Nothing
  <2>1. /\ f.pending = (IF f.chased.lap # g.chased.lap \/ g.ref = Nothing THEN f.chased.lap ELSE g.pending)
    BY <1>1, <1>4, <1>6, <1>7, Names, SettledIs
  <2>2. f.chased.lap # Nothing
    <3>1. Chasing(f) /\ FollowOK(f) /\ f.base = b /\ f.session = s
      BY <1>7, <1>9, <1>15 DEF Sound, SameChase, Chasing, GroundOK
    <3>2. f.chased.lap = (IF f.refLap = 0 THEN b.lap ELSE Driven(s, f.refLap))
      BY <3>1 DEF FollowOK
    <3>3. f \in Managers BY <1>15 DEF Sound, GroundOK
    <3>4. f.refLap \in Nat BY <3>3, ManagerTypes
    <3> QED BY <1>2, <1>4, <3>2, <3>4, Names
  <2> QED BY <1>5, <1>7, <2>1, <2>2
<1>17. \A out : FlagsOK(e, out) => FlagsOK(g, out) BY <1>7 DEF FlagsOK
<1> QED BY <1>7, <1>15, <1>16, <1>17

\* A session begins, or none is left (s = 0).
LEMMA OnSessionSound ==
    ASSUME NEW s0, NEW c0, NEW r0, NEW ls0, NEW miss0, NEW e, Sound(e, s0, c0, r0, ls0, miss0),
           NEW s \in Nat, NEW c \in Cars, NEW f, f = OnSession(e, s, c)
    PROVE  /\ GroundOK(f, s, c) /\ f.hist = <<>> /\ f.ref = Nothing /\ f.refLap = 0
           /\ s0 < s => \A r, miss : Sound(f, s, c, r, <<>>, miss)
<1> DEFINE u == Unsplit(e)
           g == [u EXCEPT !.session = s, !.car = c, !.hist = <<>>, !.ref = Nothing, !.corners = Nothing,
                          !.pending = Nothing, !.refLap = 0]
<1>1. f = IF ~e.chase THEN g
          ELSE IF c # e.baseCar THEN ChaseEnded(g)
          ELSE [g EXCEPT !.base = IF e.chased.lap # Nothing THEN e.chased ELSE @,
                         !.chased = NoBase, !.confirmed = FALSE]
  BY DEF OnSession
<1>2. e \in Managers /\ e.session = s0 /\ s0 \in Nat BY ManagerTypes DEF Sound, GroundOK
<1>3. /\ u \in Managers /\ SameChase(e, u) /\ u.splits = NoBase /\ u.chased = e.chased
  BY <1>2, Unsplits
<1>4. Nothing \in LapNames /\ <<>> \in Seq(Records) BY Names
<1> HIDE DEF u
<1>5. g \in Managers
  <2> DEFINE w == [u EXCEPT !.session = s, !.car = c, !.hist = <<>>]
             v == [w EXCEPT !.ref = Nothing, !.corners = Nothing]
  <2>1. w \in Managers BY <1>3, <1>4 DEF Managers
  <2>2. g = [v EXCEPT !.pending = Nothing, !.refLap = 0] OBVIOUS
  <2> HIDE DEF w, g
  <2>3. v \in Managers BY <1>4, <2>1 DEF Managers
  <2> HIDE DEF v
  <2> QED BY <1>4, <2>2, <2>3 DEF Managers
<1>6. /\ g.session = s /\ g.car = c /\ g.hist = <<>> /\ g.ref = Nothing /\ g.pending = Nothing
      /\ g.refLap = 0 /\ g.splits = NoBase /\ SameChase(e, g) /\ g.chased = e.chased
  BY <1>3 DEF Managers, SameChase
<1> HIDE DEF g
<1>7. ChaseOK(e, s0, c0, r0) /\ FollowOK(e) BY DEF Sound
<1>8. /\ f \in Managers /\ f.session = s /\ f.car = c /\ f.hist = <<>> /\ f.ref = Nothing
      /\ f.pending = Nothing /\ f.refLap = 0 /\ f.splits = NoBase
      /\ ~f.confirmed /\ f.chased = NoBase
      /\ f.chase => /\ e.chase /\ f.baseCar = c /\ f.baseRoad = e.baseRoad
                    /\ f.base = (IF e.chased.lap # Nothing THEN e.chased ELSE e.base)
      /\ ~f.chase => f.base = NoBase
  <2>1. CASE ~e.chase BY <1>1, <1>5, <1>6, <1>7, <2>1 DEF SameChase, ChaseOK
  <2>2. CASE e.chase /\ c # e.baseCar
    <3>1. f = ChaseEnded(g) BY <1>1, <2>2
    <3>2. /\ f \in Managers /\ SameGround(g, f) /\ SameReference(g, f)
          /\ f.hist = g.hist /\ f.splits = g.splits /\ f.pending = g.pending /\ f.refLap = g.refLap
          /\ ~f.chase /\ ~f.confirmed /\ f.base = NoBase /\ f.chased = NoBase
      BY <1>5, <3>1, ChaseEndedIs
    <3> QED BY <1>6, <3>2 DEF SameGround, SameReference
  <2>3. CASE e.chase /\ c = e.baseCar
    <3> DEFINE b == IF e.chased.lap # Nothing THEN e.chased ELSE e.base
    <3>1. b \in Bases /\ NoBase \in Bases BY <1>2, ManagerTypes, Names
    <3>2. f = [g EXCEPT !.base = b, !.chased = NoBase, !.confirmed = FALSE]
      <4>1. g.base = e.base BY <1>6 DEF SameChase
      <4>2. f = [g EXCEPT !.base = IF e.chased.lap # Nothing THEN e.chased ELSE g.base,
                          !.chased = NoBase, !.confirmed = FALSE]
        BY <1>1, <2>3
      <4> QED BY <4>1, <4>2
    <3> HIDE DEF b
    <3>3. f \in Managers BY <1>5, <3>1, <3>2 DEF Managers
    <3>4. /\ SameGround(g, f) /\ SameReference(g, f) /\ f.hist = g.hist /\ f.splits = g.splits
          /\ f.pending = g.pending /\ f.refLap = g.refLap /\ f.chase = g.chase
          /\ f.baseCar = g.baseCar /\ f.baseRoad = g.baseRoad
          /\ f.base = b /\ f.chased = NoBase /\ ~f.confirmed
      BY <1>5, <3>2 DEF Managers, SameGround, SameReference
    <3> QED BY <1>6, <2>3, <3>3, <3>4 DEF SameGround, SameReference, SameChase, b
  <2> QED BY <2>1, <2>2, <2>3
<1>9. GroundOK(f, s, c) BY <1>8 DEF GroundOK
<1>10. ASSUME s0 < s, NEW r, NEW miss PROVE Sound(f, s, c, r, <<>>, miss)
  <2>1. ASSUME f.chase PROVE Elsewhere(f.base.lap, s, f.baseRoad)
    <3>1. Elsewhere(e.base.lap, s0, e.baseRoad) BY <1>7, <1>8, <2>1 DEF ChaseOK
    <3>2. Elsewhere(e.base.lap, s, e.baseRoad)
      <4>1. \A t \in Nat : t < s0 => t < s BY <1>2, <1>10
      <4> QED BY <3>1, <4>1 DEF Elsewhere
    <3>3. CASE e.chased.lap = Nothing BY <1>8, <2>1, <3>2, <3>3
    <3>4. CASE e.chased.lap # Nothing
      <4>1. Chasing(e) BY <1>7, <1>8, <2>1, <3>4, Names DEF ChaseOK, Chasing
      <4>2. e.chased.lap = (IF e.refLap = 0 THEN e.base.lap ELSE Driven(s0, e.refLap))
        BY <1>2, <1>7, <4>1 DEF FollowOK
      <4>3. e.refLap \in Nat BY <1>2, ManagerTypes
      <4>4. Elsewhere(e.chased.lap, s, e.baseRoad)
        BY <1>2, <1>10, <3>2, <4>2, <4>3 DEF Elsewhere
      <4> QED BY <1>8, <2>1, <3>4, <4>4
    <3> QED BY <3>3, <3>4
  <2>2. s # 0 BY <1>2, <1>10
  <2>3. ~Chasing(f) BY <1>8 DEF Chasing
  <2>4. ChaseOK(f, s, c, r) BY <1>8, <2>1, <2>2, <2>3 DEF ChaseOK
  <2>5. InHand(f) = Nothing BY <1>8 DEF InHand
  <2>6. FollowOK(f) /\ SplitOK(f) BY <1>8, <2>3 DEF FollowOK, SplitOK
  <2>7. ToldOK(f, <<>>) BY <1>8 DEF ToldOK
  <2>8. NumberOK(f, <<>>, miss) BY <1>8, <2>5 DEF NumberOK
  <2>9. ToComeOK(f, <<>>) BY <2>5 DEF ToComeOK, Allowed
  <2> QED BY <1>9, <2>4, <2>6, <2>7, <2>8, <2>9 DEF Sound
<1> QED BY <1>8, <1>9, <1>10

\* The circuit is identified: a chase resumes on its circuit, or ends.
LEMMA OnTrackSound ==
    ASSUME NEW s, NEW c, NEW r \in Roads, NEW ls, DOMAIN ls \subseteq Nat \ {0}, NEW miss,
           NEW e, Sound(e, s, c, r, ls, miss), RefOK(e, ls),
           NEW name \in {Unknown, r}, NEW f, f = OnTrack(e, name)
    PROVE  /\ Sound(f, s, c, r, ls, miss) /\ RefOK(f, ls) /\ f.hist = e.hist
           /\ CornersOK(e) => CornersOK(f)
           /\ \A out : FlagsOK(e, out) /\ e.refLap \notin out /\ out \subseteq DOMAIN ls =>
                 f.refLap \notin out
<1> DEFINE g == [e EXCEPT !.road = name]
           h == [g EXCEPT !.confirmed = TRUE]
<1>1. f = IF ~e.chase \/ e.confirmed \/ name = Unknown THEN g
          ELSE IF name # e.baseRoad THEN ChosenBest(g) ELSE Settled(h)
  BY DEF OnTrack
<1>2. e \in Managers BY DEF Sound, GroundOK
<1>3. /\ g \in Managers /\ SameChase(e, g) /\ SameReference(e, g) /\ g.hist = e.hist
      /\ g.session = e.session /\ g.car = e.car /\ g.refLap = e.refLap /\ g.pending = e.pending
      /\ g.splits = e.splits /\ g.chased = e.chased
  BY <1>2 DEF Managers, SameChase, SameReference
<1> HIDE DEF g
<1>4. Sound(g, s, c, r, ls, miss) /\ RefOK(g, ls)
  <2>1. InHand(g) = InHand(e) /\ (Chasing(g) <=> Chasing(e)) /\ Allowed(g, ls) = Allowed(e, ls)
    BY <1>3 DEF InHand, Chasing, Allowed, SameChase, SameReference
  <2>2. GroundOK(g, s, c) /\ ToldOK(g, ls) /\ SplitOK(g)
    BY <1>3 DEF Sound, GroundOK, ToldOK, SplitOK, SameReference
  <2>3. ChaseOK(g, s, c, r) BY <1>3, <2>1 DEF Sound, ChaseOK, SameChase, SameReference
  <2>4. FollowOK(g) BY <1>3, <2>1 DEF Sound, FollowOK, SameChase
  <2>5. NumberOK(g, ls, miss) BY <1>3, <2>1 DEF Sound, NumberOK, SameChase
  <2>6. ToComeOK(g, ls) BY <2>1 DEF Sound, ToComeOK
  <2>7. RefOK(g, ls) BY <1>3, <2>1 DEF RefOK, SameReference
  <2> QED BY <2>2, <2>3, <2>4, <2>5, <2>6, <2>7 DEF Sound
<1>5. CornersOK(e) => CornersOK(g) BY <1>3 DEF CornersOK, SameReference
<1>6. CASE ~e.chase \/ e.confirmed \/ name = Unknown BY <1>1, <1>3, <1>4, <1>5, <1>6
<1>7. CASE e.chase /\ ~e.confirmed /\ name # e.baseRoad /\ name # Unknown
  <2>1. f = ChosenBest(g) BY <1>1, <1>7
  <2>2. g.ref = Nothing BY <1>4, <1>3, <1>7 DEF Sound, ChaseOK, SameChase
  <2>3. GroundOK(g, s, c) /\ ToldOK(g, ls) BY <1>4 DEF Sound
  <2>4. /\ Sound(f, s, c, r, ls, miss) /\ f.hist = g.hist
        /\ f.ref = Nothing \/ SameReference(g, f)
        /\ \A out : FlagsOK(g, out) /\ out \subseteq DOMAIN ls => f.refLap \notin out
    BY <2>1, <2>3, ChosenBestSound
  <2>5. f.ref = Nothing BY <2>2, <2>4 DEF SameReference
  <2>6. RefOK(f, ls) /\ CornersOK(f) BY <2>5 DEF RefOK, CornersOK, Allowed
  <2>7. \A out : FlagsOK(e, out) => FlagsOK(g, out) BY <1>3 DEF FlagsOK
  <2> QED BY <1>3, <2>4, <2>6, <2>7
<1>8. CASE e.chase /\ ~e.confirmed /\ name = e.baseRoad /\ name # Unknown
  <2>1. f = Settled(h) BY <1>1, <1>8
  <2>2. /\ h \in Managers /\ h.session = g.session /\ h.car = g.car /\ SameReference(g, h)
        /\ h.hist = g.hist /\ h.pending = g.pending /\ h.splits = g.splits /\ h.chased = g.chased
        /\ h.chase = g.chase /\ h.confirmed /\ h.base = g.base /\ h.baseRoad = g.baseRoad
        /\ h.baseCar = g.baseCar
    BY <1>3 DEF Managers, SameReference
  <2> HIDE DEF h
  <2>3. /\ g.ref = Nothing /\ g.chased = NoBase /\ g.chase /\ name = r /\ g.baseRoad = r
    BY <1>3, <1>4, <1>8 DEF Sound, ChaseOK, SameChase
  <2>4. GroundOK(h, s, c) /\ ToldOK(h, ls) /\ SplitOK(h)
    BY <1>4, <2>2 DEF Sound, GroundOK, ToldOK, SplitOK, SameReference
  <2>5. Chasing(h) BY <2>2, <2>3 DEF Chasing
  <2>6. ChaseOK(h, s, c, r) BY <1>4, <2>2, <2>3, <2>5 DEF Sound, ChaseOK
  <2>7. Unsettled(h, s, c, r, ls) BY <2>2, <2>3, <2>4, <2>5, <2>6 DEF Unsettled
  <2>8. /\ Sound(f, s, c, r, ls, miss) /\ SameReference(h, f) /\ f.hist = h.hist
        /\ \A out : FlagsOK(h, out) /\ out \subseteq DOMAIN ls => f.refLap \notin out
    BY <2>1, <2>7, SettleSound
  <2>9. f.ref = Nothing BY <2>2, <2>3, <2>8 DEF SameReference
  <2>10. RefOK(f, ls) /\ CornersOK(f) BY <2>9 DEF RefOK, CornersOK, Allowed
  <2>11. \A out : FlagsOK(e, out) => FlagsOK(h, out) BY <1>3, <2>2 DEF FlagsOK
  <2> QED BY <1>3, <2>2, <2>8, <2>10, <2>11
<1> QED BY <1>6, <1>7, <1>8

\* Sound but for the follow-up of lap n, which may be quicker than the chase.
Nearly(e, s, c, r, ls, n) ==
    /\ GroundOK(e, s, c) /\ ToldOK(e, ls) /\ ChaseOK(e, s, c, r)
    /\ ToComeOK(e, ls) /\ SplitOK(e) /\ e.refLap \in {0} \cup DOMAIN ls
    /\ Chasing(e) =>
          /\ e.chased.time <= e.base.time
          /\ \A i \in DOMAIN e.hist :
                e.hist[i].counts => e.hist[i].n = n \/ e.chased.time <= e.hist[i].time
          /\ e.chased.lap = (IF e.refLap = 0 THEN e.base.lap ELSE Driven(e.session, e.refLap))
          /\ InHand(e) = e.chased.lap

LEMMA SoundIsNearly ==
    ASSUME NEW s, NEW c, NEW r, NEW ls, NEW miss, NEW e, Sound(e, s, c, r, ls, miss), NEW n
    PROVE  Nearly(e, s, c, r, ls, n)
BY DEF Sound, Nearly, FollowOK, NumberOK

LEMMA AllowedSame ==
    ASSUME NEW e, NEW f, NEW ls, f.session = e.session, SameChase(e, f)
    PROVE  Allowed(f, ls) = Allowed(e, ls)
BY DEF Allowed, Chasing, SameChase

\* A quicker lap of this session is the one chased from now on.
LEMMA AdoptSound ==
    ASSUME NEW s, NEW c, NEW r, NEW ls, DOMAIN ls \subseteq Nat \ {0}, NEW miss,
           NEW n \in DOMAIN ls, NEW e, Nearly(e, s, c, r, ls, n), Chasing(e),
           ls[n].time \in Nat, ls[n].time < e.chased.time,
           NEW b, b = [lap |-> Driven(s, n), time |-> ls[n].time],
           NEW f, f = Adopted(e, b, n)
    PROVE  /\ Sound(f, s, c, r, ls, miss) /\ SameReference(e, f) /\ SameChase(e, f)
           /\ f.hist = e.hist /\ f.refLap = n
<1>1. e \in Managers /\ e.session = s /\ s \in Nat BY ManagerTypes DEF Nearly, GroundOK
<1>2. n \in Nat /\ n # 0 OBVIOUS
<1>3. Driven(s, n) \in LapNames /\ Driven(s, n) # Nothing BY <1>1, <1>2, Names
<1>4. b \in Bases /\ b.lap = Driven(s, n) /\ b.time = ls[n].time BY <1>3 DEF Bases
<1>5. /\ f \in Managers /\ SameGround(e, f) /\ SameChase(e, f) /\ SameReference(e, f)
      /\ f.hist = e.hist /\ f.chased = b /\ f.refLap = n
      /\ f.pending = (IF b.lap # e.chased.lap \/ e.ref = Nothing THEN b.lap ELSE e.pending)
      /\ f.splits \in {e.splits, NoBase}
  BY <1>1, <1>2, <1>4, AdoptedIs
<1>6. Chasing(f) /\ f.chase /\ f.session = s
  BY <1>1, <1>5 DEF Chasing, SameGround, SameChase
<1>7. InHand(f) = f.chased.lap
  <2>1. CASE b.lap # e.chased.lap \/ e.ref = Nothing BY <1>3, <1>4, <1>5, <2>1 DEF InHand
  <2>2. CASE ~(b.lap # e.chased.lap \/ e.ref = Nothing)
    <3>1. InHand(e) = e.chased.lap BY DEF Nearly
    <3> QED BY <1>5, <2>2, <3>1 DEF InHand, SameReference
  <2> QED BY <2>1, <2>2
<1>8. f.chased.time <= f.base.time
  <2>1. e.chased.time <= e.base.time BY DEF Nearly
  <2>2. e.chased.time \in Nat /\ e.base.time \in Nat BY <1>1, ManagerTypes
  <2>3. f.base = e.base /\ f.chased.time = ls[n].time BY <1>4, <1>5 DEF SameChase
  <2> QED BY <2>1, <2>2, <2>3
<1>9. ASSUME NEW i \in DOMAIN f.hist, f.hist[i].counts PROVE f.chased.time <= f.hist[i].time
  <2>1. i \in DOMAIN e.hist /\ f.hist[i] = e.hist[i] /\ f.chased.time = ls[n].time BY <1>4, <1>5
  <2>2. e.hist[i].time \in Nat /\ e.chased.time \in Nat BY <1>1, <2>1, ManagerTypes, ToldTypes
  <2>3. CASE e.hist[i].n = n
    <3>1. e.hist[i].time = ls[n].time BY <2>1, <2>3 DEF Nearly, ToldOK
    <3> QED BY <2>1, <3>1
  <2>4. CASE e.chased.time <= e.hist[i].time BY <2>1, <2>2, <2>4
  <2> QED BY <1>9, <2>1, <2>3, <2>4 DEF Nearly
<1>10. f.chased.lap = Driven(f.session, f.refLap) /\ f.refLap # 0 BY <1>2, <1>4, <1>5, <1>6
<1>11. FollowOK(f) BY <1>7, <1>8, <1>9, <1>10 DEF FollowOK
<1>12. NumberOK(f, ls, miss) BY <1>5, <1>6 DEF NumberOK
<1>13. ToComeOK(f, ls) BY <1>5, <1>7, <1>10 DEF ToComeOK, Allowed
<1>14. SplitOK(f) BY <1>5 DEF Nearly, SplitOK, SameReference
<1>15. GroundOK(f, s, c) BY <1>5 DEF Nearly, GroundOK, SameGround
<1>16. ToldOK(f, ls) BY <1>5 DEF Nearly, ToldOK
<1>17. ChaseOK(f, s, c, r) BY <1>5, <1>6 DEF Nearly, ChaseOK, Chasing, SameChase
<1> QED BY <1>5, <1>11, <1>12, <1>13, <1>14, <1>15, <1>16, <1>17 DEF Sound

Told(e, q) == [e EXCEPT !.hist = SubSeq(<<q>> \o @, 1, Min({Len(@) + 1, HistorySize}))]

LEMMA ToldIs ==
    ASSUME NEW e \in Managers, NEW q \in Records, NEW f, f = Told(e, q)
    PROVE  /\ f \in Managers /\ SameGround(e, f) /\ SameChase(e, f) /\ SameReference(e, f)
           /\ f.chased = e.chased /\ f.refLap = e.refLap /\ f.pending = e.pending
           /\ f.splits = e.splits
           /\ \A i \in DOMAIN f.hist : f.hist[i] = q \/ \E j \in DOMAIN e.hist : f.hist[i] = e.hist[j]
<1> DEFINE m == Min({Len(e.hist) + 1, HistorySize})
           longer == <<q>> \o e.hist
           h == SubSeq(longer, 1, m)
<1>1. e.hist \in Seq(Records) /\ Len(e.hist) \in Nat BY DEF Managers
<1>2. m \in Nat /\ m <= Len(e.hist) + 1
  <2>1. HistorySize \in Nat BY BoundsAssumption
  <2>2. \E x \in {Len(e.hist) + 1, HistorySize} : \A y \in {Len(e.hist) + 1, HistorySize} : x <= y
    BY <1>1, <2>1
  <2>3. /\ m \in {Len(e.hist) + 1, HistorySize}
        /\ \A y \in {Len(e.hist) + 1, HistorySize} : m <= y
    BY <2>2 DEF Min
  <2> QED BY <1>1, <2>1, <2>3
<1>3. /\ longer \in Seq(Records) /\ Len(longer) = Len(e.hist) + 1
      /\ \A i \in 1..Len(longer) : longer[i] = (IF i = 1 THEN q ELSE e.hist[i - 1])
  BY <1>1
<1> HIDE DEF m, longer
<1>4. /\ h \in Seq(Records) /\ Len(h) = m /\ \A i \in 1..m : h[i] = longer[i]
  <2>1. \A i \in 1..m : i \in 1..Len(longer) BY <1>1, <1>2, <1>3
  <2>2. \A i \in 1..m : longer[i] \in Records BY <1>3, <2>1
  <2>3. h = [i \in 1..m |-> longer[i]] BY <1>2, <1>3
  <2> HIDE DEF h
  <2>4. h \in [1..m -> Records] BY <2>2, <2>3
  <2> QED BY <1>2, <2>3, <2>4
<1>5. f = [e EXCEPT !.hist = h] BY DEF Told, h, m, longer
<1> HIDE DEF h
<1>6. /\ f \in Managers /\ SameGround(e, f) /\ SameChase(e, f) /\ SameReference(e, f)
      /\ f.chased = e.chased /\ f.refLap = e.refLap /\ f.pending = e.pending
      /\ f.splits = e.splits /\ f.hist = h
  BY <1>4, <1>5 DEF Managers, SameGround, SameChase, SameReference
<1>7. ASSUME NEW i \in DOMAIN h PROVE h[i] = q \/ \E j \in DOMAIN e.hist : h[i] = e.hist[j]
  <2>1. i \in 1..m /\ i \in 1..Len(longer) /\ h[i] = longer[i] BY <1>1, <1>2, <1>3, <1>4
  <2>2. CASE i = 1 BY <1>3, <2>1, <2>2
  <2>3. CASE i # 1
    <3>1. i - 1 \in DOMAIN e.hist BY <1>1, <1>3, <2>1, <2>3
    <3> QED BY <1>3, <2>1, <2>3, <3>1
  <2> QED BY <2>2, <2>3
<1> QED BY <1>6, <1>7

\* Lap n is complete, and the manager has still to be told of it.
ToTell(e, s, c, r, ls, out, n, took, miss) ==
    /\ DOMAIN ls \subseteq Nat \ {0} /\ out \subseteq DOMAIN ls
    /\ Sound(e, s, c, r, ls, miss) /\ RefOK(e, ls)
    /\ n \in DOMAIN ls /\ ls[n].time = took /\ took \in Nat
    /\ \A i \in DOMAIN e.hist : e.hist[i].n # n

\* In step with the verdicts if it was, or if it was told of them.
Follows(e, f, out, revised) ==
    revised \/ (FlagsOK(e, out) /\ e.refLap \notin out) => FlagsOK(f, out) /\ f.refLap \notin out

\* The lap is told, the verdicts revised with it are brought in, and it may
\* become the reference, or the lap to chase.
LEMMA OnLapSound ==
    ASSUME NEW s, NEW c, NEW r, NEW ls, NEW out, NEW n, NEW took, NEW miss, NEW e,
           ToTell(e, s, c, r, ls, out, n, took, miss), NEW revised, NEW before,
           NEW f, f = OnLap(e, n, took, out, revised, before),
           NEW m, miss \/ StillToCome(f, out) => m
    PROVE  /\ Sound(f, s, c, r, ls, m) /\ RefOK(f, ls)
           /\ CornersOK(e) => CornersOK(f)
           /\ Follows(e, f, out, revised)
<1> DEFINE w == revised \/ (FlagsOK(e, out) /\ e.refLap \notin out)
           q == [n |-> n, time |-> ls[n].time, counts |-> n \notin out]
           t == [e EXCEPT !.hist = SubSeq(<<q>> \o @, 1, Min({Len(@) + 1, HistorySize}))]
           g == IF ~revised THEN t
                ELSE IF e.chase THEN Settled(Reflagged(t, out)) ELSE Reflagged(t, out)
           b == [lap |-> Driven(s, n), time |-> ls[n].time]
<1>0. /\ DOMAIN ls \subseteq Nat \ {0} /\ out \subseteq DOMAIN ls
      /\ Sound(e, s, c, r, ls, miss) /\ RefOK(e, ls)
      /\ n \in DOMAIN ls /\ ls[n].time \in Nat /\ \A i \in DOMAIN e.hist : e.hist[i].n # n
      /\ f = OnLap(e, n, ls[n].time, out, revised, before)
  BY DEF ToTell
<1> USE <1>0
<1>1. e \in Managers /\ e.session = s /\ s \in Nat BY ManagerTypes DEF Sound, GroundOK
<1>2. n \in Nat /\ n # 0 OBVIOUS
<1>3. q \in Records /\ q.n = n /\ q.time = ls[n].time /\ (q.counts <=> n \notin out)
  BY <1>2 DEF Records
<1>4. \/ f = g /\ (q.counts /\ Chasing(g) => ~(ls[n].time < g.chased.time))
      \/ q.counts /\ ~e.chase /\ f = Best(g, q)
      \/ q.counts /\ e.chase /\ g.confirmed /\ ls[n].time < g.chased.time /\ f = Adopted(g, b, n)
  <2> DEFINE limit == IF before > 0 THEN before
                     ELSE LET others == {g.hist[i].time : i \in {j \in DOMAIN g.hist \ {1} : g.hist[j].counts}}
                          IN IF others = {} THEN ls[n].time ELSE Min(others)
             to == [lap |-> Samples(e, q), time |-> ls[n].time]
  <2>1. f = IF ~q.counts THEN g
            ELSE IF ~e.chase THEN IF ls[n].time <= limit THEN Best(g, q) ELSE g
            ELSE IF g.confirmed /\ ls[n].time < g.chased.time THEN Adopted(g, to, n) ELSE g
    BY DEF OnLap
  <2>2. to = b BY <1>1, <1>3 DEF Samples
  <2>3. ~e.chase => ~Chasing(g)
    <3>1. ASSUME ~e.chase PROVE ~g.chase
      <4>0. t = Told(e, q) BY DEF Told
      <4> HIDE DEF t
      <4>1. t \in Managers /\ SameChase(e, t) BY <1>1, <1>3, <4>0, ToldIs
      <4>2. g \in {t, Reflagged(t, out)} BY <3>1
      <4>3. SameChase(t, Reflagged(t, out)) BY <4>1, ReflaggedIs
      <4> QED BY <3>1, <4>1, <4>2, <4>3 DEF SameChase
    <3> QED BY <3>1 DEF Chasing
  <2> HIDE DEF g, q, b, to, limit
  <2> QED BY <2>1, <2>2, <2>3 DEF Chasing
<1>5. /\ t \in Managers /\ SameGround(e, t) /\ SameChase(e, t) /\ SameReference(e, t)
      /\ t.chased = e.chased /\ t.refLap = e.refLap /\ t.pending = e.pending
      /\ t.splits = e.splits
      /\ \A i \in DOMAIN t.hist : t.hist[i] = q \/ \E j \in DOMAIN e.hist : t.hist[i] = e.hist[j]
  <2> HIDE DEF q
  <2>1. t = Told(e, q) BY DEF Told
  <2>2. q \in Records BY <1>3
  <2> HIDE DEF t
  <2> QED BY <1>1, <2>1, <2>2, ToldIs
<1> HIDE DEF t, q
<1>6. t.session = s /\ InHand(t) = InHand(e) /\ (Chasing(t) <=> Chasing(e))
  BY <1>1, <1>5 DEF SameGround, SameReference, SameChase, InHand, Chasing
<1>7. Nearly(t, s, c, r, ls, n)
  <2>1. GroundOK(t, s, c) BY <1>5 DEF Sound, GroundOK, SameGround
  <2>2. ToldOK(t, ls)
    <3> SUFFICES ASSUME NEW i \in DOMAIN t.hist
                 PROVE  t.hist[i].n \in DOMAIN ls /\ t.hist[i].time = ls[t.hist[i].n].time
      BY DEF ToldOK
    <3> QED BY <1>3, <1>5 DEF Sound, ToldOK
  <2>3. ChaseOK(t, s, c, r) BY <1>5, <1>6 DEF Sound, ChaseOK, SameChase, SameReference
  <2>4. ToComeOK(t, ls)
    <3>1. Allowed(t, ls) = Allowed(e, ls) BY <1>1, <1>5, <1>6, AllowedSame
    <3> QED BY <1>6, <3>1 DEF Sound, ToComeOK
  <2>5. SplitOK(t) BY <1>5 DEF Sound, SplitOK, SameReference
  <2>6. t.refLap \in {0} \cup DOMAIN ls BY <1>5 DEF Sound, NumberOK
  <2>7. ASSUME Chasing(t)
        PROVE  /\ t.chased.time <= t.base.time
               /\ t.chased.lap = (IF t.refLap = 0 THEN t.base.lap ELSE Driven(t.session, t.refLap))
               /\ InHand(t) = t.chased.lap
    BY <1>1, <1>5, <1>6, <2>7 DEF Sound, FollowOK, SameChase
  <2>8. ASSUME Chasing(t), NEW i \in DOMAIN t.hist, t.hist[i].counts
        PROVE  t.hist[i].n = n \/ t.chased.time <= t.hist[i].time
    <3>1. CASE t.hist[i] = q BY <1>3, <3>1
    <3>2. ASSUME NEW j \in DOMAIN e.hist, t.hist[i] = e.hist[j] PROVE t.chased.time <= t.hist[i].time
      BY <1>5, <1>6, <2>8, <3>2 DEF Sound, FollowOK
    <3> QED BY <1>5, <3>1, <3>2
  <2> QED BY <2>1, <2>2, <2>3, <2>4, <2>5, <2>6, <2>7, <2>8 DEF Nearly
<1>8. NumberOK(t, ls, miss)
  BY <1>1, <1>5, <1>6 DEF Sound, NumberOK, SameChase
<1>9. RefOK(t, ls) /\ (CornersOK(e) => CornersOK(t))
  <2>1. Allowed(t, ls) = Allowed(e, ls) BY <1>1, <1>5, <1>6, AllowedSame
  <2> QED BY <1>5, <2>1 DEF RefOK, CornersOK, SameReference
<1>10. /\ Nearly(g, s, c, r, ls, n) /\ RefOK(g, ls)
       /\ w => FlagsOK(g, out) /\ g.refLap \notin out
       /\ \A i \in DOMAIN g.hist : g.hist[i].n = n /\ g.hist[i].counts => n \notin out
       /\ (CornersOK(e) => CornersOK(g)) /\ (g.chase <=> e.chase)
       /\ NumberOK(g, ls, miss) \/ (~g.chase /\ StillToCome(g, out))
  <2>1. CASE ~revised
    <3>1. g = t BY <2>1
    <3>2. ASSUME w PROVE FlagsOK(t, out)
      <4> SUFFICES ASSUME NEW i \in DOMAIN t.hist
                   PROVE  t.hist[i].counts <=> t.hist[i].n \notin out
        BY DEF FlagsOK
      <4> QED BY <1>3, <1>5, <2>1, <3>2 DEF FlagsOK
    <3>3. (w => t.refLap \notin out) /\ (t.chase <=> e.chase) BY <1>5, <2>1 DEF SameChase
    <3>4. \A i \in DOMAIN t.hist : t.hist[i].n = n /\ t.hist[i].counts => n \notin out
      BY <1>3, <1>5
    <3> QED BY <1>7, <1>8, <1>9, <3>1, <3>2, <3>3, <3>4
  <2>2. CASE revised
    <3> DEFINE h == Reflagged(t, out)
    <3>1. /\ GroundOK(h, s, c) /\ ToldOK(h, ls) /\ ChaseOK(h, s, c, r) /\ SplitOK(h)
          /\ SameChase(t, h) /\ FlagsOK(h, out) /\ h.refLap \notin out
          /\ RefOK(h, ls) /\ (CornersOK(t) => CornersOK(h)) /\ ToComeOK(h, ls)
          /\ Chasing(h) => Unsettled(h, s, c, r, ls)
          /\ ~h.chase => NumberOK(h, ls, miss) \/ StillToCome(h, out)
          /\ h.chase => NumberOK(h, ls, miss)
      <4>1. /\ GroundOK(t, s, c) /\ ToldOK(t, ls) /\ ChaseOK(t, s, c, r) /\ SplitOK(t)
            /\ ToComeOK(t, ls) /\ (Chasing(t) => InHand(t) = t.chased.lap)
        BY <1>7 DEF Nearly
      <4> QED BY <1>8, <1>9, <4>1, ReflagSound
    <3>2. h.chase <=> e.chase BY <1>5, <3>1 DEF SameChase
    <3>3. h.refLap \in {0} \cup DOMAIN ls
      <4>1. h.refLap = 0 \/ h.refLap = t.refLap BY <1>5, ReflaggedIs
      <4> QED BY <1>7, <4>1 DEF Nearly
    <3>4. g = IF e.chase THEN Settled(h) ELSE h BY <2>2
    <3> HIDE DEF h, g
    <3>5. CASE Chasing(h)
      <4>1. g = Settled(h) BY <3>2, <3>4, <3>5 DEF Chasing
      <4>2. /\ Sound(g, s, c, r, ls, miss) /\ SameReference(h, g) /\ SameChase(h, g) /\ g.hist = h.hist
            /\ g.refLap \notin out
        BY <3>1, <3>5, <4>1, SettleSound
      <4>3. Allowed(g, ls) = Allowed(h, ls)
        BY <3>1, <4>2, AllowedSame DEF Sound, GroundOK
      <4>4. RefOK(g, ls) /\ FlagsOK(g, out) /\ (CornersOK(h) => CornersOK(g))
        BY <3>1, <4>2, <4>3 DEF RefOK, SameReference, FlagsOK, CornersOK
      <4>5. g.chase <=> e.chase BY <3>2, <4>2 DEF SameChase
      <4>6. NumberOK(g, ls, miss) /\ Nearly(g, s, c, r, ls, n) BY <4>2, SoundIsNearly DEF Sound
      <4>7. \A i \in DOMAIN g.hist : g.hist[i].n = n /\ g.hist[i].counts => n \notin out
        BY <4>4 DEF FlagsOK
      <4> QED BY <1>9, <3>1, <4>2, <4>4, <4>5, <4>6, <4>7
    <3>6. CASE ~Chasing(h)
      <4>1. g = h BY <3>2, <3>4, <3>6 DEF Settled, Chasing
      <4>2. Nearly(h, s, c, r, ls, n) BY <3>1, <3>3, <3>6 DEF Nearly
      <4>3. \A i \in DOMAIN h.hist : h.hist[i].n = n /\ h.hist[i].counts => n \notin out
        BY <3>1 DEF FlagsOK
      <4> QED BY <1>9, <3>1, <3>2, <4>1, <4>2, <4>3
    <3> QED BY <3>5, <3>6
  <2> QED BY <2>1, <2>2
<1> HIDE DEF g, b, w
<1> SUFFICES /\ Sound(f, s, c, r, ls, m) /\ RefOK(f, ls) /\ (CornersOK(e) => CornersOK(f))
             /\ w => FlagsOK(f, out) /\ f.refLap \notin out
  BY DEF w, Follows
<1>11. CASE f = g /\ (q.counts /\ Chasing(g) => ~(ls[n].time < g.chased.time))
  <2>1. FollowOK(g)
    <3>1. ASSUME Chasing(g), NEW i \in DOMAIN g.hist, g.hist[i].counts
          PROVE  g.chased.time <= g.hist[i].time
      <4>1. g \in Managers BY <1>10 DEF Nearly, GroundOK
      <4>2. g.hist[i].time \in Nat /\ g.chased.time \in Nat BY <4>1, ManagerTypes, ToldTypes
      <4>3. CASE g.hist[i].n = n
        <5>1. n \notin out BY <1>10, <3>1, <4>3
        <5>2. ~(ls[n].time < g.chased.time) BY <1>3, <1>11, <3>1, <5>1
        <5>3. g.hist[i].time = ls[n].time BY <1>10, <4>3 DEF Nearly, ToldOK
        <5> QED BY <4>2, <5>2, <5>3
      <4> QED BY <1>10, <3>1, <4>3 DEF Nearly
    <3> QED BY <1>10, <3>1 DEF Nearly, FollowOK
  <2>2. NumberOK(g, ls, m)
    <3>1. CASE NumberOK(g, ls, miss) BY <3>1 DEF NumberOK
    <3>2. CASE StillToCome(g, out)
      <4>1. g.refLap \in {0} \cup DOMAIN ls BY <1>10 DEF Nearly
      <4> QED BY <1>11, <3>2, <4>1 DEF NumberOK
    <3> QED BY <1>10, <3>1, <3>2
  <2>3. Sound(g, s, c, r, ls, m) BY <1>10, <2>1, <2>2 DEF Nearly, Sound
  <2> QED BY <1>10, <1>11, <2>3
<1>12. CASE q.counts /\ ~e.chase /\ f = Best(g, q)
  <2>1. ~g.chase /\ GroundOK(g, s, c) /\ ToldOK(g, ls) /\ ChaseOK(g, s, c, r)
    BY <1>10, <1>12 DEF Nearly
  <2>2. /\ Sound(f, s, c, r, ls, m) /\ f.hist = g.hist /\ SameReference(g, f) /\ SameChase(g, f)
        /\ f.refLap = q.n
    BY <1>3, <1>12, <2>1, BestSound
  <2>3. Allowed(f, ls) = Allowed(g, ls) BY <2>1, <2>2, AllowedSame DEF Sound, GroundOK
  <2>4. RefOK(f, ls) /\ (w => FlagsOK(f, out)) /\ (CornersOK(e) => CornersOK(f))
    BY <1>10, <2>2, <2>3 DEF RefOK, SameReference, FlagsOK, CornersOK
  <2>5. f.refLap \notin out BY <1>3, <1>12, <2>2
  <2> QED BY <2>2, <2>4, <2>5
<1>13. CASE q.counts /\ e.chase /\ g.confirmed /\ ls[n].time < g.chased.time /\ f = Adopted(g, b, n)
  <2>1. Chasing(g) BY <1>10, <1>13 DEF Chasing
  <2>2. b = [lap |-> Driven(s, n), time |-> ls[n].time] BY DEF b
  <2>3. /\ Sound(f, s, c, r, ls, m) /\ SameReference(g, f) /\ SameChase(g, f)
        /\ f.hist = g.hist /\ f.refLap = n
    BY <1>10, <1>13, <2>1, <2>2, AdoptSound
  <2>4. Allowed(f, ls) = Allowed(g, ls) BY <1>10, <2>3, AllowedSame DEF Nearly, Sound, GroundOK
  <2>5. RefOK(f, ls) /\ (w => FlagsOK(f, out)) /\ (CornersOK(e) => CornersOK(f))
    BY <1>10, <2>3, <2>4 DEF RefOK, SameReference, FlagsOK, CornersOK
  <2>6. f.refLap \notin out BY <1>3, <1>13, <2>3
  <2> QED BY <2>3, <2>5, <2>6
<1> QED BY <1>4, <1>11, <1>12, <1>13

\* Two managers that differ at most in what was made from the reference.
Alike(e, f) ==
    /\ SameGround(e, f) /\ SameChase(e, f) /\ f.ref = e.ref /\ f.hist = e.hist
    /\ f.chased = e.chased /\ f.refLap = e.refLap /\ f.pending = e.pending

LEMMA AlikeSound ==
    ASSUME NEW s, NEW c, NEW r, NEW ls, NEW miss, NEW e, Sound(e, s, c, r, ls, miss), RefOK(e, ls),
           NEW f \in Managers, Alike(e, f), SplitOK(f)
    PROVE  Sound(f, s, c, r, ls, miss) /\ RefOK(f, ls)
<1>1. /\ InHand(f) = InHand(e) /\ (Chasing(f) <=> Chasing(e)) /\ Allowed(f, ls) = Allowed(e, ls)
  BY DEF Alike, InHand, Chasing, Allowed, SameChase, SameGround
<1>2. GroundOK(f, s, c) /\ ToldOK(f, ls) BY DEF Alike, Sound, GroundOK, ToldOK, SameGround
<1>3. ChaseOK(f, s, c, r) BY <1>1 DEF Alike, Sound, ChaseOK, SameChase
<1>4. FollowOK(f)
  <2>1. f.session = e.session /\ f.base = e.base BY DEF Alike, SameGround, SameChase
  <2> QED BY <1>1, <2>1 DEF Alike, Sound, FollowOK
<1>5. NumberOK(f, ls, miss)
  <2>1. f.session = e.session /\ f.chase = e.chase BY DEF Alike, SameGround, SameChase
  <2> QED BY <1>1, <2>1 DEF Alike, Sound, NumberOK
<1>6. ToComeOK(f, ls) /\ RefOK(f, ls) BY <1>1 DEF Alike, Sound, ToComeOK, RefOK
<1> QED BY <1>2, <1>3, <1>4, <1>5, <1>6 DEF Sound

Moved(k, at, then) == [k EXCEPT !.at = at, !.then = then]

\* The lap to come becomes the reference; what is made from it is awaited.
LEMMA RefreshSound ==
    ASSUME NEW s, NEW c, NEW r, NEW ls, NEW miss, NEW e, Sound(e, s, c, r, ls, miss),
           e.pending = Nothing => RefOK(e, ls), NEW by, NEW then, Refresh(e, by, then)
    PROVE  /\ Sound(eng', s, c, r, ls, miss) /\ RefOK(eng', ls)
           /\ eng'.hist = e.hist /\ eng'.refLap = e.refLap
           /\ \/ \E at \in {"sectors", "corners"} : lock' = Moved(by, at, then)
              \/ /\ lock' = (IF then = "no" THEN Free ELSE Moved(by, then, "no"))
                 /\ CornersOK(eng') \/ (eng' = e /\ e.pending = Nothing)
<1> DEFINE u == Unsplit(e)
           g == [u EXCEPT !.ref = e.pending, !.pending = Nothing]
           rest == IF then = "no" THEN Free ELSE Moved(by, then, "no")
<1>1. e \in Managers BY DEF Sound, GroundOK
<1>2. CASE e.pending = Nothing
  <2>1. eng' = e /\ lock' = rest BY <1>2 DEF Refresh, Moved
  <2> QED BY <1>2, <2>1
<1>3. CASE e.pending # Nothing
  <2>1. /\ u \in Managers /\ SameGround(e, u) /\ SameChase(e, u) /\ SameReference(e, u)
        /\ u.hist = e.hist /\ u.chased = e.chased /\ u.refLap = e.refLap
        /\ u.pending = e.pending /\ u.splits = NoBase
    BY <1>1, Unsplits
  <2>2. \/ eng' = g /\ \E at \in {"sectors", "corners"} : lock' = Moved(by, at, then)
        \/ eng' = [g EXCEPT !.corners = Nothing] /\ lock' = rest
    BY <1>3 DEF Refresh, Moved
  <2>3. Nothing \in LapNames /\ e.pending \in LapNames BY <1>1, Names, ManagerTypes
  <2> HIDE DEF u
  <2>4. /\ g \in Managers /\ SameGround(u, g) /\ SameChase(u, g)
        /\ g.hist = u.hist /\ g.chased = u.chased /\ g.refLap = u.refLap
        /\ g.pending = Nothing /\ g.ref = e.pending /\ g.splits = u.splits
    BY <2>1, <2>3 DEF Managers, SameGround, SameChase
  <2> HIDE DEF g, rest
  <2>5. /\ SameGround(e, g) /\ SameChase(e, g)
        /\ g.hist = e.hist /\ g.chased = e.chased /\ g.refLap = e.refLap /\ g.splits = NoBase
    BY <2>1, <2>4 DEF SameGround, SameChase
  <2>6. InHand(g) = InHand(e) /\ InHand(e) = g.ref /\ (Chasing(g) <=> Chasing(e))
    BY <1>3, <2>4, <2>5 DEF InHand, Chasing, SameChase
  <2>7. Allowed(g, ls) = Allowed(e, ls)
    <3>1. g.session = e.session BY <2>5 DEF SameGround
    <3> QED BY <2>5, <3>1, AllowedSame
  <2>8. ToComeOK(g, ls) /\ RefOK(g, ls) BY <2>6, <2>7 DEF Sound, ToComeOK, RefOK
  <2>9. GroundOK(g, s, c) /\ ToldOK(g, ls) /\ SplitOK(g)
    BY <2>4, <2>5 DEF Sound, GroundOK, ToldOK, SplitOK, SameGround
  <2>10. ChaseOK(g, s, c, r)
    <3>1. ~(e.chase /\ ~e.confirmed) BY <1>3 DEF Sound, ChaseOK
    <3>2. /\ g.chase = e.chase /\ g.confirmed = e.confirmed /\ g.base = e.base
          /\ g.baseCar = e.baseCar /\ g.baseRoad = e.baseRoad /\ g.chased = e.chased
      BY <2>5 DEF SameChase
    <3> QED BY <2>6, <3>1, <3>2 DEF Sound, ChaseOK
  <2>11. FollowOK(g)
    <3>1. g.session = e.session /\ g.base = e.base BY <2>5 DEF SameGround, SameChase
    <3> QED BY <2>5, <2>6, <3>1 DEF Sound, FollowOK
  <2>12. NumberOK(g, ls, miss)
    <3>1. g.session = e.session /\ g.chase = e.chase BY <2>5 DEF SameGround, SameChase
    <3> QED BY <2>5, <2>6, <3>1 DEF Sound, NumberOK
  <2>13. Sound(g, s, c, r, ls, miss) BY <2>8, <2>9, <2>10, <2>11, <2>12 DEF Sound
  <2>14. CASE eng' = g /\ \E at \in {"sectors", "corners"} : lock' = Moved(by, at, then)
    BY <2>5, <2>8, <2>13, <2>14
  <2>15. CASE eng' = [g EXCEPT !.corners = Nothing] /\ lock' = rest
    <3>1. eng' \in Managers /\ Alike(g, eng') /\ eng'.splits = g.splits /\ eng'.corners = Nothing
      BY <2>3, <2>4, <2>15 DEF Managers, Alike, SameGround, SameChase
    <3>2. SplitOK(eng') BY <2>5, <3>1 DEF SplitOK
    <3>3. Sound(eng', s, c, r, ls, miss) /\ RefOK(eng', ls)
      BY <2>8, <2>13, <3>1, <3>2, AlikeSound
    <3>4. CornersOK(eng') BY <3>1 DEF CornersOK
    <3>5. eng'.hist = e.hist /\ eng'.refLap = e.refLap BY <2>5, <3>1 DEF Alike
    <3> QED BY <2>15, <3>3, <3>4, <3>5 DEF rest
  <2> QED BY <2>2, <2>14, <2>15
<1> QED BY <1>2, <1>3

-----------------------------------------------------------------------------
(* What holds of every state.                                              *)

Locks == [by : {"nobody", "lap", "ruling", "request"},
          at : {"no", "saving", "placing", "sectors", "corners"},
          then : {"no", "placing"}, changed : BOOLEAN]
DrivenLaps == [time : Nat, ruling : {"none", "in", "out"}]
Wanted == {BestOfSession} \cup {Stored(l) : l \in StoredLaps}
Tasks == {NoTask} \cup [on : {TRUE}, lap : {BestOfSession}, road : Roads \cup {Unknown}]
                 \cup {[on |-> TRUE, lap |-> Stored(l), road |-> StoredRoad[l]] : l \in StoredLaps}

\* A lap is complete that the manager has still to be told of.
Telling == lock.at \in {"saving", "placing"} \/ lock.then = "placing"
\* The manager was told of every verdict.
InStep == ~missed /\ ~(Telling /\ lock.changed)

EngineerTypes ==
    /\ road \in Roads /\ car \in Cars /\ laps \in Seq(DrivenLaps) /\ partial \subseteq DOMAIN laps
    /\ session \in Nat /\ sessions \in Nat /\ session <= sessions /\ (known => session # 0)
    /\ lock \in Locks /\ asked \in {Nothing} \cup Wanted /\ task \in Tasks
    /\ missed \in BOOLEAN /\ torn \in BOOLEAN /\ known \in BOOLEAN

LapToTell ==
    Telling => /\ session # 0 /\ laps # <<>>
               /\ \A i \in DOMAIN eng.hist : eng.hist[i].n # Len(laps)

EngineerSound ==
    /\ EngineerTypes /\ LapToTell
    /\ Sound(eng, session, car, road, laps, missed) /\ RefOK(eng, laps)
    /\ InStep => FlagsOK(eng, Excluded(laps, partial)) /\ eng.refLap \notin Excluded(laps, partial)
    /\ ~torn /\ lock.at \notin {"sectors", "corners"} => CornersOK(eng)

LEMMA LapsDriven ==
    ASSUME EngineerTypes
    PROVE  /\ DOMAIN laps = 1..Len(laps) /\ Len(laps) \in Nat /\ DOMAIN laps \subseteq Nat \ {0}
           /\ Excluded(laps, partial) \subseteq DOMAIN laps
           /\ \A n \in DOMAIN laps : laps[n] \in DrivenLaps /\ laps[n].time \in Nat
<1>1. laps \in Seq(DrivenLaps) BY DEF EngineerTypes
<1>2. DOMAIN laps = 1..Len(laps) /\ Len(laps) \in Nat BY <1>1
<1>3. \A n \in DOMAIN laps : laps[n] \in DrivenLaps BY <1>1, <1>2
<1>4. \A x \in DrivenLaps : x.time \in Nat BY DEF DrivenLaps
<1> QED BY <1>2, <1>3, <1>4 DEF Excluded

LEMMA FreeIs ==
    Free \in Locks /\ Free.at = "no" /\ Free.then = "no" /\ Free.by = "nobody" /\ ~Free.changed
BY DEF Free, Locks

LEMMA LockMoves ==
    ASSUME NEW k \in Locks, NEW at \in {"no", "saving", "placing", "sectors", "corners"},
           NEW then \in {"no", "placing"}, NEW m, m = Moved(k, at, then)
    PROVE  m \in Locks /\ m.at = at /\ m.then = then /\ m.changed = k.changed
BY DEF Locks, Moved

\* A step that leaves no lap to tell, with the manager in step.
LEMMA EngineerAtRest ==
    ASSUME EngineerTypes', ~Telling', Sound(eng, session, car, road, laps, missed)', RefOK(eng, laps)',
           (~missed => FlagsOK(eng, Excluded(laps, partial)) /\ eng.refLap \notin Excluded(laps, partial))',
           (~torn /\ lock.at \notin {"sectors", "corners"} => CornersOK(eng))'
    PROVE  EngineerSound'
BY DEF EngineerSound, LapToTell, InStep

LEMMA EngineerBegins == Init => EngineerSound
<1> SUFFICES ASSUME Init PROVE EngineerSound OBVIOUS
<1>1. /\ road \in Roads /\ car \in Cars /\ session = 0 /\ laps = <<>> /\ partial = {}
      /\ known = FALSE /\ lock = Free /\ asked = Nothing /\ task = NoTask
      /\ eng = NewManager /\ sessions = 0 /\ missed = FALSE /\ torn = FALSE
  BY DEF Init
<1>2. NewManager \in Managers
  <2>1. /\ <<>> \in Seq(Records) /\ Nothing \in LapNames /\ NoBase \in Bases BY Names
  <2> QED BY <2>1 DEF NewManager, Managers
<1>3. /\ eng \in Managers /\ ~eng.chase /\ eng.hist = <<>> /\ eng.session = 0 /\ eng.ref = Nothing
      /\ eng.refLap = 0 /\ eng.pending = Nothing /\ eng.base = NoBase /\ eng.chased = NoBase
      /\ ~eng.confirmed
  BY <1>1, <1>2 DEF NewManager
<1>4. ~Chasing(eng) /\ InHand(eng) = Nothing BY <1>3 DEF Chasing, InHand
<1>5. Sound(eng, session, car, road, laps, missed)
  BY <1>1, <1>3, <1>4
  DEF Sound, GroundOK, ToldOK, ChaseOK, FollowOK, NumberOK, ToComeOK, Allowed, SplitOK
<1>6. RefOK(eng, laps) /\ CornersOK(eng) BY <1>3 DEF RefOK, Allowed, CornersOK
<1>7. EngineerTypes
  <2>1. <<>> \in Seq(DrivenLaps) /\ {} \subseteq DOMAIN laps OBVIOUS
  <2>2. 0 \in Nat /\ 0 <= 0 OBVIOUS
  <2>3. task \in Tasks /\ asked \in {Nothing} \cup Wanted BY <1>1 DEF Tasks
  <2>4. lock \in Locks BY <1>1, FreeIs
  <2> QED BY <1>1, <2>1, <2>2, <2>3, <2>4 DEF EngineerTypes
<1>8. FlagsOK(eng, Excluded(laps, partial)) /\ eng.refLap \notin Excluded(laps, partial)
  BY <1>1, <1>3 DEF FlagsOK, Excluded
<1>9. ~Telling BY <1>1, FreeIs DEF Telling
<1> QED BY <1>5, <1>6, <1>7, <1>8, <1>9 DEF EngineerSound, LapToTell

LEMMA SessionStartsKept == EngineerSound /\ SessionStarts => EngineerSound'
<1> SUFFICES ASSUME EngineerSound, SessionStarts PROVE EngineerSound' OBVIOUS
<1>1. /\ lock = Free /\ road' \in Roads /\ car' \in Cars
      /\ sessions' = sessions + 1 /\ session' = sessions + 1
      /\ laps' = <<>> /\ partial' = {} /\ known' = FALSE /\ missed' = FALSE
      /\ eng' = OnSession(eng, session', car')
      /\ lock' = lock /\ asked' = asked /\ task' = task /\ torn' = torn
  BY DEF SessionStarts
<1>2. EngineerTypes BY DEF EngineerSound
<1>3. session' \in Nat /\ session < session' /\ sessions' \in Nat /\ session' <= sessions'
  BY <1>1, <1>2 DEF EngineerTypes
<1>4. EngineerTypes'
  <2>1. laps' \in Seq(DrivenLaps) /\ partial' \subseteq DOMAIN laps' BY <1>1
  <2>2. known' \in BOOLEAN /\ ~known' /\ missed' \in BOOLEAN BY <1>1
  <2> QED BY <1>1, <1>2, <1>3, <2>1, <2>2 DEF EngineerTypes
<1>5. /\ Sound(eng', session', car', road', laps', missed') /\ eng'.hist = <<>> /\ eng'.ref = Nothing
      /\ eng'.refLap = 0
  <2>1. Sound(eng, session, car, road, laps, missed) BY DEF EngineerSound
  <2>2. eng' = OnSession(eng, session', car') /\ car' \in Cars /\ laps' = <<>> BY <1>1
  <2>3. /\ eng'.hist = <<>> /\ eng'.ref = Nothing /\ eng'.refLap = 0
        /\ session < session' => Sound(eng', session', car', road', laps', missed')
    BY <1>3, <2>1, <2>2, OnSessionSound
  <2> QED BY <1>3, <2>3
<1>6. ~Telling' BY <1>1, FreeIs DEF Telling
<1>7. RefOK(eng', laps') /\ CornersOK(eng') BY <1>5 DEF RefOK, Allowed, CornersOK
<1>8. Excluded(laps', partial') = {} BY <1>1 DEF Excluded
<1>9. FlagsOK(eng', Excluded(laps', partial')) BY <1>5 DEF FlagsOK
<1> QED BY <1>1, <1>4, <1>5, <1>6, <1>7, <1>8, <1>9, EngineerAtRest

\* A longer session, or other rulings: what the manager knows stays right.
LEMMA LapsGrow ==
    ASSUME NEW s, NEW c, NEW r, NEW ls, NEW ms, NEW miss, NEW e, Sound(e, s, c, r, ls, miss),
           RefOK(e, ls), DOMAIN ls \subseteq DOMAIN ms, \A n \in DOMAIN ls : ms[n].time = ls[n].time
    PROVE  Sound(e, s, c, r, ms, miss) /\ RefOK(e, ms)
<1>1. Allowed(e, ls) \subseteq Allowed(e, ms) BY DEF Allowed
<1>2. ToldOK(e, ms) BY DEF Sound, ToldOK
<1>3. NumberOK(e, ms, miss) BY DEF Sound, NumberOK
<1> QED BY <1>1, <1>2, <1>3 DEF Sound, ToComeOK, RefOK

LEMMA LapCompletesKept == EngineerSound /\ LapCompletes => EngineerSound'
<1> SUFFICES ASSUME EngineerSound, LapCompletes PROVE EngineerSound' OBVIOUS
<1>1. PICK t \in Times : laps' = Append(laps, [time |-> t, ruling |-> "none"]) BY DEF LapCompletes
<1>2. /\ lock = Free /\ session # 0 /\ partial' \in SUBSET DOMAIN laps'
      /\ lock' = [by |-> "lap", at |-> "saving", then |-> "no", changed |-> partial' # partial]
      /\ UNCHANGED <<road, car, session, known, asked, task, eng, sessions, missed, torn>>
  BY DEF LapCompletes, service, counters
<1>3. EngineerTypes /\ Sound(eng, session, car, road, laps, missed) /\ RefOK(eng, laps)
  BY DEF EngineerSound
<1>4. [time |-> t, ruling |-> "none"] \in DrivenLaps BY SetsAssumption DEF DrivenLaps
<1>5. /\ laps' \in Seq(DrivenLaps) /\ Len(laps') = Len(laps) + 1
      /\ DOMAIN laps = 1..Len(laps) /\ DOMAIN laps' = 1..(Len(laps) + 1) /\ Len(laps) \in Nat
      /\ \A n \in DOMAIN laps : laps'[n] = laps[n]
      /\ laps'[Len(laps) + 1].ruling = "none"
  <2>1. laps \in Seq(DrivenLaps) BY <1>3 DEF EngineerTypes
  <2>2. Len(laps) \in Nat /\ DOMAIN laps = 1..Len(laps) BY <2>1
  <2>3. laps'[Len(laps) + 1] = [time |-> t, ruling |-> "none"] BY <1>1, <2>1, <2>2
  <2> QED BY <1>1, <1>4, <2>1, <2>2, <2>3
<1>6. EngineerTypes'
  <2>1. lock' \in Locks BY <1>2 DEF Locks
  <2> QED BY <1>2, <1>3, <1>5, <2>1 DEF EngineerTypes
<1>7. Sound(eng', session', car', road', laps', missed') /\ RefOK(eng', laps')
  <2>1. DOMAIN laps \subseteq DOMAIN laps' BY <1>5
  <2>2. Sound(eng, session, car, road, laps', missed) /\ RefOK(eng, laps')
    BY <1>3, <1>5, <2>1, LapsGrow
  <2> QED BY <1>2, <2>2
<1>8. LapToTell'
  <2>1. ASSUME NEW i \in DOMAIN eng.hist PROVE eng.hist[i].n # Len(laps')
    <3>1. eng.hist[i].n \in DOMAIN laps BY <1>3 DEF Sound, ToldOK
    <3>2. Len(laps) + 1 \notin DOMAIN laps BY <1>5
    <3> QED BY <1>5, <3>1, <3>2
  <2>2. laps' # <<>> BY <1>5
  <2> QED BY <1>2, <2>1, <2>2 DEF LapToTell
<1>9. ASSUME InStep'
      PROVE  FlagsOK(eng, Excluded(laps, partial))' /\ (eng.refLap \notin Excluded(laps, partial))'
  <2>1. Telling' BY <1>2 DEF Telling
  <2>2. partial' = partial /\ ~missed BY <1>2, <1>9, <2>1 DEF InStep
  <2>3. Excluded(laps', partial) = Excluded(laps, partial)
    <3>1. partial \subseteq DOMAIN laps BY <1>3 DEF EngineerTypes
    <3>2. Len(laps) + 1 \notin DOMAIN laps BY <1>5
    <3>3. DOMAIN laps' = DOMAIN laps \cup {Len(laps) + 1} BY <1>5
    <3>4. ASSUME NEW n \in DOMAIN laps'
          PROVE  n \in Excluded(laps', partial) <=> n \in Excluded(laps, partial)
      <4>1. CASE n \in DOMAIN laps BY <1>5, <3>3, <4>1 DEF Excluded
      <4>2. CASE n = Len(laps) + 1 BY <1>5, <3>1, <3>2, <4>2 DEF Excluded
      <4> QED BY <3>3, <4>1, <4>2
    <3>5. Excluded(laps', partial) \subseteq DOMAIN laps' /\ Excluded(laps, partial) \subseteq DOMAIN laps
      BY DEF Excluded
    <3> QED BY <3>3, <3>4, <3>5
  <2>4. InStep BY <1>2, <2>2, FreeIs DEF InStep, Telling
  <2> QED BY <1>2, <2>2, <2>3, <2>4 DEF EngineerSound
<1>10. ~torn => CornersOK(eng) BY <1>2, FreeIs DEF EngineerSound
<1> QED BY <1>2, <1>6, <1>7, <1>8, <1>9, <1>10 DEF EngineerSound

LEMMA MissedMore ==
    ASSUME NEW s, NEW c, NEW r, NEW ls, NEW miss, NEW more, miss => more,
           NEW e, Sound(e, s, c, r, ls, miss)
    PROVE  Sound(e, s, c, r, ls, more)
BY DEF Sound, NumberOK

LEMMA LapSavedKept == EngineerSound /\ LapSaved => EngineerSound'
<1> SUFFICES ASSUME EngineerSound, LapSaved PROVE EngineerSound' OBVIOUS
<1>1. /\ lock.at = "saving" /\ known' \in {known, TRUE}
      /\ UNCHANGED <<road, car, session, laps, partial, asked, task, sessions, torn>>
  BY DEF LapSaved, driving, counters
<1>2. EngineerTypes /\ Sound(eng, session, car, road, laps, missed) /\ RefOK(eng, laps)
  BY DEF EngineerSound
<1>3. Telling /\ session # 0 /\ laps # <<>> /\ \A i \in DOMAIN eng.hist : eng.hist[i].n # Len(laps)
  BY <1>1 DEF EngineerSound, LapToTell, Telling
<1>4. ASSUME lock' \in Locks, missed' \in BOOLEAN PROVE EngineerTypes'
  BY <1>1, <1>2, <1>3, <1>4 DEF EngineerTypes
<1>5. lock \in Locks /\ missed \in BOOLEAN /\ lock.changed \in BOOLEAN /\ DOMAIN laps \subseteq Nat \ {0}
  BY <1>2, LapsDriven DEF EngineerTypes, Locks
<1> DEFINE out == Excluded(laps, partial)
<1>6. out \subseteq DOMAIN laps BY DEF Excluded
<1>7. ~missed /\ ~lock.changed => FlagsOK(eng, out) /\ eng.refLap \notin out
  BY DEF EngineerSound, InStep
<1>8. ~torn => CornersOK(eng) BY <1>1 DEF EngineerSound
<1>9. out' = out BY <1>1 DEF Excluded
<1> HIDE DEF out
<1>10. CASE ~voice
  <2>1. lock' = Free /\ missed' = (missed \/ lock.changed) /\ eng' = eng BY <1>10 DEF LapSaved
  <2>2. EngineerTypes' BY <1>4, <1>5, <2>1, FreeIs
  <2>3. ~Telling' BY <2>1, FreeIs DEF Telling
  <2>4. Sound(eng, session, car, road, laps, missed')
    <3>1. missed => missed' BY <2>1
    <3> QED BY <1>2, <3>1, MissedMore
  <2>5. Sound(eng, session, car, road, laps, missed)' BY <1>1, <2>1, <2>4
  <2>6. RefOK(eng, laps)' BY <1>1, <1>2, <2>1
  <2>7. ~missed' => ~missed /\ ~lock.changed BY <2>1
  <2>8. (~missed => FlagsOK(eng, Excluded(laps, partial)) /\ eng.refLap \notin Excluded(laps, partial))'
    BY <1>7, <1>9, <2>1, <2>7 DEF out
  <2>9. (~torn => CornersOK(eng))' BY <1>1, <1>8, <2>1
  <2> QED BY <2>2, <2>3, <2>5, <2>6, <2>8, <2>9, EngineerAtRest
<1>11. CASE voice
  <2> DEFINE name == IF known' THEN road ELSE Unknown
             f == OnTrack(eng, name)
  <2>1. /\ missed' = missed
        /\ Refresh(f, lock, "placing") \/ (eng' = f /\ lock' = [lock EXCEPT !.at = "placing"])
    BY <1>11 DEF LapSaved
  <2>2. name \in {Unknown, road} /\ road \in Roads BY <1>2 DEF EngineerTypes
  <2> HIDE DEF name
  <2>3. /\ Sound(f, session, car, road, laps, missed) /\ RefOK(f, laps) /\ f.hist = eng.hist
        /\ CornersOK(eng) => CornersOK(f)
        /\ FlagsOK(eng, out) /\ eng.refLap \notin out => f.refLap \notin out
    <3>1. f = OnTrack(eng, name) OBVIOUS
    <3> HIDE DEF f
    <3> QED BY <1>2, <1>5, <1>6, <2>2, <3>1, OnTrackSound
  <2> HIDE DEF f
  <2>4. /\ Sound(eng', session, car, road, laps, missed) /\ RefOK(eng', laps)
        /\ eng'.hist = f.hist /\ eng'.refLap = f.refLap
        /\ lock' \in Locks /\ lock'.changed = lock.changed
        /\ lock'.at = "placing" \/ lock'.then = "placing"
        /\ lock'.at \notin {"sectors", "corners"} => eng' = f \/ CornersOK(eng')
    <3>1. CASE eng' = f /\ lock' = [lock EXCEPT !.at = "placing"]
      <4>1. lock' \in Locks /\ lock'.at = "placing" /\ lock'.changed = lock.changed
        BY <1>5, <3>1 DEF Locks
      <4> QED BY <2>3, <3>1, <4>1
    <3>2. CASE Refresh(f, lock, "placing")
      <4>1. /\ Sound(eng', session, car, road, laps, missed) /\ RefOK(eng', laps)
            /\ eng'.hist = f.hist /\ eng'.refLap = f.refLap
            /\ \/ \E at \in {"sectors", "corners"} : lock' = Moved(lock, at, "placing")
               \/ /\ lock' = Moved(lock, "placing", "no")
                  /\ CornersOK(eng') \/ (eng' = f /\ f.pending = Nothing)
        <5>1. f.pending = Nothing => RefOK(f, laps) BY <2>3
        <5>2. /\ Sound(eng', session, car, road, laps, missed) /\ RefOK(eng', laps)
              /\ eng'.hist = f.hist /\ eng'.refLap = f.refLap
              /\ \/ \E at \in {"sectors", "corners"} : lock' = Moved(lock, at, "placing")
                 \/ /\ lock' = (IF "placing" = "no" THEN Free ELSE Moved(lock, "placing", "no"))
                    /\ CornersOK(eng') \/ (eng' = f /\ f.pending = Nothing)
          BY <2>3, <3>2, <5>1, RefreshSound
        <5> QED BY <5>2
      <4>2. CASE lock' = Moved(lock, "placing", "no")
        <5>1. lock' \in Locks /\ lock'.at = "placing" /\ lock'.changed = lock.changed
          BY <1>5, <4>2, LockMoves
        <5>2. CornersOK(eng') \/ eng' = f
          <6>1. \A at \in {"sectors", "corners"} : Moved(lock, at, "placing").at = at
            BY <1>5 DEF Locks, Moved
          <6> QED BY <4>1, <5>1, <6>1
        <5> QED BY <4>1, <5>1, <5>2
      <4>3. ASSUME NEW at \in {"sectors", "corners"}, lock' = Moved(lock, at, "placing")
            PROVE  <2>4!:
        <5>1. /\ lock' \in Locks /\ lock'.at = at /\ lock'.then = "placing"
              /\ lock'.changed = lock.changed
          BY <1>5, <4>3, LockMoves
        <5> QED BY <4>1, <5>1
      <4> QED BY <4>1, <4>2, <4>3
    <3> QED BY <2>1, <3>1, <3>2
  <2>5. EngineerTypes' BY <1>4, <1>5, <2>1, <2>4
  <2>6. Telling' BY <2>4 DEF Telling
  <2>7. LapToTell' BY <1>1, <1>3, <2>3, <2>4 DEF LapToTell
  <2>8. (Sound(eng, session, car, road, laps, missed) /\ RefOK(eng, laps))' BY <1>1, <2>1, <2>4
  <2>9. (InStep => FlagsOK(eng, Excluded(laps, partial)) /\ eng.refLap \notin Excluded(laps, partial))'
    <3>1. ASSUME InStep' PROVE FlagsOK(eng', out) /\ eng'.refLap \notin out
      <4>1. ~missed /\ ~lock.changed BY <2>1, <2>4, <2>6, <3>1 DEF InStep
      <4>2. FlagsOK(eng', out) BY <1>7, <2>3, <2>4, <4>1 DEF FlagsOK
      <4> QED BY <1>7, <2>3, <2>4, <4>1, <4>2
    <3> QED BY <1>9, <3>1 DEF out
  <2>10. (~torn /\ lock.at \notin {"sectors", "corners"} => CornersOK(eng))'
    BY <1>1, <1>8, <2>3, <2>4
  <2> QED BY <2>5, <2>7, <2>8, <2>9, <2>10 DEF EngineerSound
<1> QED BY <1>10, <1>11

LEMMA LapPlacedKept == EngineerSound /\ LapPlaced => EngineerSound'
<1> SUFFICES ASSUME EngineerSound, LapPlaced PROVE EngineerSound' OBVIOUS
<1> DEFINE n == Len(laps)
           out == Excluded(laps, partial)
           before == {laps[m].time : m \in (DOMAIN laps \ {n}) \ out}
           limit == IF before = {} THEN 0 ELSE Min(before)
           f == OnLap(eng, n, laps[n].time, out, lock.changed, limit)
<1>1. /\ lock.at = "placing" /\ Refresh(f, lock, "no") /\ missed' = (missed \/ StillToCome(f, out))
      /\ UNCHANGED <<road, car, session, laps, partial, known, asked, task, sessions, torn>>
  BY DEF LapPlaced, driving, service, counters
<1>2. EngineerTypes /\ Sound(eng, session, car, road, laps, missed) /\ RefOK(eng, laps)
  BY DEF EngineerSound
<1>3. Telling /\ session # 0 /\ laps # <<>> /\ \A i \in DOMAIN eng.hist : eng.hist[i].n # n
  BY <1>1 DEF EngineerSound, LapToTell, Telling
<1>4. /\ DOMAIN laps \subseteq Nat \ {0} /\ out \subseteq DOMAIN laps /\ n \in DOMAIN laps
      /\ laps[n].time \in Nat
  <2>1. laps \in Seq(DrivenLaps) BY <1>2 DEF EngineerTypes
  <2>2. n \in DOMAIN laps BY <1>3, <2>1
  <2> QED BY <1>2, <2>2, LapsDriven
<1>5. lock \in Locks /\ missed \in BOOLEAN /\ lock.changed \in BOOLEAN
  BY <1>2 DEF EngineerTypes, Locks
<1>6. ~missed /\ ~lock.changed => FlagsOK(eng, out) /\ eng.refLap \notin out
  BY DEF EngineerSound, InStep
<1>7. ~torn => CornersOK(eng) BY <1>1 DEF EngineerSound
<1>8. out' = out BY <1>1 DEF Excluded
<1>9. f = OnLap(eng, n, laps[n].time, out, lock.changed, limit) OBVIOUS
<1> HIDE DEF n, out, before, limit, f
<1>10. /\ Sound(f, session, car, road, laps, missed') /\ RefOK(f, laps)
       /\ CornersOK(eng) => CornersOK(f)
       /\ Follows(eng, f, out, lock.changed)
  <2>1. missed \/ StillToCome(f, out) => missed' BY <1>1
  <2>2. ToTell(eng, session, car, road, laps, out, n, laps[n].time, missed)
    BY <1>2, <1>3, <1>4 DEF ToTell
  <2> QED BY <1>9, <2>1, <2>2, OnLapSound
<1>12. /\ Sound(eng', session, car, road, laps, missed') /\ RefOK(eng', laps)
       /\ eng'.hist = f.hist /\ eng'.refLap = f.refLap
       /\ \/ \E at \in {"sectors", "corners"} : lock' = Moved(lock, at, "no")
          \/ /\ lock' = (IF "no" = "no" THEN Free ELSE Moved(lock, "no", "no"))
             /\ CornersOK(eng') \/ (eng' = f /\ f.pending = Nothing)
  <2>1. f.pending = Nothing => RefOK(f, laps) BY <1>10
  <2> QED BY <1>1, <1>10, <2>1, RefreshSound
<1>13. /\ lock' \in Locks /\ lock'.at \notin {"saving", "placing"} /\ lock'.then # "placing"
       /\ lock'.at \notin {"sectors", "corners"} => CornersOK(eng') \/ eng' = f
  <2>1. CASE lock' = Free /\ (CornersOK(eng') \/ eng' = f) BY <2>1, FreeIs
  <2>2. ASSUME NEW at \in {"sectors", "corners"}, lock' = Moved(lock, at, "no")
        PROVE  <1>13!:
    BY <1>5, <2>2, LockMoves
  <2> QED BY <1>12, <2>1, <2>2
<1>14. missed' \in BOOLEAN BY <1>1, <1>5
<1>15. EngineerTypes' BY <1>1, <1>2, <1>13, <1>14 DEF EngineerTypes
<1>16. ~Telling' BY <1>13 DEF Telling
<1>17. Sound(eng, session, car, road, laps, missed)' /\ RefOK(eng, laps)' BY <1>1, <1>12
<1>18. ASSUME ~missed' PROVE FlagsOK(eng', out) /\ eng'.refLap \notin out
  <2>1. ~missed BY <1>1, <1>18
  <2>2. FlagsOK(f, out) /\ f.refLap \notin out BY <1>5, <1>6, <1>10, <2>1 DEF Follows
  <2> QED BY <1>12, <2>2 DEF FlagsOK
<1>19. (~missed => FlagsOK(eng, Excluded(laps, partial)) /\ eng.refLap \notin Excluded(laps, partial))'
  BY <1>8, <1>18 DEF out
<1>20. (~torn /\ lock.at \notin {"sectors", "corners"} => CornersOK(eng))'
  BY <1>1, <1>7, <1>10, <1>13
<1> QED BY <1>15, <1>16, <1>17, <1>19, <1>20, EngineerAtRest

\* Steps that leave the manager as it is, but for what is made from the reference.
LEMMA EngineerDressed ==
    ASSUME EngineerSound, UNCHANGED <<road, car, session, laps, partial, sessions, missed>>,
           known' \in BOOLEAN, known' => session # 0, asked' \in {Nothing} \cup Wanted, task' \in Tasks,
           torn' \in BOOLEAN, lock' \in Locks, eng' \in Managers, Alike(eng, eng'), SplitOK(eng'),
           Telling' <=> Telling, Telling => lock'.changed = lock.changed,
           ~torn' /\ lock'.at \notin {"sectors", "corners"} => CornersOK(eng')
    PROVE  EngineerSound'
<1>1. EngineerTypes' BY DEF EngineerSound, EngineerTypes
<1>2. eng'.hist = eng.hist /\ eng'.refLap = eng.refLap BY DEF Alike
<1>3. LapToTell' BY <1>2 DEF EngineerSound, LapToTell
<1>4. Sound(eng, session, car, road, laps, missed)' /\ RefOK(eng, laps)'
  <2>1. Sound(eng, session, car, road, laps, missed) /\ RefOK(eng, laps) BY DEF EngineerSound
  <2>2. Sound(eng', session, car, road, laps, missed) /\ RefOK(eng', laps) BY <2>1, AlikeSound
  <2> QED BY <2>2
<1>5. InStep' => InStep BY DEF InStep
<1>6. Excluded(laps, partial)' = Excluded(laps, partial) BY DEF Excluded
<1>7. FlagsOK(eng, Excluded(laps, partial)) => FlagsOK(eng', Excluded(laps, partial))
  BY <1>2 DEF FlagsOK
<1>8. (InStep => FlagsOK(eng, Excluded(laps, partial)) /\ eng.refLap \notin Excluded(laps, partial))'
  BY <1>2, <1>5, <1>6, <1>7 DEF EngineerSound
<1> QED BY <1>1, <1>3, <1>4, <1>8 DEF EngineerSound

LEMMA AlikeItself == ASSUME EngineerSound PROVE eng \in Managers /\ Alike(eng, eng) /\ SplitOK(eng)
BY DEF EngineerSound, Sound, GroundOK, Alike, SameGround, SameChase

LEMMA AfterIs ==
    ASSUME lock \in Locks, NEW k, k = After
    PROVE  /\ k \in Locks /\ k.then = "no" /\ k.at \in {"no", "placing"}
           /\ k.at = "placing" <=> lock.then = "placing"
           /\ lock.then = "placing" => k.changed = lock.changed
<1>1. lock.then \in {"no", "placing"} BY DEF Locks
<1>2. CASE lock.then = "no" BY <1>2, FreeIs DEF After
<1>3. CASE lock.then = "placing"
  <2>1. k = Moved(lock, "placing", "no") BY <1>3 DEF After, Moved
  <2> QED BY <1>3, <2>1, LockMoves
<1> QED BY <1>1, <1>2, <1>3

LEMMA SectorsReadyKept == EngineerSound /\ SectorsReady => EngineerSound'
<1> SUFFICES ASSUME EngineerSound, SectorsReady PROVE EngineerSound' OBVIOUS
<1>1. PICK timed \in BOOLEAN :
        LET took == SplitTime(eng, eng.ref)
            dressed == [eng EXCEPT !.splits = IF timed /\ took > 0 THEN [lap |-> eng.ref, time |-> took] ELSE @]
        IN IF coaching THEN eng' = dressed /\ lock' = [lock EXCEPT !.at = "corners"]
           ELSE eng' = [dressed EXCEPT !.corners = Nothing] /\ lock' = After
  BY DEF SectorsReady
<1>2. /\ lock.at = "sectors"
      /\ UNCHANGED <<road, car, session, laps, partial, known, asked, task, sessions, missed, torn>>
  BY DEF SectorsReady, driving, service, counters
<1>3. EngineerTypes /\ eng \in Managers /\ Alike(eng, eng) /\ SplitOK(eng)
  BY AlikeItself DEF EngineerSound
<1>4. lock \in Locks BY <1>3 DEF EngineerTypes
<1> DEFINE took == SplitTime(eng, eng.ref)
           made == IF timed /\ took > 0 THEN [lap |-> eng.ref, time |-> took] ELSE eng.splits
           f == [eng EXCEPT !.splits = made]
<1>5. took \in Nat
  <2>1. eng.chased.time \in Nat BY <1>3, ManagerTypes
  <2>2. \A i \in DOMAIN eng.hist : eng.hist[i].time \in Nat BY <1>3, ToldTypes
  <2> DEFINE mine == {i \in DOMAIN eng.hist : eng.hist[i].n = eng.refLap /\ Samples(eng, eng.hist[i]) = eng.ref
                                              /\ eng.hist[i].counts}
  <2>3. took = IF eng.chase THEN IF eng.ref = eng.chased.lap THEN eng.chased.time ELSE 0
               ELSE IF mine = {} THEN 0 ELSE eng.hist[CHOOSE i \in mine : TRUE].time
    BY DEF SplitTime
  <2>4. mine # {} => (CHOOSE i \in mine : TRUE) \in DOMAIN eng.hist OBVIOUS
  <2> HIDE DEF took, mine
  <2> QED BY <2>1, <2>2, <2>3, <2>4
<1> HIDE DEF took
<1>6. made \in Bases /\ (made # NoBase /\ eng.ref # Nothing => made.lap = eng.ref)
  <2>1. eng.ref \in LapNames /\ eng.splits \in Bases BY <1>3 DEF Managers
  <2> QED BY <1>3, <1>5, <2>1 DEF Bases, SplitOK
<1>7. \/ coaching /\ eng' = f /\ lock' = [lock EXCEPT !.at = "corners"]
      \/ eng' = [f EXCEPT !.corners = Nothing] /\ lock' = After
  BY <1>1 DEF took
<1> HIDE DEF made
<1>8. f \in Managers /\ Alike(eng, f) /\ f.splits = made
  BY <1>3, <1>6 DEF Managers, Alike, SameGround, SameChase
<1>9. SplitOK(f) BY <1>6, <1>8 DEF SplitOK, Alike
<1> HIDE DEF f
<1>10. CASE coaching /\ eng' = f /\ lock' = [lock EXCEPT !.at = "corners"]
  <2>1. lock' \in Locks /\ lock'.at = "corners" /\ lock'.then = lock.then /\ lock'.changed = lock.changed
    BY <1>4, <1>10 DEF Locks
  <2>2. Telling' <=> Telling BY <1>2, <2>1 DEF Telling
  <2> QED BY <1>2, <1>3, <1>8, <1>9, <1>10, <2>1, <2>2, EngineerDressed DEF EngineerTypes
<1>11. CASE eng' = [f EXCEPT !.corners = Nothing] /\ lock' = After
  <2>1. eng' \in Managers /\ Alike(f, eng') /\ eng'.splits = f.splits /\ eng'.corners = Nothing
    BY <1>8, <1>11, Names DEF Managers, Alike, SameGround, SameChase
  <2>2. Alike(eng, eng') /\ SplitOK(eng') /\ CornersOK(eng')
    BY <1>8, <1>9, <2>1 DEF Alike, SameGround, SameChase, SplitOK, CornersOK
  <2>3. /\ lock' \in Locks /\ lock'.then = "no" /\ lock'.at \in {"no", "placing"}
        /\ lock'.at = "placing" <=> lock.then = "placing"
        /\ lock.then = "placing" => lock'.changed = lock.changed
    BY <1>4, <1>11, AfterIs
  <2>4. (Telling' <=> Telling) /\ (Telling => lock'.changed = lock.changed)
    BY <1>2, <2>3 DEF Telling
  <2> QED BY <1>2, <1>3, <2>1, <2>2, <2>3, <2>4, EngineerDressed DEF EngineerTypes
<1> QED BY <1>7, <1>10, <1>11

LEMMA CornersReadyKept == EngineerSound /\ CornersReady => EngineerSound'
<1> SUFFICES ASSUME EngineerSound, CornersReady PROVE EngineerSound' OBVIOUS
<1>1. PICK found \in BOOLEAN : eng' = [eng EXCEPT !.corners = IF found THEN eng.ref ELSE Nothing]
  BY DEF CornersReady
<1>2. /\ lock.at = "corners" /\ lock' = After /\ torn' = FALSE
      /\ UNCHANGED <<road, car, session, laps, partial, known, asked, task, sessions, missed>>
  BY DEF CornersReady, driving, service, counters
<1>3. EngineerTypes /\ eng \in Managers /\ SplitOK(eng) BY AlikeItself DEF EngineerSound
<1>4. eng.ref \in LapNames /\ Nothing \in LapNames BY <1>3, ManagerTypes, Names
<1> DEFINE made == IF found THEN eng.ref ELSE Nothing
<1>5. made \in {Nothing, eng.ref} /\ made \in LapNames BY <1>4
<1>6. eng' = [eng EXCEPT !.corners = made] BY <1>1
<1> HIDE DEF made
<1>7. /\ eng' \in Managers /\ Alike(eng, eng') /\ eng'.splits = eng.splits /\ eng'.corners = made
  BY <1>3, <1>5, <1>6 DEF Managers, Alike, SameGround, SameChase
<1>8. SplitOK(eng') /\ CornersOK(eng') BY <1>3, <1>5, <1>7 DEF Alike, SplitOK, CornersOK
<1>9. /\ lock' \in Locks /\ lock'.then = "no" /\ lock'.at \in {"no", "placing"}
      /\ lock'.at = "placing" <=> lock.then = "placing"
      /\ lock.then = "placing" => lock'.changed = lock.changed
  BY <1>2, <1>3, AfterIs DEF EngineerTypes
<1>10. (Telling' <=> Telling) /\ (Telling => lock'.changed = lock.changed)
  BY <1>2, <1>9 DEF Telling
<1> QED BY <1>2, <1>3, <1>7, <1>8, <1>9, <1>10, EngineerDressed DEF EngineerTypes

LEMMA AskKept == EngineerSound /\ Ask => EngineerSound'
<1> SUFFICES ASSUME EngineerSound, Ask PROVE EngineerSound' OBVIOUS
<1>1. /\ asked' \in Wanted
      /\ UNCHANGED <<road, car, session, laps, partial, known, task, sessions, missed, torn, lock, eng>>
  BY DEF Ask, Wanted, driving
<1>2. EngineerTypes BY DEF EngineerSound
<1>3. (Telling' <=> Telling) /\ lock'.changed = lock.changed BY <1>1 DEF Telling
<1>4. ~torn' /\ lock'.at \notin {"sectors", "corners"} => CornersOK(eng') BY <1>1 DEF EngineerSound
<1> QED BY <1>1, <1>2, <1>3, <1>4, AlikeItself, EngineerDressed DEF EngineerTypes

LEMMA TaskTakesKept == EngineerSound /\ TaskTakes => EngineerSound'
<1> SUFFICES ASSUME EngineerSound, TaskTakes PROVE EngineerSound' OBVIOUS
<1>1. /\ asked # Nothing /\ asked' = Nothing
      /\ IF asked = BestOfSession \/ StoredRoad[asked[2]] = TrackName
         THEN task' = [on |-> TRUE, lap |-> asked, road |-> TrackName]
         ELSE UNCHANGED task
      /\ UNCHANGED <<road, car, session, laps, partial, known, sessions, missed, torn, lock, eng>>
  BY DEF TaskTakes, driving, counters
<1>2. EngineerTypes BY DEF EngineerSound
<1>3. task' \in Tasks
  <2>1. CASE UNCHANGED task BY <1>2, <2>1 DEF EngineerTypes
  <2>2. CASE asked = BestOfSession /\ task' = [on |-> TRUE, lap |-> asked, road |-> TrackName]
    <3>1. TrackName \in Roads \cup {Unknown} BY <1>2 DEF EngineerTypes, TrackName
    <3> QED BY <2>2, <3>1 DEF Tasks
  <2>3. ASSUME NEW l \in StoredLaps, asked = Stored(l), StoredRoad[asked[2]] = TrackName,
               task' = [on |-> TRUE, lap |-> asked, road |-> TrackName]
        PROVE  task' \in Tasks
    <3>1. asked[2] = l BY <2>3 DEF Stored
    <3> QED BY <2>3, <3>1 DEF Tasks
  <2>4. asked = BestOfSession \/ \E l \in StoredLaps : asked = Stored(l)
    BY <1>1, <1>2 DEF EngineerTypes, Wanted
  <2> QED BY <1>1, <2>1, <2>2, <2>3, <2>4
<1>4. (Telling' <=> Telling) /\ lock'.changed = lock.changed BY <1>1 DEF Telling
<1>5. ~torn' /\ lock'.at \notin {"sectors", "corners"} => CornersOK(eng') BY <1>1 DEF EngineerSound
<1> QED BY <1>1, <1>2, <1>3, <1>4, <1>5, AlikeItself, EngineerDressed DEF EngineerTypes

LEMMA CircuitNamedKept == EngineerSound /\ CircuitNamed => EngineerSound'
<1> SUFFICES ASSUME EngineerSound, CircuitNamed PROVE EngineerSound' OBVIOUS
<1>1. /\ session # 0 /\ known' = TRUE
      /\ UNCHANGED <<road, car, session, laps, partial, asked, task, sessions, missed, torn, lock, eng>>
  BY DEF CircuitNamed, driving, counters
<1>2. EngineerTypes BY DEF EngineerSound
<1>3. (Telling' <=> Telling) /\ lock'.changed = lock.changed BY <1>1 DEF Telling
<1>4. ~torn' /\ lock'.at \notin {"sectors", "corners"} => CornersOK(eng') BY <1>1 DEF EngineerSound
<1> QED BY <1>1, <1>2, <1>3, <1>4, AlikeItself, EngineerDressed DEF EngineerTypes

LEMMA ToggleKept == EngineerSound /\ Toggle => EngineerSound'
<1> SUFFICES ASSUME EngineerSound, Toggle PROVE EngineerSound' OBVIOUS
<1>1. UNCHANGED <<road, car, session, laps, partial, known, asked, task, sessions, missed, torn, lock, eng>>
  BY DEF Toggle, driving
<1>2. EngineerTypes BY DEF EngineerSound
<1>3. (Telling' <=> Telling) /\ lock'.changed = lock.changed BY <1>1 DEF Telling
<1>4. ~torn' /\ lock'.at \notin {"sectors", "corners"} => CornersOK(eng') BY <1>1 DEF EngineerSound
<1> QED BY <1>1, <1>2, <1>3, <1>4, AlikeItself, EngineerDressed DEF EngineerTypes

LEMMA CutOffKept == EngineerSound /\ CutOff => EngineerSound'
<1> SUFFICES ASSUME EngineerSound, CutOff PROVE EngineerSound' OBVIOUS
<1>1. UNCHANGED <<road, car, session, laps, partial, known, asked, sessions, eng>>
  BY DEF CutOff, driving
<1>2. EngineerTypes /\ Sound(eng, session, car, road, laps, missed) /\ RefOK(eng, laps)
  BY DEF EngineerSound
<1>3. CASE task' = NoTask /\ UNCHANGED <<lock, missed, torn>>
  <2>1. (Telling' <=> Telling) /\ lock'.changed = lock.changed BY <1>3 DEF Telling
  <2>2. ~torn' /\ lock'.at \notin {"sectors", "corners"} => CornersOK(eng')
    BY <1>1, <1>3 DEF EngineerSound
  <2>3. task' \in Tasks BY <1>3 DEF Tasks
  <2> QED BY <1>1, <1>2, <1>3, <2>1, <2>2, <2>3, AlikeItself, EngineerDressed DEF EngineerTypes
<1>4. CASE /\ lock' = Free /\ task' = task
           /\ missed' = (missed \/ (lock.changed /\ (lock.at \in {"saving", "placing"} \/ lock.then = "placing")))
           /\ torn' = (torn \/ lock.at \in {"sectors", "corners"})
  <2>1. lock.changed \in BOOLEAN /\ missed \in BOOLEAN /\ torn \in BOOLEAN
    BY <1>2 DEF EngineerTypes, Locks
  <2>2. missed' \in BOOLEAN /\ torn' \in BOOLEAN /\ (missed => missed') BY <1>4, <2>1
  <2>3. EngineerTypes' BY <1>1, <1>2, <1>4, <2>2, FreeIs DEF EngineerTypes
  <2>4. ~Telling' BY <1>4, FreeIs DEF Telling
  <2>5. Sound(eng, session, car, road, laps, missed)' /\ RefOK(eng, laps)'
    <3>1. Sound(eng, session, car, road, laps, missed') BY <1>2, <2>2, MissedMore
    <3> QED BY <1>1, <1>2, <3>1
  <2>6. ~missed' => InStep BY <1>4 DEF InStep, Telling
  <2>7. Excluded(laps, partial)' = Excluded(laps, partial) BY <1>1 DEF Excluded
  <2>8. (~missed => FlagsOK(eng, Excluded(laps, partial)) /\ eng.refLap \notin Excluded(laps, partial))'
    BY <1>1, <2>6, <2>7 DEF EngineerSound
  <2>9. (~torn /\ lock.at \notin {"sectors", "corners"} => CornersOK(eng))'
    BY <1>1, <1>4 DEF EngineerSound
  <2> QED BY <2>3, <2>4, <2>5, <2>8, <2>9, EngineerAtRest
<1> QED BY <1>3, <1>4 DEF CutOff

\* With the lock free, the manager takes f up, and what is made from it is awaited.
LEMMA TakenUp ==
    ASSUME EngineerSound, lock = Free, NEW ls, NEW miss, NEW s, NEW f, Sound(f, s, car, road, ls, miss),
           f.pending = Nothing => RefOK(f, ls),
           ~torn /\ f.pending = Nothing => CornersOK(f),
           NEW name \in {"request", "ruling"}, NEW by, by = [Free EXCEPT !.by = name],
           Refresh(f, by, "no")
    PROVE  /\ Sound(eng', s, car, road, ls, miss) /\ RefOK(eng', ls)
           /\ eng'.hist = f.hist /\ eng'.refLap = f.refLap
           /\ lock' \in Locks /\ ~Telling'
           /\ ~torn /\ lock'.at \notin {"sectors", "corners"} => CornersOK(eng')
<1>1. by \in Locks BY FreeIs DEF Locks, Free
<1>2. /\ Sound(eng', s, car, road, ls, miss) /\ RefOK(eng', ls)
      /\ eng'.hist = f.hist /\ eng'.refLap = f.refLap
      /\ \/ \E at \in {"sectors", "corners"} : lock' = Moved(by, at, "no")
         \/ /\ lock' = (IF "no" = "no" THEN Free ELSE Moved(by, "no", "no"))
            /\ CornersOK(eng') \/ (eng' = f /\ f.pending = Nothing)
  BY RefreshSound
<1>3. CASE lock' = Free /\ (CornersOK(eng') \/ (eng' = f /\ f.pending = Nothing))
  <2>1. lock' \in Locks /\ ~Telling' BY <1>3, FreeIs DEF Telling
  <2> QED BY <1>2, <1>3, <2>1
<1>4. ASSUME NEW at \in {"sectors", "corners"}, lock' = Moved(by, at, "no")
      PROVE  lock' \in Locks /\ ~Telling' /\ lock'.at \in {"sectors", "corners"}
  <2>1. lock' \in Locks /\ lock'.at = at /\ lock'.then = "no" BY <1>1, <1>4, LockMoves
  <2> QED BY <2>1 DEF Telling
<1> QED BY <1>2, <1>3, <1>4

LEMMA TaskAppliesKept == EngineerSound /\ TaskApplies => EngineerSound'
<1> SUFFICES ASSUME EngineerSound, TaskApplies PROVE EngineerSound' OBVIOUS
<1>1. /\ task.on /\ lock = Free /\ task' = NoTask
      /\ UNCHANGED <<road, car, session, laps, partial, known, asked, sessions, missed, torn>>
  BY DEF TaskApplies, driving, counters
<1>2. EngineerTypes /\ Sound(eng, session, car, road, laps, missed) /\ RefOK(eng, laps)
  BY DEF EngineerSound
<1>3. DOMAIN laps \subseteq Nat \ {0} /\ Excluded(laps, partial) \subseteq DOMAIN laps
  BY <1>2, LapsDriven
<1>4. GroundOK(eng, session, car) /\ ToldOK(eng, laps) /\ eng \in Managers
  BY <1>2 DEF Sound, GroundOK
<1>5. ~missed => FlagsOK(eng, Excluded(laps, partial))
  BY <1>1, FreeIs DEF EngineerSound, InStep, Telling
<1>6. Excluded(laps, partial)' = Excluded(laps, partial) BY <1>1 DEF Excluded
<1>7. task' \in Tasks BY <1>1 DEF Tasks
<1> DEFINE by == [Free EXCEPT !.by = "request"]
\* A reference of this circuit is taken up, with the history told.
<1>8. ASSUME NEW f, Sound(f, session, car, road, laps, missed), f.hist = eng.hist,
             f.pending = Nothing => f.ref = Nothing, Refresh(f, by, "no"),
             \A out : FlagsOK(eng, out) /\ out \subseteq DOMAIN laps => f.refLap \notin out
      PROVE  EngineerSound'
  <2>1. f.ref = Nothing => RefOK(f, laps) /\ CornersOK(f) BY DEF RefOK, Allowed, CornersOK
  <2>2. /\ Sound(eng', session, car, road, laps, missed) /\ RefOK(eng', laps)
        /\ eng'.hist = f.hist /\ eng'.refLap = f.refLap
        /\ lock' \in Locks /\ ~Telling'
        /\ ~torn /\ lock'.at \notin {"sectors", "corners"} => CornersOK(eng')
    BY <1>1, <1>8, <2>1, TakenUp
  <2>3. EngineerTypes' BY <1>1, <1>2, <1>7, <2>2 DEF EngineerTypes
  <2>4. (~missed => FlagsOK(eng, Excluded(laps, partial)) /\ eng.refLap \notin Excluded(laps, partial))'
    <3>1. ASSUME ~missed
          PROVE  FlagsOK(eng', Excluded(laps, partial)) /\ eng'.refLap \notin Excluded(laps, partial)
      <4>1. FlagsOK(eng, Excluded(laps, partial)) BY <1>5, <3>1
      <4>2. eng'.hist = eng.hist BY <1>8, <2>2
      <4> QED BY <1>3, <1>8, <2>2, <4>1, <4>2 DEF FlagsOK
    <3> QED BY <1>1, <1>6, <3>1
  <2> QED BY <1>1, <2>2, <2>3, <2>4, EngineerAtRest
<1>9. CASE task.lap = BestOfSession
  <2> DEFINE f == ChosenBest(eng)
  <2>1. Refresh(f, by, "no") BY <1>9 DEF TaskApplies
  <2>2. f = ChosenBest(eng) OBVIOUS
  <2> HIDE DEF f
  <2>3. /\ Sound(f, session, car, road, laps, missed) /\ f.hist = eng.hist
        /\ f.ref = Nothing \/ f.pending # Nothing
        /\ \A out : FlagsOK(eng, out) /\ out \subseteq DOMAIN laps => f.refLap \notin out
    BY <1>3, <1>4, <2>2, ChosenBestSound
  <2> QED BY <1>8, <2>1, <2>3
<1>10. CASE task.lap # BestOfSession /\ task.road # TrackName
  <2>1. UNCHANGED <<eng, lock>> BY <1>10 DEF TaskApplies
  <2>2. (Telling' <=> Telling) /\ lock'.changed = lock.changed BY <2>1 DEF Telling
  <2>3. ~torn' /\ lock'.at \notin {"sectors", "corners"} => CornersOK(eng')
    BY <1>1, <2>1 DEF EngineerSound
  <2> QED BY <1>1, <1>2, <1>7, <2>1, <2>2, <2>3, AlikeItself, EngineerDressed DEF EngineerTypes
<1>11. CASE task.lap # BestOfSession /\ task.road = TrackName
  <2>1. PICK l \in StoredLaps : task.lap = Stored(l) /\ task.road = StoredRoad[l]
    <3>1. task \in Tasks /\ task # NoTask BY <1>1, <1>2 DEF EngineerTypes, NoTask
    <3>2. \A x \in [on : {TRUE}, lap : {BestOfSession}, road : Roads \cup {Unknown}] :
             x.lap = BestOfSession
      OBVIOUS
    <3>3. task \in {[on |-> TRUE, lap |-> Stored(l), road |-> StoredRoad[l]] : l \in StoredLaps}
      BY <1>11, <3>1, <3>2 DEF Tasks
    <3> QED BY <3>3
  <2>2. StoredRoad[l] \in Roads /\ Unknown \notin Roads BY SetsAssumption
  <2>3. known /\ road = StoredRoad[l] BY <1>11, <2>1, <2>2 DEF TrackName
  <2>4. session # 0 /\ car \in Cars /\ road \in Roads BY <1>2, <2>3 DEF EngineerTypes
  <2>5. task.lap[2] = l /\ task.road = road BY <2>1, <2>3 DEF Stored
  <2> DEFINE g == [eng EXCEPT !.road = road]
             f == ChosenLap(g, l)
  <2>6. Refresh(f, by, "no") BY <1>11, <2>5 DEF TaskApplies
  <2>7. /\ g \in Managers /\ g.hist = eng.hist /\ g.road = road /\ g.session = eng.session
        /\ g.car = eng.car
    BY <1>4, <2>4 DEF Managers
  <2>8. f = ChosenLap(g, l) OBVIOUS
  <2> HIDE DEF f, g
  <2>9. GroundOK(g, session, car) /\ ToldOK(g, laps) BY <1>4, <2>7 DEF GroundOK, ToldOK
  <2>10. /\ Sound(f, session, car, road, laps, missed) /\ f.hist = g.hist /\ f.pending # Nothing
         /\ \A out : FlagsOK(g, out) /\ out \subseteq DOMAIN laps => f.refLap \notin out
    BY <1>3, <2>3, <2>4, <2>7, <2>8, <2>9, ChosenLapSound
  <2>11. \A out : FlagsOK(eng, out) => FlagsOK(g, out) BY <2>7 DEF FlagsOK
  <2> QED BY <1>8, <2>6, <2>7, <2>10, <2>11
<1> QED BY <1>9, <1>10, <1>11

LEMMA RuleKept == EngineerSound /\ Rule => EngineerSound'
<1> SUFFICES ASSUME EngineerSound, Rule PROVE EngineerSound' OBVIOUS
<1>1. PICK n \in DOMAIN laps, ruling \in {"none", "in", "out"} :
        LET ls == [laps EXCEPT ![n].ruling = ruling]
            e == Overridden(eng, Excluded(ls, partial))
        IN /\ laps' = ls /\ missed' = (missed \/ StillToCome(e, Excluded(ls, partial)))
           /\ IF voice THEN Refresh(e, [lock EXCEPT !.by = "ruling"], "no")
              ELSE eng' = e /\ UNCHANGED lock
  BY DEF Rule
<1>2. lock = Free /\ UNCHANGED <<road, car, session, partial, known, asked, task, sessions, torn>>
  BY DEF Rule, service
<1>3. EngineerTypes /\ Sound(eng, session, car, road, laps, missed) /\ RefOK(eng, laps)
  BY DEF EngineerSound
<1>4. DOMAIN laps = 1..Len(laps) /\ DOMAIN laps \subseteq Nat \ {0} /\ laps[n] \in DrivenLaps
  BY <1>3, LapsDriven
<1>5. /\ laps' \in Seq(DrivenLaps) /\ DOMAIN laps' = DOMAIN laps
      /\ \A m \in DOMAIN laps : laps'[m].time = laps[m].time
  <2>1. laps \in Seq(DrivenLaps) BY <1>3 DEF EngineerTypes
  <2> DEFINE new == [laps[n] EXCEPT !.ruling = ruling]
  <2>2. new \in DrivenLaps /\ new.time = laps[n].time BY <1>4 DEF DrivenLaps
  <2>3. laps' = [laps EXCEPT ![n] = new] BY <1>1
  <2> HIDE DEF new
  <2> QED BY <1>4, <2>1, <2>2, <2>3
<1> DEFINE out == Excluded(laps', partial)
           f == Overridden(eng, out)
<1>6. /\ missed' = (missed \/ StillToCome(f, out))
      /\ IF voice THEN Refresh(f, [lock EXCEPT !.by = "ruling"], "no") ELSE eng' = f /\ UNCHANGED lock
  BY <1>1
<1>7. out \subseteq DOMAIN laps' /\ f = Overridden(eng, out) BY DEF Excluded
<1>8. out = Excluded(laps, partial)' BY <1>2
<1> HIDE DEF out, f
<1>9. Sound(eng, session, car, road, laps', missed) /\ RefOK(eng, laps')
  BY <1>3, <1>5, LapsGrow
<1>10. missed \/ StillToCome(f, out) => missed' BY <1>6
<1>11. /\ Sound(f, session, car, road, laps', missed') /\ RefOK(f, laps')
       /\ FlagsOK(f, out) /\ f.refLap \notin out /\ (CornersOK(eng) => CornersOK(f))
  <2>1. PICK m : m = missed' OBVIOUS
  <2>2. PICK ls : ls = laps' OBVIOUS
  <2>3. DOMAIN ls \subseteq Nat \ {0} /\ out \subseteq DOMAIN ls BY <1>4, <1>5, <1>7, <2>2
  <2>4. Sound(eng, session, car, road, ls, missed) /\ RefOK(eng, ls) BY <1>9, <2>2
  <2>5. missed \/ StillToCome(f, out) => m BY <1>10, <2>1
  <2>6. f = Overridden(eng, out) BY <1>7
  <2>7. Sound(f, session, car, road, ls, m) /\ RefOK(f, ls)
    BY <2>3, <2>4, <2>5, <2>6, OverriddenSound
  <2>8. FlagsOK(f, out) /\ f.refLap \notin out
    BY <2>3, <2>4, <2>5, <2>6, OverriddenSound
  <2>9. CornersOK(eng) => CornersOK(f)
    BY <2>3, <2>4, <2>5, <2>6, OverriddenSound
  <2> QED BY <2>1, <2>2, <2>7, <2>8, <2>9
<1>12. ~torn => CornersOK(f) BY <1>2, <1>11, FreeIs DEF EngineerSound
<1>13. missed' \in BOOLEAN BY <1>3, <1>6 DEF EngineerTypes
<1>14. /\ Sound(eng', session, car, road, laps', missed') /\ RefOK(eng', laps')
       /\ eng'.hist = f.hist /\ eng'.refLap = f.refLap
       /\ lock' \in Locks /\ ~Telling'
       /\ ~torn /\ lock'.at \notin {"sectors", "corners"} => CornersOK(eng')
  <2>1. CASE ~voice
    <3>1. eng' = f /\ lock' = Free BY <1>2, <1>6, <2>1
    <3>2. lock' \in Locks /\ ~Telling' BY <3>1, FreeIs DEF Telling
    <3> QED BY <1>11, <1>12, <3>1, <3>2
  <2>2. CASE voice
    <3>1. PICK by : by = [Free EXCEPT !.by = "ruling"] OBVIOUS
    <3>2. Refresh(f, by, "no") BY <1>2, <1>6, <2>2, <3>1
    <3> QED BY <1>2, <1>11, <1>12, <3>1, <3>2, TakenUp
  <2> QED BY <2>1, <2>2
<1>15. EngineerTypes' BY <1>2, <1>3, <1>5, <1>13, <1>14 DEF EngineerTypes
<1>16. (~missed => FlagsOK(eng, Excluded(laps, partial)) /\ eng.refLap \notin Excluded(laps, partial))'
  <2>1. FlagsOK(eng', out) /\ eng'.refLap \notin out BY <1>11, <1>14 DEF FlagsOK
  <2> QED BY <1>8, <2>1
<1> QED BY <1>2, <1>14, <1>15, <1>16, EngineerAtRest

LEMMA ResetKept == EngineerSound /\ Reset => EngineerSound'
<1> SUFFICES ASSUME EngineerSound, Reset PROVE EngineerSound' OBVIOUS
<1>1. /\ lock = Free /\ session' = 0 /\ laps' = <<>> /\ partial' = {} /\ known' = FALSE
      /\ missed' = FALSE /\ eng' = ChosenBest(OnSession(eng, 0, car))
      /\ UNCHANGED <<road, car, asked, task, sessions, torn>> /\ lock' = lock
  BY DEF Reset
<1>2. EngineerTypes /\ Sound(eng, session, car, road, laps, missed) BY DEF EngineerSound
<1> DEFINE e == OnSession(eng, 0, car)
<1>3. e = OnSession(eng, 0, car) /\ eng' = ChosenBest(e) BY <1>1
<1> HIDE DEF e
<1>4. car \in Cars /\ 0 \in Nat BY <1>2 DEF EngineerTypes
<1>5. GroundOK(e, 0, car) /\ e.hist = <<>> /\ e.ref = Nothing
  BY <1>2, <1>3, <1>4, OnSessionSound
<1>6. ToldOK(e, <<>>) BY <1>5 DEF ToldOK
<1>7. /\ Sound(eng', 0, car, road, <<>>, missed') /\ eng'.hist = <<>> /\ eng'.ref = Nothing
  <2>1. PICK ls, s : ls = <<>> /\ s = 0 OBVIOUS
  <2>2. DOMAIN ls \subseteq Nat \ {0} /\ ToldOK(e, ls) BY <1>6, <2>1
  <2>3. GroundOK(e, s, car) BY <1>5, <2>1
  <2>4. /\ Sound(eng', s, car, road, ls, missed') /\ eng'.hist = e.hist
        /\ eng'.ref = Nothing \/ SameReference(e, eng')
    BY <1>3, <2>2, <2>3, ChosenBestSound
  <2> QED BY <1>5, <2>1, <2>4 DEF SameReference
<1>8. EngineerTypes'
  <2>1. laps' \in Seq(DrivenLaps) /\ partial' \subseteq DOMAIN laps' BY <1>1
  <2>2. known' \in BOOLEAN /\ ~known' /\ missed' \in BOOLEAN BY <1>1
  <2>3. session' \in Nat /\ sessions' \in Nat /\ session' <= sessions' BY <1>1, <1>2 DEF EngineerTypes
  <2> QED BY <1>1, <1>2, <2>1, <2>2, <2>3 DEF EngineerTypes
<1>9. ~Telling' BY <1>1, FreeIs DEF Telling
<1>10. RefOK(eng', laps') /\ CornersOK(eng') BY <1>7 DEF RefOK, Allowed, CornersOK
<1>11. Excluded(laps', partial') = {} BY <1>1 DEF Excluded
<1>12. FlagsOK(eng', {}) BY <1>7 DEF FlagsOK
<1>13. Sound(eng, session, car, road, laps, missed)' BY <1>1, <1>7
<1> QED BY <1>8, <1>9, <1>10, <1>11, <1>12, <1>13, EngineerAtRest

LEMMA EngineerKept == EngineerSound /\ [Next]_vars => EngineerSound'
<1> SUFFICES ASSUME EngineerSound, [Next]_vars PROVE EngineerSound' OBVIOUS
<1>1. CASE UNCHANGED vars
  <2>1. UNCHANGED <<road, car, session, laps, partial, known, asked, task, sessions, missed, torn, lock, eng>>
    BY <1>1 DEF vars, driving, service, counters
  <2>2. (Telling' <=> Telling) /\ lock'.changed = lock.changed BY <2>1 DEF Telling
  <2>3. ~torn' /\ lock'.at \notin {"sectors", "corners"} => CornersOK(eng')
    BY <2>1 DEF EngineerSound
  <2>4. EngineerTypes BY DEF EngineerSound
  <2> QED BY <2>1, <2>2, <2>3, <2>4, AlikeItself, EngineerDressed DEF EngineerTypes
<1>2. CASE Drives
  BY <1>2, SessionStartsKept, LapCompletesKept, LapSavedKept, LapPlacedKept, SectorsReadyKept,
     CornersReadyKept DEF Drives
<1>3. CASE Asks
  BY <1>3, AskKept, TaskTakesKept, TaskAppliesKept, RuleKept, ResetKept, CircuitNamedKept,
     ToggleKept, CutOffKept DEF Asks
<1> QED BY <1>1, <1>2, <1>3 DEF Next

LEMMA EngineerCounts == EngineerSound => ReferenceCounts
<1> SUFFICES ASSUME EngineerSound, lock = Free, ~missed PROVE ReferenceCounts
  BY DEF ReferenceCounts
<1>1. EngineerTypes /\ Sound(eng, session, car, road, laps, missed) BY DEF EngineerSound
<1>2. eng \in Managers /\ eng.session = session BY <1>1 DEF Sound, GroundOK
<1> DEFINE out == Excluded(laps, partial)
<1>3. FlagsOK(eng, out) /\ eng.refLap \notin out BY FreeIs DEF EngineerSound, InStep, Telling
<1>4. eng.refLap # 0 => Driven(session, eng.refLap) \in Counting
  BY <1>1, <1>3 DEF Sound, NumberOK, Counting
<1>5. eng.pending = Nothing => InHand(eng) = eng.ref BY DEF InHand
<1>6. ASSUME ~eng.chase, eng.pending = Nothing PROVE eng.ref \in {Nothing} \cup Counting
  <2>1. eng.ref = (IF eng.refLap = 0 THEN Nothing ELSE Driven(session, eng.refLap))
    BY <1>1, <1>2, <1>5, <1>6 DEF Sound, NumberOK
  <2> QED BY <1>4, <2>1
<1>7. ASSUME eng.chase, eng.confirmed
      PROVE  LET counting == {i \in DOMAIN eng.hist : Samples(eng, eng.hist[i]) \in Counting}
             IN /\ eng.chased.lap \in {eng.base.lap} \cup Counting
                /\ eng.chased.time = Min({eng.base.time, eng.chased.time} \cup {eng.hist[i].time : i \in counting})
                /\ eng.pending = Nothing => eng.ref = eng.chased.lap
  <2> DEFINE counting == {i \in DOMAIN eng.hist : Samples(eng, eng.hist[i]) \in Counting}
             T == {eng.base.time, eng.chased.time} \cup {eng.hist[i].time : i \in counting}
  <2>1. /\ eng.chased.time <= eng.base.time
        /\ \A i \in DOMAIN eng.hist : eng.hist[i].counts => eng.chased.time <= eng.hist[i].time
        /\ eng.chased.lap = (IF eng.refLap = 0 THEN eng.base.lap ELSE Driven(session, eng.refLap))
        /\ InHand(eng) = eng.chased.lap
    BY <1>1, <1>2, <1>7 DEF Sound, FollowOK, Chasing
  <2>2. eng.chased.lap \in {eng.base.lap} \cup Counting BY <1>4, <2>1
  <2>3. ASSUME NEW i \in counting PROVE eng.chased.time <= eng.hist[i].time
    <3>1. PICK n \in DOMAIN laps \ out : Driven(session, eng.hist[i].n) = Driven(session, n)
      BY <1>2 DEF Counting, Samples
    <3>2. eng.hist[i].n \in Nat /\ n \in Nat /\ session \in Nat
      BY <1>1, <1>2, LapsDriven, ToldTypes DEF EngineerTypes
    <3>3. eng.hist[i].n = n BY <3>1, <3>2, Names
    <3>4. eng.hist[i].counts BY <1>3, <3>1, <3>3 DEF FlagsOK
    <3> QED BY <2>1, <3>4
  <2>4. eng.chased.time \in Nat /\ eng.base.time \in Nat BY <1>2, ManagerTypes
  <2>5. \A i \in counting : eng.hist[i].time \in Nat BY <1>2, ToldTypes
  <2>6. eng.chased.time \in T /\ T \subseteq Nat /\ \A x \in T : eng.chased.time <= x
    BY <2>1, <2>3, <2>4, <2>5
  <2>7. eng.chased.time = Min(T)
    <3> HIDE DEF T
    <3>1. Min(T) \in T /\ \A x \in T : Min(T) <= x BY <2>6 DEF Min
    <3>2. Min(T) <= eng.chased.time /\ eng.chased.time <= Min(T) BY <2>6, <3>1
    <3>3. Min(T) \in Nat BY <2>6, <3>1
    <3> QED BY <2>4, <3>2, <3>3
  <2> QED BY <1>5, <2>1, <2>2, <2>7
<1> QED BY <1>6, <1>7 DEF ReferenceCounts

LEMMA EngineerWhole == EngineerSound => ReferenceWhole
<1> SUFFICES ASSUME EngineerSound, eng.ref # Nothing
             PROVE  /\ eng.ref \notin OfThisSession =>
                          eng.chase /\ eng.confirmed /\ eng.baseRoad = road /\ eng.baseCar = car
                    /\ eng.ref[1] = "stored" => StoredRoad[eng.ref[2]] = road
                    /\ eng.splits # NoBase => eng.splits.lap = eng.ref
                    /\ lock = Free /\ ~torn => eng.corners \in {Nothing, eng.ref}
  BY DEF ReferenceWhole
<1>1. EngineerTypes /\ Sound(eng, session, car, road, laps, missed) /\ RefOK(eng, laps)
  BY DEF EngineerSound
<1>2. eng \in Managers /\ eng.session = session BY <1>1 DEF Sound, GroundOK
<1>3. \/ eng.ref \in OfThisSession
      \/ Chasing(eng) /\ eng.ref = eng.base.lap
  BY <1>1, <1>2 DEF RefOK, Allowed, OfThisSession
<1>4. ASSUME Chasing(eng)
      PROVE  /\ eng.chase /\ eng.confirmed /\ eng.baseRoad = road /\ eng.baseCar = car
             /\ Elsewhere(eng.base.lap, session, road)
  BY <1>1, <1>4 DEF Sound, ChaseOK, Chasing
<1>5. eng.ref[1] = "stored" => StoredRoad[eng.ref[2]] = road
  <2>1. ASSUME NEW s, NEW n, eng.ref = Driven(s, n) PROVE eng.ref[1] = "driven"
    BY <2>1 DEF Driven
  <2>2. ASSUME NEW l \in StoredLaps, eng.ref = Stored(l) PROVE eng.ref[2] = l BY <2>2 DEF Stored
  <2>3. CASE eng.ref \in OfThisSession BY <2>1, <2>3 DEF OfThisSession
  <2>4. CASE Elsewhere(eng.ref, session, road) BY <2>1, <2>2, <2>4 DEF Elsewhere
  <2> QED BY <1>3, <1>4, <2>3, <2>4
<1>6. eng.splits # NoBase => eng.splits.lap = eng.ref BY <1>1 DEF Sound, SplitOK
<1>7. lock = Free /\ ~torn => eng.corners \in {Nothing, eng.ref}
  BY FreeIs DEF EngineerSound, CornersOK
<1> QED BY <1>3, <1>4, <1>5, <1>6, <1>7

\* Whatever the circuits, the laps, the rulings and the cancelled tasks, and
\* however long the driver drives: what a lap is compared with counts and is
\* all of one lap of this circuit, and a chase is of the quickest that counts
\* (race_engineer/manager.py: _chase_settle, _reflag, on_lap, on_track,
\* on_session, apply_best_override; service.py: refresh_reference).
THEOREM ReferenceIsSound == Spec => []ReferenceSound
<1>1. EngineerSound => ReferenceSound BY EngineerCounts, EngineerWhole DEF ReferenceSound
<1>2. Spec => []EngineerSound BY EngineerBegins, EngineerKept, PTL DEF Spec
<1> QED BY <1>1, <1>2, PTL
-----------------------------------------------------------------------------
(* What is said between the lines.                                         *)

\* One request at the gate.
AtTheGate(a, r, at, types) ==
    IF r.type \in types /\ P!Passes(a.gate, r, at)
    THEN [gate |-> P!Entered(a.gate, r, at), said |-> Append(a.said, r)]
    ELSE a

\* The fold over the places of a sequence of requests.
Rounds(it, base, q, at, types) ==
    [s \in SUBSET DOMAIN q |->
        IF s = {} THEN base
        ELSE AtTheGate(it[s \ {P!Max(s)}], q[P!Max(s)], at, types)]

LEMMA JudgedIs ==
    ASSUME NEW g, NEW q, NEW at, NEW types
    PROVE  P!Judged(g, q, at, types) =
              (CHOOSE it : it = Rounds(it, [gate |-> g, said |-> <<>>], q, at, types))[DOMAIN q]
BY DEF P!Judged, P!FoldLeft, P!MapThenFoldSet, Rounds, AtTheGate

\* _emit with nothing to say, and with one thing.
LEMMA JudgedNone ==
    ASSUME NEW g, NEW at, NEW types
    PROVE  P!Judged(g, <<>>, at, types) = [gate |-> g, said |-> <<>>]
<1> DEFINE base == [gate |-> g, said |-> <<>>]
           w == [s \in SUBSET {} |-> base]
           it == CHOOSE i : i = Rounds(i, base, <<>>, at, types)
<1>1. DOMAIN <<>> = {} OBVIOUS
<1>2. \A i : Rounds(i, base, <<>>, at, types) = w
  <2>1. \A s \in SUBSET {} : s = {} OBVIOUS
  <2> QED BY <1>1, <2>1 DEF Rounds
<1> HIDE DEF base
<1>3. w[{}] = base OBVIOUS
<1> HIDE DEF w
<1>4. w = Rounds(w, base, <<>>, at, types) BY <1>2
<1>5. it = Rounds(it, base, <<>>, at, types) BY <1>4
<1>6. it = w BY <1>2, <1>5
<1>7. P!Judged(g, <<>>, at, types) = it[DOMAIN <<>>] BY JudgedIs DEF base
<1> QED BY <1>1, <1>3, <1>6, <1>7 DEF base

LEMMA JudgedOne ==
    ASSUME NEW g, NEW r, NEW at, NEW types
    PROVE  P!Judged(g, <<r>>, at, types) = AtTheGate([gate |-> g, said |-> <<>>], r, at, types)
<1> DEFINE base == [gate |-> g, said |-> <<>>]
           last == AtTheGate(base, r, at, types)
           w == [s \in SUBSET {1} |-> IF s = {} THEN base ELSE last]
           it == CHOOSE i : i = Rounds(i, base, <<r>>, at, types)
<1>1. DOMAIN <<r>> = {1} /\ <<r>>[1] = r OBVIOUS
<1>2. \A s \in SUBSET {1} : s = {} \/ (s = {1} /\ P!Max(s) = 1 /\ s \ {P!Max(s)} = {})
  <2>1. P!Max({1}) = 1 BY DEF P!Max
  <2> QED BY <2>1
<1> HIDE DEF base, last
<1>3. ASSUME NEW i, i[{}] = base PROVE Rounds(i, base, <<r>>, at, types) = w
  <2>1. \A s \in SUBSET {1} : s # {} =>
           AtTheGate(i[s \ {P!Max(s)}], <<r>>[P!Max(s)], at, types) = last
    BY <1>1, <1>2, <1>3 DEF last
  <2> QED BY <1>1, <2>1 DEF Rounds
<1>4. w[{}] = base /\ w[{1}] = last OBVIOUS
<1>5. \A i : Rounds(i, base, <<r>>, at, types)[{}] = base BY DEF Rounds
<1> HIDE DEF w
<1>6. w = Rounds(w, base, <<r>>, at, types) BY <1>3, <1>4
<1>7. it = Rounds(it, base, <<r>>, at, types) BY <1>6
<1> HIDE DEF it
<1>8. it = w BY <1>3, <1>5, <1>7
<1>9. P!Judged(g, <<r>>, at, types) = it[DOMAIN <<r>>] BY JudgedIs DEF base, it
<1> QED BY <1>1, <1>4, <1>8, <1>9 DEF base, last

Worse(g, r) == P!Max({P!Severity(g, r.key), r.severity})

\* What enters the gate is remembered with its time and its worst severity,
\* and nothing else is entered (_prune only drops).
LEMMA EnteredIs ==
    ASSUME NEW g, NEW r, NEW at \in Nat, DOMAIN g.worst = DOMAIN g.last,
           NEW e, e = P!Entered(g, r, at)
    PROVE  /\ DOMAIN e.last \subseteq DOMAIN g.last \cup {r.key} /\ DOMAIN e.worst = DOMAIN e.last
           /\ r.key \in DOMAIN e.last /\ e.last[r.key] = at
           /\ e.worst[r.key] = Worse(g, r)
<1> USE DEF Worse
<1> DEFINE keys == DOMAIN g.last \cup {r.key}
           last == [k \in keys |-> IF k = r.key THEN at ELSE g.last[k]]
           worst == [k \in keys |-> IF k = r.key THEN P!Max({P!Severity(g, k), r.severity})
                                    ELSE g.worst[k]]
           kept == {k \in keys : at - last[k] <= Retention}
           h == [last |-> last, worst |-> worst]
<1>1. e = P!Pruned(h, at) BY DEF P!Entered
<1>2. r.key \in kept BY PacketsAssumption
<1>3. DOMAIN last = keys /\ DOMAIN worst = keys OBVIOUS
<1>4. last[r.key] = at /\ worst[r.key] = P!Max({P!Severity(g, r.key), r.severity}) OBVIOUS
<1>5. kept = {k \in DOMAIN h.last : at - h.last[k] <= Retention} BY <1>3
<1>6. kept \subseteq keys OBVIOUS
<1> HIDE DEF kept, last, worst, keys
<1>7. h.last = last /\ h.worst = worst OBVIOUS
<1>8. \/ e = h
      \/ e = [last |-> P!Restrict(last, kept), worst |-> P!Restrict(worst, kept)]
  BY <1>1, <1>5, <1>7 DEF P!Pruned
<1>9. CASE e = h BY <1>2, <1>3, <1>4, <1>6, <1>7, <1>9 DEF keys
<1>10. CASE e = [last |-> P!Restrict(last, kept), worst |-> P!Restrict(worst, kept)]
  <2>1. e.last = [k \in kept |-> last[k]] /\ e.worst = [k \in kept |-> worst[k]]
    BY <1>10 DEF P!Restrict
  <2> QED BY <2>1, <1>2, <1>4, <1>6 DEF keys
<1> QED BY <1>8, <1>9, <1>10

LEMMA MaxOfTwo ==
    ASSUME NEW a \in Int, NEW b \in Int
    PROVE  P!Max({a, b}) = (IF a >= b THEN a ELSE b)
BY DEF P!Max

LEMMA RangeOfOne ==
    ASSUME NEW r
    PROVE  P!Range(<<r>>) = {r} /\ P!Range(Append(<<>>, r)) = {r} /\ P!Range(<<>>) = {}
BY DEF P!Range

\* _emit with one thing to say: it is said or the gate stays as it was.
LEMMA SaysOne ==
    ASSUME NEW r, NEW at, P!Says(P!Said(<<r>>, at), at)
    PROVE  \/ /\ spoken /\ P!Passes(gate, r, at) /\ gate' = P!Entered(gate, r, at)
              /\ told' = [t \in P!Types |-> IF t = r.type THEN at ELSE told[t]]
           \/ /\ ~(spoken /\ r.type \in P!Types /\ P!Passes(gate, r, at)) /\ gate' = gate
              /\ told' = [t \in P!Types |-> told[t]]
<1> DEFINE types == IF spoken THEN P!Types ELSE {}
           base == [gate |-> gate, said |-> <<>>]
           j == P!Judged(gate, <<r>>, at, types)
<1>1. /\ gate' = j.gate
      /\ told' = [t \in P!Types |-> IF \E q \in P!Range(j.said) : q.type = t THEN at ELSE told[t]]
  BY DEF P!Says, P!Said
<1>2. j = AtTheGate(base, r, at, types) BY JudgedOne
<1>3. base.gate = gate /\ base.said = <<>> OBVIOUS
<1> HIDE DEF base, j
<1>4. CASE r.type \in types /\ P!Passes(gate, r, at)
  <2>1. j = [gate |-> P!Entered(gate, r, at), said |-> Append(<<>>, r)]
    BY <1>2, <1>3, <1>4 DEF AtTheGate
  <2>2. j.gate = P!Entered(gate, r, at) /\ P!Range(j.said) = {r} BY <2>1, RangeOfOne
  <2> QED BY <1>1, <1>4, <2>2
<1>5. CASE ~(r.type \in types /\ P!Passes(gate, r, at))
  <2>1. j.gate = gate /\ P!Range(j.said) = {} BY <1>2, <1>3, <1>5, RangeOfOne DEF AtTheGate
  <2> QED BY <1>1, <1>5, <2>1
<1> QED BY <1>4, <1>5

LEMMA SaysNothing ==
    ASSUME NEW at, P!Says(P!Said(<<>>, at), at)
    PROVE  gate' = gate /\ told' = [t \in P!Types |-> told[t]]
<1> DEFINE types == IF spoken THEN P!Types ELSE {}
           j == P!Judged(gate, <<>>, at, types)
<1>1. /\ gate' = j.gate
      /\ told' = [t \in P!Types |-> IF \E q \in P!Range(j.said) : q.type = t THEN at ELSE told[t]]
  BY DEF P!Says, P!Said
<1>2. j.gate = gate /\ j.said = <<>> BY JudgedNone
<1> HIDE DEF j
<1>3. P!Range(j.said) = {} BY <1>2, RangeOfOne
<1> QED BY <1>1, <1>2, <1>3

-----------------------------------------------------------------------------
(* The alarms: what is critical has been said, and the gate's memory of it *)
(* is no older than a cooldown.                                            *)

Alarm == P!Critical[topic]

AlarmTypes ==
    /\ now \in Nat /\ spoken \in BOOLEAN
    /\ told \in [P!Types -> Int]
    /\ DOMAIN gate.worst = DOMAIN gate.last
    /\ due = {} /\ told["final_lap"] = -1

AlarmKey == {topic}

Alarming ==
    /\ topic \in {"engine", "fuel"}
    /\ topic \in DOMAIN gate.last /\ told[Alarm] \in Nat /\ ripe \in Nat
    /\ now - gate.last[topic] < PacketCooldown[Alarm]
    /\ told[Alarm] = gate.last[topic] \/ gate.last[topic] <= ripe

AlarmsSound ==
    /\ AlarmTypes
    /\ topic = "tires" => ~crit.active
    /\ DOMAIN gate.last \subseteq AlarmKey
    /\ topic \in DOMAIN gate.last =>
          /\ gate.last[topic] \in Nat /\ gate.last[topic] <= now
          /\ gate.worst[topic] \in 0..2
          /\ topic \in {"engine", "fuel"} /\ gate.worst[topic] = 2 => told[Alarm] \in Nat
    /\ ripe # -1 => Alarming

LEMMA AlarmNames ==
    /\ topic = "engine" => Alarm = "temp_critical" /\ P!High[topic] = "temp_high"
    /\ topic = "fuel" => Alarm = "fuel_critical" /\ P!High[topic] = "fuel_low"
    /\ topic = "tires" => P!High[topic] = "tire_high"
    /\ {"temp_critical", "fuel_critical", "temp_high", "fuel_low", "tire_high"} \subseteq P!Types
    /\ "final_lap" \in P!Types
    /\ PacketCooldown["temp_critical"] = 3 /\ PacketCooldown["fuel_critical"] = 2
BY DEF Alarm, P!Critical, P!High, P!Types, P!Watched, P!OneOff, PacketCooldown

LEMMA AlarmsAreHeard == AlarmsSound => P!CriticalIsHeard
<1> SUFFICES ASSUME AlarmsSound, ripe # -1
             PROVE  /\ told[Alarm] # -1
                    /\ now - ripe >= PacketCooldown[Alarm] => now - told[Alarm] < PacketCooldown[Alarm]
  BY DEF P!CriticalIsHeard, Alarm
<1>1. Alarming /\ now \in Nat BY DEF AlarmsSound, AlarmTypes
<1>2. gate.last[topic] \in Nat BY <1>1 DEF Alarming, AlarmsSound
<1>3. PacketCooldown[Alarm] \in Nat BY <1>1, AlarmNames DEF Alarming
<1> QED BY <1>1, <1>2, <1>3 DEF Alarming

\* Time goes on, and nobody is to hear anything.
LEMMA QuietAlarms ==
    ASSUME AlarmsSound, now' \in Nat, now <= now', ripe' = -1, topic = "tires" => ~crit'.active,
           UNCHANGED <<topic, spoken, gate, due>>, told' = [t \in P!Types |-> told[t]]
    PROVE  AlarmsSound'
<1>1. told' = told BY DEF AlarmsSound, AlarmTypes
<1>2. Alarm' = Alarm BY DEF Alarm
<1> QED BY <1>1, <1>2 DEF AlarmsSound, AlarmTypes, AlarmKey

\* Something is called at this packet.
LEMMA AlarmEnters ==
    ASSUME AlarmsSound, now' \in Nat, now <= now', NEW type \in P!Types, NEW severity \in 0..2,
           topic = "tires" => ~crit'.active, topic \in P!Watched,
           UNCHANGED <<topic, spoken, due>>,
           type # "final_lap",
           gate' = P!Entered(gate, P!Request(type, topic, severity), now'),
           told' = [t \in P!Types |-> IF t = type THEN now' ELSE told[t]],
           severity = 2 => topic \in {"engine", "fuel"} /\ type = Alarm,
           \/ ripe' = -1
           \/ severity = 2 /\ ripe' \in Nat
    PROVE  AlarmsSound'
<1> DEFINE r == P!Request(type, topic, severity)
<1>1. r.key = topic /\ r.severity = severity BY DEF P!Request
<1>2. /\ DOMAIN gate'.last \subseteq DOMAIN gate.last \cup {topic}
      /\ DOMAIN gate'.worst = DOMAIN gate'.last
      /\ topic \in DOMAIN gate'.last /\ gate'.last[topic] = now'
      /\ gate'.worst[topic] = P!Max({P!Severity(gate, topic), severity})
  <2>1. DOMAIN gate.worst = DOMAIN gate.last /\ gate' = P!Entered(gate, r, now')
    BY DEF AlarmsSound, AlarmTypes
  <2> HIDE DEF r
  <2>2. PICK at \in Nat : at = now' OBVIOUS
  <2>3. PICK e : e = gate' OBVIOUS
  <2>4. e = P!Entered(gate, r, at) BY <2>1, <2>2, <2>3
  <2>5. /\ DOMAIN e.last \subseteq DOMAIN gate.last \cup {r.key} /\ DOMAIN e.worst = DOMAIN e.last
        /\ r.key \in DOMAIN e.last /\ e.last[r.key] = at
        /\ e.worst[r.key] = Worse(gate, r)
    BY <2>1, <2>4, EnteredIs
  <2> QED BY <1>1, <2>2, <2>3, <2>5 DEF Worse
<1>3. /\ P!Severity(gate, topic) \in 0..2
      /\ P!Severity(gate, topic) = 2 /\ topic \in {"engine", "fuel"} => told[Alarm] \in Nat
  BY DEF P!Severity, AlarmsSound, AlarmTypes
<1>4. gate'.worst[topic] \in 0..2 /\ (gate'.worst[topic] = 2 => P!Severity(gate, topic) = 2 \/ severity = 2)
  BY <1>2, <1>3, MaxOfTwo
<1>5. Alarm' = Alarm BY DEF Alarm
<1>6. /\ told' \in [P!Types -> Int]
      /\ type = Alarm => told'[Alarm] = now'
      /\ told[Alarm] \in Nat /\ Alarm \in P!Types => told'[Alarm] \in Nat
      /\ told'["final_lap"] = -1
  BY AlarmNames DEF AlarmsSound, AlarmTypes
<1>7. topic \in {"engine", "fuel"} => Alarm \in P!Types /\ PacketCooldown[Alarm] > 0
  BY AlarmNames
<1>8. AlarmTypes' BY <1>2, <1>6 DEF AlarmsSound, AlarmTypes
<1>9. gate'.worst[topic] = 2 /\ topic \in {"engine", "fuel"} => told'[Alarm] \in Nat
  BY <1>3, <1>4, <1>6, <1>7
<1>10. ripe' # -1 => Alarming'
  BY <1>2, <1>5, <1>6, <1>7 DEF Alarming
<1>11. DOMAIN gate'.last \subseteq {topic} BY <1>2 DEF AlarmsSound, AlarmKey
<1> QED BY <1>2, <1>4, <1>5, <1>8, <1>9, <1>10, <1>11 DEF AlarmsSound, AlarmKey

\* What is critical was called within the cooldown.
LEMMA AlarmWaits ==
    ASSUME AlarmsSound, now' \in Nat, now <= now', topic \in {"engine", "fuel"},
           UNCHANGED <<topic, spoken, gate, due>>, told' = [t \in P!Types |-> told[t]],
           ~P!Passes(gate, P!Request(Alarm, topic, 2), now'),
           ripe' = IF ripe = -1 THEN now' ELSE ripe
    PROVE  AlarmsSound'
<1>1. told' = told BY DEF AlarmsSound, AlarmTypes
<1>2. Alarm' = Alarm BY DEF Alarm
<1>3. PacketCooldown[Alarm] > 0 /\ PacketCooldown[Alarm] \in Nat BY AlarmNames
<1>4. /\ topic \in DOMAIN gate.last /\ ~(2 > P!Severity(gate, topic))
      /\ ~(now' - gate.last[topic] >= PacketCooldown[Alarm])
  BY <1>3 DEF P!Passes, P!Request
<1>5. /\ gate.last[topic] \in Nat /\ gate.last[topic] <= now /\ gate.worst[topic] \in 0..2
      /\ (gate.worst[topic] = 2 => told[Alarm] \in Nat)
  BY <1>4 DEF AlarmsSound
<1>6. P!Severity(gate, topic) = gate.worst[topic] BY <1>4 DEF P!Severity, AlarmsSound, AlarmTypes
<1>7. told[Alarm] \in Nat BY <1>4, <1>5, <1>6
<1>8. now' - gate.last[topic] < PacketCooldown[Alarm] BY <1>3, <1>4, <1>5
<1>9. ripe # -1 => Alarming BY DEF AlarmsSound
<1>10. ripe' \in Nat /\ (told[Alarm] = gate.last[topic] \/ gate.last[topic] <= ripe')
  BY <1>5, <1>9 DEF Alarming, AlarmsSound, AlarmTypes
<1>11. Alarming' BY <1>1, <1>2, <1>4, <1>7, <1>8, <1>10 DEF Alarming
<1> QED BY <1>1, <1>2, <1>5, <1>11 DEF AlarmsSound, AlarmTypes, AlarmKey

LEMMA WatchKept ==
    ASSUME AlarmsSound, NEW moving \in BOOLEAN, NEW loading \in BOOLEAN, NEW level \in 0..4,
           NEW step \in 1..2, P!Watch(moving, loading, level, step)
    PROVE  AlarmsSound'
<1>1. /\ topic \in P!Watched /\ now' \in Nat /\ now <= now' /\ UNCHANGED <<topic, spoken, due>>
  BY DEF P!Watch, P!Tick, AlarmsSound, AlarmTypes
<1>2. told = [t \in P!Types |-> told[t]] BY DEF AlarmsSound, AlarmTypes
<1>3. CASE P!Silent /\ (UNCHANGED crit \/ crit' = P!Rest)
  BY <1>1, <1>2, <1>3, QuietAlarms DEF P!Silent, P!Rest, AlarmsSound
<1>4. CASE /\ topic = "tires" => crit' = P!Rest
           /\ P!Says(P!Said(P!Asked(crit', warn'), now'), now')
           /\ P!Ripens(crit', now')
  <2>1. topic = "tires" => ~crit'.active BY <1>4 DEF P!Rest
  <2>2. topic \in {"engine", "fuel", "tires"} BY <1>1 DEF P!Watched
  <2>3. CASE crit'.active
    <3>1. topic \in {"engine", "fuel"} BY <2>1, <2>2, <2>3
    <3>2. P!Asked(crit', warn') = <<P!Request(Alarm, topic, 2)>> BY <2>3 DEF P!Asked, Alarm
    <3>3. P!Request(Alarm, topic, 2).type = Alarm BY DEF P!Request
    <3>4. Alarm \in P!Types /\ Alarm # "final_lap" BY <3>1, AlarmNames
    <3>5. CASE /\ spoken /\ gate' = P!Entered(gate, P!Request(Alarm, topic, 2), now')
               /\ told' = [t \in P!Types |-> IF t = Alarm THEN now' ELSE told[t]]
      <4>1. ripe' \in Nat BY <1>1, <1>4, <2>3, <3>5 DEF P!Ripens, AlarmsSound, Alarming
      <4> QED BY <1>1, <2>1, <3>1, <3>4, <3>5, <4>1, AlarmEnters
    <3>6. CASE /\ ~(spoken /\ P!Passes(gate, P!Request(Alarm, topic, 2), now')) /\ gate' = gate
               /\ told' = [t \in P!Types |-> told[t]]
      <4>1. CASE ~spoken
        <5>1. ripe' = -1 BY <1>4, <4>1 DEF P!Ripens
        <5> QED BY <1>1, <2>1, <3>6, <5>1, QuietAlarms
      <4>2. CASE spoken
        <5>1. ripe' = IF ripe = -1 THEN now' ELSE ripe BY <1>4, <2>3, <4>2 DEF P!Ripens
        <5> QED BY <1>1, <3>1, <3>6, <4>2, <5>1, AlarmWaits
      <4> QED BY <4>1, <4>2
    <3>7. P!Says(P!Said(<<P!Request(Alarm, topic, 2)>>, now'), now') BY <1>4, <3>2
    <3> QED BY <3>3, <3>4, <3>5, <3>6, <3>7, SaysOne
  <2>4. CASE ~crit'.active
    <3>1. ripe' = -1 BY <1>4, <2>4 DEF P!Ripens
    <3>2. CASE ~warn'.active
      <4>1. P!Asked(crit', warn') = <<>> BY <2>4, <3>2 DEF P!Asked
      <4>2. P!Says(P!Said(<<>>, now'), now') BY <1>4, <4>1
      <4>3. gate' = gate /\ told' = [t \in P!Types |-> told[t]] BY <4>2, SaysNothing
      <4> QED BY <1>1, <2>1, <3>1, <4>3, QuietAlarms
    <3>3. CASE warn'.active
      <4> DEFINE severity == IF topic = "tires" THEN 0 ELSE 1
                 type == P!High[topic]
                 r == P!Request(type, topic, severity)
      <4>1. P!Asked(crit', warn') = <<r>> BY <2>4, <3>3 DEF P!Asked
      <4>2. type \in P!Types /\ type # "final_lap" /\ r.type = type BY <2>2, AlarmNames DEF P!Request
      <4>3. severity \in 0..2 /\ severity # 2 OBVIOUS
      <4>4. P!Says(P!Said(<<r>>, now'), now') BY <1>4, <4>1
      <4>5. CASE /\ gate' = P!Entered(gate, r, now')
                 /\ told' = [t \in P!Types |-> IF t = type THEN now' ELSE told[t]]
        <5> HIDE DEF severity, type
        <5> QED BY <1>1, <2>1, <3>1, <4>2, <4>3, <4>5, AlarmEnters
      <4>6. CASE gate' = gate /\ told' = [t \in P!Types |-> told[t]]
        BY <1>1, <2>1, <3>1, <4>6, QuietAlarms
      <4> HIDE DEF r, type
      <4> QED BY <4>2, <4>4, <4>5, <4>6, SaysOne
    <3> QED BY <3>2, <3>3
  <2> QED BY <2>3, <2>4
<1>5. \/ P!Silent /\ UNCHANGED crit
      \/ P!Silent /\ crit' = P!Rest
      \/ /\ topic = "tires" => crit' = P!Rest
         /\ P!Says(P!Said(P!Asked(crit', warn'), now'), now')
         /\ P!Ripens(crit', now')
  BY DEF P!Watch
<1> QED BY <1>3, <1>4, <1>5

\* Nobody drives, or another session begins.
LEMMA AroundAlarms ==
    ASSUME AlarmsSound, topic \in P!Watched, P!NextLap \/ P!NewSession \/ P!Toggle
    PROVE  AlarmsSound'
<1>1. topic' = topic /\ Alarm' = Alarm BY DEF Alarm, P!NextLap, P!NewSession, P!Toggle
<1>2. CASE P!NextLap
  <2>1. UNCHANGED <<topic, spoken, now, crit, gate, told, ripe>> /\ due' = {} BY <1>2 DEF P!NextLap
  <2> QED BY <1>1, <2>1 DEF AlarmsSound, AlarmTypes, AlarmKey, Alarming
<1>3. CASE P!Toggle
  <2>1. /\ UNCHANGED <<topic, now, crit, gate, told>> /\ due' = {} /\ ripe' = -1
        /\ spoken' \in BOOLEAN
    BY <1>3 DEF P!Toggle, P!sensors, AlarmsSound, AlarmTypes
  <2> QED BY <1>1, <2>1 DEF AlarmsSound, AlarmTypes, AlarmKey
<1>4. CASE P!NewSession
  <2>1. /\ UNCHANGED <<topic, spoken>> /\ now' = 0 /\ crit' = P!Rest
        /\ gate' = P!NewGate /\ told' = P!Never /\ due' = {} /\ ripe' = -1
    BY <1>4 DEF P!NewSession, P!Forgotten
  <2>2. DOMAIN P!NewGate.last = {} /\ DOMAIN P!NewGate.worst = {} BY DEF P!NewGate
  <2>3. P!Never \in [P!Types -> Int] /\ P!Never["final_lap"] = -1 BY AlarmNames DEF P!Never
  <2>4. ~P!Rest.active BY DEF P!Rest
  <2> QED BY <2>1, <2>2, <2>3, <2>4 DEF AlarmsSound, AlarmTypes, AlarmKey
<1> QED BY <1>2, <1>3, <1>4

LEMMA AlarmsBegin ==
    ASSUME P!Init
    PROVE  AlarmsSound
<1>2. DOMAIN P!NewGate.last = {} /\ DOMAIN P!NewGate.worst = {} BY DEF P!NewGate
<1>3. P!Never \in [P!Types -> Int] /\ P!Never["final_lap"] = -1 BY AlarmNames DEF P!Never
<1>4. ~P!Rest.active BY DEF P!Rest
<1> QED BY <1>2, <1>3, <1>4 DEF P!Init, AlarmsSound, AlarmTypes, AlarmKey

-----------------------------------------------------------------------------
(* The race: each call once, halfway before the final lap.                 *)

\* What was said has been asked for, what was asked for while it could be
\* said was said, and no key is known that was not asked for.
RaceSound ==
    /\ now \in Nat /\ lap \in Nat /\ spoken \in BOOLEAN /\ ~odd /\ ripe = -1
    /\ told \in [P!Types -> Int] /\ \A t \in P!OneOff : told[t] <= now
    /\ DOMAIN gate.worst = DOMAIN gate.last /\ DOMAIN gate.last \subseteq done
    /\ due \subseteq done
    /\ \A t \in P!OneOff : told[t] # -1 => t \in done
    /\ ~unseen => \A t \in done : t \in spent \/ (t \in P!OneOff /\ told[t] # -1)
    /\ told["final_lap"] # -1 => lap >= RaceLaps /\ told["race_halfway"] < told["final_lap"]
    /\ done \subseteq P!OneOff

LEMMA CallsAreInOrder == RaceSound => P!RaceCallsInOrder
BY DEF RaceSound, P!RaceCallsInOrder

\* A lap is the final one or past halfway, not both.
LEMMA OneCallDue ==
    ASSUME lap \in Nat
    PROVE  \/ P!DueOn(lap) = {}
           \/ P!DueOn(lap) = {"final_lap"} /\ lap = RaceLaps
           \/ P!DueOn(lap) = {"race_halfway"} /\ lap < RaceLaps
<1>1. RaceLaps \in Nat BY LapsAssumption
<1>2. \A t \in P!DueOn(lap) : \/ t = "final_lap" /\ lap = RaceLaps
                              \/ t = "race_halfway" /\ lap < RaceLaps
  BY DEF P!DueOn
<1>3. CASE lap = RaceLaps
  <2>1. "race_halfway" \notin P!DueOn(lap) BY <1>1, <1>2, <1>3
  <2>2. "final_lap" \in P!DueOn(lap) BY <1>3 DEF P!DueOn, P!OneOff
  <2> QED BY <1>2, <1>3, <2>1, <2>2
<1>4. CASE lap # RaceLaps BY <1>2, <1>4
<1> QED BY <1>3, <1>4

LEMMA SeqOfOne ==
    ASSUME NEW r
    PROVE  P!SetToSeq({r}) = <<r>> /\ P!SetToSeq({}) = <<>>
<1>1. P!Cardinality({r}) = 1 /\ P!Cardinality({}) = 0
  <2>1. \A s : P!Cardinality(s) = Cardinality(s) BY DEF P!Cardinality, Cardinality
  <2> QED BY <2>1, FS_Singleton, FS_EmptySet
<1>2. [1..1 -> {r}] = {<<r>>}
  <2>1. <<r>> \in [1..1 -> {r}] OBVIOUS
  <2>2. \A f \in [1..1 -> {r}] : f = <<r>> OBVIOUS
  <2> QED BY <2>1, <2>2
<1>3. P!IsInjective(<<r>>) BY DEF P!IsInjective
<1>4. P!SetToSeq({r}) = <<r>> BY <1>1, <1>2, <1>3 DEF P!SetToSeq
<1>5. [1..0 -> {}] = {<<>>}
  <2>1. <<>> \in [1..0 -> {}] OBVIOUS
  <2>2. \A f \in [1..0 -> {}] : f = <<>> OBVIOUS
  <2> QED BY <2>1, <2>2
<1>6. P!IsInjective(<<>>) BY DEF P!IsInjective
<1>7. P!SetToSeq({}) = <<>> BY <1>1, <1>5, <1>6 DEF P!SetToSeq
<1> QED BY <1>4, <1>7

\* What is said was asked for.
LEMMA SaidWasAsked ==
    ASSUME NEW r, NEW at
    PROVE  /\ P!Range(P!Said(<<r>>, at).said) \subseteq {r}
           /\ P!Range(P!Said(<<>>, at).said) = {}
<1> DEFINE types == IF spoken THEN P!Types ELSE {}
           base == [gate |-> gate, said |-> <<>>]
           j == P!Judged(gate, <<r>>, at, types)
<1>1. j = AtTheGate(base, r, at, types) BY JudgedOne
<1>2. base.said = <<>> OBVIOUS
<1> HIDE DEF base
<1>3. j.said \in {<<>>, Append(<<>>, r)} BY <1>1, <1>2 DEF AtTheGate
<1>4. P!Range(j.said) \subseteq {r} BY <1>3, RangeOfOne
<1>5. P!Judged(gate, <<>>, at, types).said = <<>> BY JudgedNone
<1>6. P!Said(<<r>>, at) = j /\ P!Said(<<>>, at) = P!Judged(gate, <<>>, at, types) BY DEF P!Said
<1> QED BY <1>4, <1>5, <1>6, RangeOfOne

\* A packet that asks for nothing, or is not driven.
LEMMA NoCall ==
    ASSUME RaceSound, now' \in Nat, now <= now', ~odd', due' \subseteq done',
           UNCHANGED <<topic, spoken, lap, gate, ripe, unseen, done, spent>>,
           told' = [t \in P!Types |-> told[t]]
    PROVE  RaceSound'
<1>1. told' = told BY DEF RaceSound
<1>2. \A t \in P!OneOff : t \in P!Types BY DEF P!Types
<1>3. \A t \in P!OneOff : told'[t] <= now' BY <1>1, <1>2 DEF RaceSound
<1> QED BY <1>1, <1>3 DEF RaceSound

\* A call is asked for, for the first time.
LEMMA CallComes ==
    ASSUME RaceSound, now' \in Nat, now < now', ~odd', due' \subseteq done', NEW x \in P!OneOff,
           x \notin done, done' = done \cup {x},
           UNCHANGED <<topic, spoken, lap, ripe, unseen>>,
           x = "final_lap" => lap = RaceLaps, x = "race_halfway" => lap < RaceLaps,
           spent' = IF spoken THEN spent ELSE spent \cup {x},
           P!Says(P!Said(<<P!Request(x, x, 0)>>, now'), now')
    PROVE  RaceSound'
<1> DEFINE r == P!Request(x, x, 0)
<1>1. r.key = x /\ r.type = x BY DEF P!Request
<1>2. x \in P!Types /\ {"final_lap", "race_halfway"} \subseteq P!OneOff /\ P!OneOff \subseteq P!Types
  BY DEF P!Types, P!OneOff
<1>3. x \notin DOMAIN gate.last BY DEF RaceSound
<1>4. P!Passes(gate, r, now') BY <1>1, <1>3 DEF P!Passes
<1>5. PICK at \in Nat : at = now' OBVIOUS
<1>6. RaceLaps \in Nat /\ lap \in Nat /\ now \in Nat BY LapsAssumption DEF RaceSound
<1>7. told[x] = -1 /\ (x = "race_halfway" => told["final_lap"] = -1)
  BY <1>2, <1>6 DEF RaceSound
<1> HIDE DEF r
<1>8. CASE /\ spoken /\ gate' = P!Entered(gate, r, at)
           /\ told' = [t \in P!Types |-> IF t = x THEN at ELSE told[t]]
  <2>1. /\ DOMAIN gate'.last \subseteq DOMAIN gate.last \cup {r.key}
        /\ DOMAIN gate'.worst = DOMAIN gate'.last
    <3>1. PICK e : e = gate' OBVIOUS
    <3>2. e = P!Entered(gate, r, at) /\ DOMAIN gate.worst = DOMAIN gate.last
      BY <1>8, <3>1 DEF RaceSound
    <3>3. DOMAIN e.last \subseteq DOMAIN gate.last \cup {r.key} /\ DOMAIN e.worst = DOMAIN e.last
      BY <3>2, EnteredIs
    <3> QED BY <3>1, <3>3
  <2>2. told' \in [P!Types -> Int] /\ told'[x] = now'
        /\ \A t \in P!OneOff : t # x => told'[t] = told[t]
    BY <1>2, <1>5, <1>8 DEF RaceSound
  <2>3. \A t \in P!OneOff : told'[t] <= now'
    <3>1. \A t \in P!OneOff : told[t] \in Int /\ told[t] <= now BY <1>2 DEF RaceSound
    <3> QED BY <1>6, <2>2, <3>1
  <2>4. spent' = spent BY <1>8
  <2>5. ~unseen => \A t \in done' : t \in spent' \/ (t \in P!OneOff /\ told'[t] # -1)
    BY <2>2, <2>4, <1>5 DEF RaceSound
  <2>6. \A t \in P!OneOff : told'[t] # -1 => t \in done' BY <2>2 DEF RaceSound
  <2>7. told'["final_lap"] # -1 =>
           lap' >= RaceLaps /\ told'["race_halfway"] < told'["final_lap"]
    <3>1. CASE x = "final_lap"
      <4>1. told'["race_halfway"] = told["race_halfway"] /\ told["race_halfway"] \in Int
            /\ told["race_halfway"] <= now
        BY <1>2, <2>2, <3>1 DEF RaceSound
      <4> QED BY <1>6, <2>2, <3>1, <4>1
    <3>2. CASE x # "final_lap"
      <4>1. x = "race_halfway" BY <3>2 DEF P!OneOff
      <4> QED BY <1>2, <1>7, <2>2, <4>1
    <3> QED BY <3>1, <3>2
  <2> QED BY <1>1, <2>1, <2>2, <2>3, <2>5, <2>6, <2>7 DEF RaceSound
<1>9. CASE ~spoken /\ gate' = gate /\ told' = [t \in P!Types |-> told[t]]
  <2>1. told' = told BY <1>9 DEF RaceSound
  <2>2. \A t \in P!OneOff : told'[t] <= now'
    <3>1. \A t \in P!OneOff : told[t] \in Int /\ told[t] <= now BY <1>2 DEF RaceSound
    <3> QED BY <1>6, <2>1, <3>1
  <2>3. spent' = spent \cup {x} BY <1>9
  <2> QED BY <1>9, <2>1, <2>2, <2>3 DEF RaceSound
<1>10. P!Says(P!Said(<<r>>, at), at) BY <1>5 DEF r
<1> QED BY <1>1, <1>2, <1>4, <1>5, <1>8, <1>9, <1>10, SaysOne

LEMMA WatchRaceKept ==
    ASSUME RaceSound, NEW moving \in BOOLEAN, NEW loading \in BOOLEAN, NEW step \in 1..2,
           P!WatchRace(moving, loading, step)
    PROVE  RaceSound'
<1>1. /\ now' \in Nat /\ now < now' /\ now <= now' /\ UNCHANGED <<topic, spoken, lap, ripe, unseen>>
  BY DEF P!WatchRace, P!Tick, P!race, RaceSound
<1>2. CASE due' = {} /\ UNCHANGED <<done, gate, told, spent, odd>>
  <2>1. told' = [t \in P!Types |-> told[t]] /\ ~odd' BY <1>2 DEF RaceSound
  <2> QED BY <1>1, <1>2, <2>1, NoCall DEF RaceSound
<1>3. CASE LET requests == P!SetToSeq({P!Request(t, t, 0) : t \in P!RaceCalls})
               judged == P!Said(requests, now')
           IN /\ done' = done \cup P!RaceCalls
              /\ P!Says(judged, now')
              /\ spent' = (IF spoken THEN spent ELSE spent \cup P!RaceCalls)
              /\ due' = P!DueOn(lap)
              /\ odd' = (odd \/ \E r \in P!Range(judged.said) : told[r.type] # -1)
  <2>1. lap \in Nat /\ P!RaceCalls = {t \in P!DueOn(lap) : t \notin done}
    BY DEF RaceSound, P!RaceCalls
  <2>2. due' \subseteq done' BY <1>3, <2>1
  <2>3. CASE P!RaceCalls = {}
    <3>1. {P!Request(t, t, 0) : t \in P!RaceCalls} = {} BY <2>3
    <3>2. /\ done' = done /\ spent' = spent /\ P!Says(P!Said(<<>>, now'), now')
          /\ odd' = (odd \/ \E r \in P!Range(P!Said(<<>>, now').said) : told[r.type] # -1)
      BY <1>3, <2>3, <3>1, SeqOfOne
    <3>3. P!Range(P!Said(<<>>, now').said) = {} BY SaidWasAsked
    <3>4. ~odd' BY <3>2, <3>3 DEF RaceSound
    <3>5. gate' = gate /\ told' = [t \in P!Types |-> told[t]] BY <3>2, SaysNothing
    <3> QED BY <1>1, <2>2, <3>2, <3>4, <3>5, NoCall
  <2>4. ASSUME NEW x, P!RaceCalls = {x} PROVE RaceSound'
    <3>1. x \in P!OneOff /\ x \in P!DueOn(lap) /\ x \notin done
      BY <2>1, <2>4 DEF P!DueOn
    <3>2. (x = "final_lap" => lap = RaceLaps) /\ (x = "race_halfway" => lap < RaceLaps)
      BY <2>1, <3>1, OneCallDue
    <3> DEFINE r == P!Request(x, x, 0)
    <3>3. {P!Request(t, t, 0) : t \in P!RaceCalls} = {r} BY <2>4
    <3>4. P!SetToSeq({P!Request(t, t, 0) : t \in P!RaceCalls}) = <<r>> BY <3>3, SeqOfOne
    <3>5. /\ done' = done \cup {x} /\ P!Says(P!Said(<<r>>, now'), now')
          /\ spent' = (IF spoken THEN spent ELSE spent \cup {x})
          /\ odd' = (odd \/ \E q \in P!Range(P!Said(<<r>>, now').said) : told[q.type] # -1)
      BY <1>3, <2>4, <3>4
    <3>6. P!Range(P!Said(<<r>>, now').said) \subseteq {r} BY SaidWasAsked
    <3>7. r.type = x BY DEF P!Request
    <3>8. told[x] = -1 BY <3>1 DEF RaceSound
    <3>9. ~odd' BY <3>5, <3>6, <3>7, <3>8 DEF RaceSound
    <3> QED BY <1>1, <2>2, <3>1, <3>2, <3>5, <3>9, CallComes
  <2>5. P!RaceCalls = {} \/ \E x : P!RaceCalls = {x} BY <2>1, OneCallDue
  <2> QED BY <2>3, <2>4, <2>5
<1> QED BY <1>2, <1>3 DEF P!WatchRace

LEMMA AroundRace ==
    ASSUME RaceSound, topic = "race",
           P!NextLap \/ P!NewSession \/ P!Toggle \/ P!RestartUnseen
    PROVE  RaceSound'
<1>0. P!OneOff \subseteq P!Types BY DEF P!Types
<1>1. CASE P!NextLap
  <2>1. /\ UNCHANGED <<topic, spoken, now, odd, ripe, told, gate, done, spent, unseen>>
        /\ due' = {} /\ lap' = lap + 1
    BY <1>1 DEF P!NextLap
  <2>2. RaceLaps \in Nat BY LapsAssumption
  <2> QED BY <2>1, <2>2 DEF RaceSound
<1>2. CASE P!NewSession \/ P!RestartUnseen
  <2>1. /\ spoken' = spoken /\ odd' = odd /\ lap' = 1 /\ told' = P!Never /\ due' = {} /\ ripe' = -1
        /\ now' \in Nat /\ now' \in {0, now}
        /\ \/ gate' = P!NewGate /\ done' = {}
           \/ gate' = gate /\ done' = done /\ unseen' = TRUE
    BY <1>2 DEF P!NewSession, P!RestartUnseen, P!Forgotten, P!sensors, RaceSound
  <2>2. DOMAIN P!NewGate.last = {} /\ DOMAIN P!NewGate.worst = {} BY DEF P!NewGate
  <2>3. P!Never \in [P!Types -> Int] /\ \A t \in P!OneOff : P!Never[t] = -1 BY <1>0 DEF P!Never
  <2>4. "final_lap" \in P!OneOff BY DEF P!OneOff
  <2> QED BY <2>1, <2>2, <2>3, <2>4 DEF RaceSound
<1>3. CASE P!Toggle
  <2>1. /\ UNCHANGED <<topic, now, lap, gate, told, odd, done, spent, unseen>>
        /\ due' = {} /\ ripe' = -1 /\ spoken' \in BOOLEAN
    BY <1>3 DEF P!Toggle, P!race, RaceSound
  <2> QED BY <2>1 DEF RaceSound
<1> QED BY <1>1, <1>2, <1>3

LEMMA RaceBegins ==
    ASSUME P!Init
    PROVE  RaceSound
<1>0. P!OneOff \subseteq P!Types BY DEF P!Types
<1>1. DOMAIN P!NewGate.last = {} /\ DOMAIN P!NewGate.worst = {} BY DEF P!NewGate
<1>2. P!Never \in [P!Types -> Int] /\ \A t \in P!OneOff : P!Never[t] = -1 BY <1>0 DEF P!Never
<1>3. "final_lap" \in P!OneOff BY DEF P!OneOff
<1>4. lap \in Nat BY LapsAssumption DEF P!Init
<1> QED BY <1>1, <1>2, <1>3, <1>4 DEF P!Init, RaceSound

-----------------------------------------------------------------------------
(* Positions: the watcher counts the readings of a run.                    *)

\* A watcher that has read nothing, and the run of nothing.
NoReadings(w, q) ==
    /\ w \in [committed : Nat, candidate : Nat, ticks : Nat] /\ w.committed = w.candidate
    /\ q \in [position : Nat, length : Nat] /\ q.position = w.candidate

PositionSound ==
    /\ now \in Nat /\ ~odd /\ due = {} /\ ripe = -1
    /\ told \in [P!Types -> Int] /\ told["final_lap"] = -1
    /\ watcher \in [committed : Nat, candidate : Nat, ticks : Nat]
    /\ run \in [position : Nat, length : Nat] /\ run.position = watcher.candidate
    /\ watcher.candidate # watcher.committed =>
          /\ watcher.ticks < PositionHold \/ watcher.ticks = 0
          /\ run.length = watcher.ticks + 1

LEMMA CountAgain ==
    ASSUME NEW x \in [committed : Nat, candidate : Nat, ticks : Nat],
           NEW w, w = [x EXCEPT !.ticks = 0]
    PROVE  /\ w.committed = x.committed /\ w.candidate = x.candidate /\ w.ticks = 0
           /\ w \in [committed : Nat, candidate : Nat, ticks : Nat]
OBVIOUS

\* A position is committed when it was read PositionHold times after the first.
LEMMA ReadTwice ==
    ASSUME PositionSound, NEW p \in Nat, p # 0, NEW w, w = P!Watching(watcher, p),
           NEW q, q = IF run.position = p
                      THEN [run EXCEPT !.length = P!Min({run.length + 1, PositionHold + 1})]
                      ELSE [position |-> p, length |-> 1]
    PROVE  /\ w \in [committed : Nat, candidate : Nat, ticks : Nat]
           /\ q \in [position : Nat, length : Nat] /\ q.position = w.candidate
           /\ w.candidate # w.committed =>
                 (w.ticks < PositionHold \/ w.ticks = 0) /\ q.length = w.ticks + 1
           /\ watcher.committed # 0 /\ w.committed # watcher.committed => q.length > PositionHold
<1>1. PositionHold \in Nat BY PacketsAssumption
<1>2. /\ watcher \in [committed : Nat, candidate : Nat, ticks : Nat]
      /\ run \in [position : Nat, length : Nat] /\ run.position = watcher.candidate
  BY DEF PositionSound
<1>3. ASSUME NEW a \in Nat, NEW b \in Nat PROVE P!Min({a, b}) = IF a <= b THEN a ELSE b
  BY DEF P!Min
<1>4. CASE watcher.committed = 0
  <2>1. w = [watcher EXCEPT !.committed = p, !.candidate = p] BY <1>4 DEF P!Watching
  <2>2. /\ w.committed = p /\ w.candidate = p
        /\ w \in [committed : Nat, candidate : Nat, ticks : Nat]
    BY <1>2, <2>1
  <2>3. q \in [position : Nat, length : Nat] /\ q.position = p
    <3>1. P!Min({run.length + 1, PositionHold + 1}) \in Nat BY <1>1, <1>2, <1>3
    <3> QED BY <1>2, <3>1
  <2> QED BY <1>4, <2>2, <2>3
<1>5. CASE watcher.committed # 0 /\ p # watcher.candidate
  <2>1. w = [watcher EXCEPT !.candidate = p, !.ticks = 0] BY <1>5 DEF P!Watching
  <2>2. /\ w.committed = watcher.committed /\ w.candidate = p /\ w.ticks = 0
        /\ w \in [committed : Nat, candidate : Nat, ticks : Nat]
    <3> DEFINE x == [watcher EXCEPT !.candidate = p]
    <3>1. /\ x \in [committed : Nat, candidate : Nat, ticks : Nat]
          /\ x.committed = watcher.committed /\ x.candidate = p
      BY <1>2
    <3>2. w = [x EXCEPT !.ticks = 0] BY <2>1
    <3> HIDE DEF x
    <3> QED BY <3>1, <3>2, CountAgain
  <2>3. q = [position |-> p, length |-> 1] BY <1>2, <1>5
  <2> QED BY <2>2, <2>3
<1>6. CASE watcher.committed # 0 /\ p = watcher.candidate
  <2>1. q = [run EXCEPT !.length = P!Min({run.length + 1, PositionHold + 1})] BY <1>2, <1>6
  <2>2. /\ q.position = p
        /\ q.length = IF run.length + 1 <= PositionHold + 1 THEN run.length + 1 ELSE PositionHold + 1
        /\ q \in [position : Nat, length : Nat]
    <3>1. P!Min({run.length + 1, PositionHold + 1}) =
             IF run.length + 1 <= PositionHold + 1 THEN run.length + 1 ELSE PositionHold + 1
      BY <1>1, <1>2, <1>3
    <3> QED BY <1>1, <1>2, <1>6, <2>1, <3>1
  <2>3. CASE p = watcher.committed
    <3>1. w = watcher BY <1>6, <2>3 DEF P!Watching
    <3> QED BY <1>2, <1>6, <2>2, <2>3, <3>1
  <2>4. CASE p # watcher.committed
    <3>1. (watcher.ticks < PositionHold \/ watcher.ticks = 0) /\ run.length = watcher.ticks + 1
      BY <1>6, <2>4 DEF PositionSound
    <3>2. CASE watcher.ticks + 1 < PositionHold
      <4>1. w = [watcher EXCEPT !.ticks = watcher.ticks + 1] BY <1>6, <2>4, <3>2 DEF P!Watching
      <4>2. /\ w.committed = watcher.committed /\ w.candidate = p /\ w.ticks = watcher.ticks + 1
            /\ w \in [committed : Nat, candidate : Nat, ticks : Nat]
        BY <1>2, <1>6, <4>1
      <4>3. q.length = run.length + 1 BY <1>1, <1>2, <2>2, <3>1, <3>2
      <4> QED BY <1>1, <1>2, <2>2, <3>1, <3>2, <4>2, <4>3
    <3>3. CASE ~(watcher.ticks + 1 < PositionHold)
      <4>1. w = [watcher EXCEPT !.committed = p, !.ticks = 0] BY <1>6, <2>4, <3>3 DEF P!Watching
      <4>2. /\ w.committed = p /\ w.candidate = p
            /\ w \in [committed : Nat, candidate : Nat, ticks : Nat]
        <5> DEFINE x == [watcher EXCEPT !.committed = p]
        <5>1. /\ x \in [committed : Nat, candidate : Nat, ticks : Nat]
              /\ x.committed = p /\ x.candidate = p
          BY <1>2, <1>6
        <5>2. w = [x EXCEPT !.ticks = 0] BY <4>1
        <5> HIDE DEF x
        <5> QED BY <5>1, <5>2, CountAgain
      <4>3. q.length > PositionHold BY <1>1, <1>2, <2>2, <3>1, <3>3
      <4> QED BY <2>2, <4>2, <4>3
    <3> QED BY <3>2, <3>3
  <2> QED BY <2>3, <2>4
<1> QED BY <1>4, <1>5, <1>6

LEMMA WatchPositionKept ==
    ASSUME PositionSound, NEW moving \in BOOLEAN, NEW p \in 0..MaxPosition, NEW step \in 1..2,
           P!WatchPosition(moving, p, step)
    PROVE  PositionSound'
<1> DEFINE read == moving /\ p # 0
           after == IF moving THEN P!Watching(watcher, p) ELSE watcher
           event == watcher.committed # 0 /\ after.committed # watcher.committed
<1>1. /\ watcher' = after
      /\ run' = (IF ~read THEN run
                 ELSE IF run.position = p
                      THEN [run EXCEPT !.length = P!Min({run.length + 1, PositionHold + 1})]
                 ELSE [position |-> p, length |-> 1])
      /\ odd' = (odd \/ (event /\ run'.length <= PositionHold))
  BY DEF P!WatchPosition
<1>2. now' \in Nat /\ UNCHANGED <<topic, due, ripe>>
  BY DEF P!WatchPosition, P!Tick, PositionSound
<1>3. told' \in [P!Types -> Int] /\ told'["final_lap"] = -1
  <2>1. CASE UNCHANGED told BY <2>1 DEF PositionSound
  <2>2. CASE P!Says(P!Said(<<P!Request("position", p, 0)>>, now), now)
    <3>1. P!Request("position", p, 0).type = "position" /\ "position" # "final_lap" BY DEF P!Request
    <3>2. "final_lap" \in P!Types BY AlarmNames
    <3> QED BY <2>2, <3>1, <3>2, SaysOne DEF PositionSound
  <2> QED BY <2>1, <2>2 DEF P!WatchPosition
<1>4. CASE ~read
  <2>1. after = watcher BY <1>4 DEF P!Watching
  <2> QED BY <1>1, <1>2, <1>3, <1>4, <2>1 DEF PositionSound
<1>5. CASE read
  <2>1. p \in Nat /\ p # 0 /\ watcher' = P!Watching(watcher, p) BY <1>1, <1>5
  <2>2. PICK w, q : w = watcher' /\ q = run' OBVIOUS
  <2>3. /\ w = P!Watching(watcher, p)
        /\ q = IF run.position = p
               THEN [run EXCEPT !.length = P!Min({run.length + 1, PositionHold + 1})]
               ELSE [position |-> p, length |-> 1]
    BY <1>1, <1>5, <2>1, <2>2
  <2>4. /\ w \in [committed : Nat, candidate : Nat, ticks : Nat]
        /\ q \in [position : Nat, length : Nat] /\ q.position = w.candidate
        /\ w.candidate # w.committed =>
              (w.ticks < PositionHold \/ w.ticks = 0) /\ q.length = w.ticks + 1
        /\ watcher.committed # 0 /\ w.committed # watcher.committed => q.length > PositionHold
    BY <2>1, <2>3, ReadTwice
  <2>5. event => ~(run'.length <= PositionHold)
    <3>1. PositionHold \in Nat BY PacketsAssumption
    <3> QED BY <1>1, <2>2, <2>4, <3>1
  <2>6. ~odd' BY <1>1, <2>5 DEF PositionSound
  <2> QED BY <1>2, <1>3, <2>2, <2>4, <2>6 DEF PositionSound
<1> QED BY <1>4, <1>5

LEMMA PositionFresh == NoReadings(P!NoReading, P!NoRun)
BY DEF NoReadings, P!NoReading, P!NoRun

LEMMA AroundPosition ==
    ASSUME PositionSound, topic = "position", P!NextLap \/ P!NewSession \/ P!Toggle
    PROVE  PositionSound'
<1>1. ~P!NextLap BY DEF P!NextLap
<1>2. CASE P!Toggle
  BY <1>2 DEF P!Toggle, PositionSound
<1>3. CASE P!NewSession
  <2>1. /\ odd' = odd /\ now' = 0 /\ told' = P!Never /\ due' = {} /\ ripe' = -1
        /\ watcher' = P!NoReading /\ run' = P!NoRun
    BY <1>3 DEF P!NewSession, P!Forgotten
  <2>2. P!Never \in [P!Types -> Int] /\ P!Never["final_lap"] = -1 BY AlarmNames DEF P!Never
  <2> QED BY <2>1, <2>2, PositionFresh DEF PositionSound, NoReadings
<1> QED BY <1>1, <1>2, <1>3

LEMMA PositionBegins ==
    ASSUME P!Init
    PROVE  PositionSound
<1>1. P!Never \in [P!Types -> Int] /\ P!Never["final_lap"] = -1 BY AlarmNames DEF P!Never
<1> QED BY <1>1, PositionFresh DEF P!Init, PositionSound, NoReadings

-----------------------------------------------------------------------------
(* Whatever the behaviour is about.                                        *)

CallsSound ==
    /\ topic \in P!Topics
    /\ topic \in P!Watched => AlarmsSound
    /\ topic = "race" => RaceSound
    /\ topic = "position" => PositionSound

LEMMA Topics ==
    /\ P!Topics = P!Watched \cup {"race", "position"}
    /\ "race" \notin P!Watched /\ "position" \notin P!Watched
BY DEF P!Topics, P!Watched

LEMMA CallsKept == CallsSound /\ [P!Next]_(P!vars) => CallsSound'
<1> SUFFICES ASSUME CallsSound, [P!Next]_(P!vars) PROVE CallsSound' OBVIOUS
<1>1. CASE UNCHANGED P!vars
  <2>1. UNCHANGED <<topic, spoken, now, warn, crit, lap, done, watcher, gate, told, spent, ripe, due,
                    run, odd, unseen>>
    BY <1>1 DEF P!vars, P!sensors, P!race, P!counters, P!history
  <2>2. AlarmsSound => AlarmsSound'
    <3>1. Alarm' = Alarm BY <2>1 DEF Alarm
    <3> QED BY <2>1, <3>1 DEF AlarmsSound, AlarmTypes, AlarmKey, Alarming
  <2>3. RaceSound => RaceSound' BY <2>1 DEF RaceSound
  <2>4. PositionSound => PositionSound' BY <2>1 DEF PositionSound
  <2> QED BY <2>1, <2>2, <2>3, <2>4 DEF CallsSound
<1>2. ASSUME NEW moving \in BOOLEAN, NEW step \in 1..2, NEW loading \in BOOLEAN, NEW level \in 0..4,
             P!Watch(moving, loading, level, step)
      PROVE  CallsSound'
  <2>1. topic' = topic /\ topic \in P!Watched BY <1>2 DEF P!Watch
  <2>2. AlarmsSound' BY <1>2, <2>1, WatchKept DEF CallsSound
  <2> QED BY <2>1, <2>2, Topics DEF CallsSound
<1>3. ASSUME NEW moving \in BOOLEAN, NEW step \in 1..2, NEW loading \in BOOLEAN,
             P!WatchRace(moving, loading, step)
      PROVE  CallsSound'
  <2>1. topic' = topic /\ topic = "race" BY <1>3 DEF P!WatchRace
  <2>2. RaceSound' BY <1>3, <2>1, WatchRaceKept DEF CallsSound
  <2> QED BY <2>1, <2>2, Topics DEF CallsSound
<1>4. ASSUME NEW moving \in BOOLEAN, NEW step \in 1..2, NEW p \in 0..MaxPosition,
             P!WatchPosition(moving, p, step)
      PROVE  CallsSound'
  <2>1. topic' = topic /\ topic = "position" BY <1>4 DEF P!WatchPosition
  <2>2. PositionSound' BY <1>4, <2>1, WatchPositionKept DEF CallsSound
  <2> QED BY <2>1, <2>2, Topics DEF CallsSound
<1>5. CASE P!NextLap \/ P!NewSession \/ P!Toggle \/ P!RestartUnseen
  <2>1. topic' = topic /\ (P!RestartUnseen => topic = "race")
    BY <1>5 DEF P!NextLap, P!NewSession, P!Toggle, P!RestartUnseen
  <2>2. topic \in P!Watched => AlarmsSound' BY <1>5, <2>1, Topics, AroundAlarms DEF CallsSound
  <2>3. topic = "race" => RaceSound' BY <1>5, AroundRace DEF CallsSound
  <2>4. topic = "position" => PositionSound' BY <1>5, <2>1, AroundPosition DEF CallsSound
  <2> QED BY <2>1, <2>2, <2>3, <2>4 DEF CallsSound
<1> QED BY <1>1, <1>2, <1>3, <1>4, <1>5 DEF P!Next, P!Packet

LEMMA CallsHold == CallsSound => P!CriticalIsHeard /\ P!RaceCallsInOrder
<1> SUFFICES ASSUME CallsSound PROVE P!CriticalIsHeard /\ P!RaceCallsInOrder OBVIOUS
<1>1. CASE topic \in P!Watched
  <2>1. AlarmsSound BY <1>1 DEF CallsSound
  <2>2. P!RaceCallsInOrder BY <1>1, <2>1, Topics DEF P!RaceCallsInOrder, AlarmsSound, AlarmTypes
  <2> QED BY <2>1, <2>2, AlarmsAreHeard
<1>2. CASE topic = "race"
  <2>1. RaceSound BY <1>2 DEF CallsSound
  <2>2. ripe = -1 BY <2>1 DEF RaceSound
  <2> QED BY <2>1, <2>2, CallsAreInOrder DEF P!CriticalIsHeard
<1>3. CASE topic = "position"
  <2>1. PositionSound BY <1>3 DEF CallsSound
  <2>2. P!RaceCallsInOrder BY <2>1 DEF P!RaceCallsInOrder, PositionSound
  <2> QED BY <2>1, <2>2 DEF P!CriticalIsHeard, PositionSound
<1> QED BY <1>1, <1>2, <1>3, Topics DEF CallsSound

LEMMA CallsAlways == P!Spec => []CallsSound
<1>1. P!Init => CallsSound
  <2> SUFFICES ASSUME P!Init PROVE CallsSound OBVIOUS
  <2>1. topic \in P!Topics BY DEF P!Init
  <2> QED BY <2>1, AlarmsBegin, RaceBegins, PositionBegins DEF CallsSound
<1> QED BY <1>1, CallsKept, PTL DEF P!Spec

\* While an engine or a tank is critical and the driver can hear of it, it has
\* been called so, and is called again every cooldown, whatever was called
\* before (EngineDetector, FuelDetector and _emit).
THEOREM WhatIsCriticalIsHeard == P!Spec => []CriticalIsHeard
<1>1. CallsSound => CriticalIsHeard BY CallsHold DEF CriticalIsHeard
<1> QED BY <1>1, CallsAlways, PTL

\* The calls of a race come once a session and in order, and a position's when
\* it has held, however long the race and whatever is switched on the way
\* (RaceDetector, LiveEventWatcher and _emit).
THEOREM RaceIsCalledInOrder == P!Spec => []RaceCallsInOrder
<1>1. CallsSound => RaceCallsInOrder BY CallsHold DEF RaceCallsInOrder
<1> QED BY <1>1, CallsAlways, PTL

-----------------------------------------------------------------------------
(* What is said as a lap ends.  The gate of these calls is another one,    *)
(* which may be asked for two things at once.                              *)

LapGate(a, r, at, types) ==
    IF r.type \in types /\ L!Passes(a.gate, r, at)
    THEN [gate |-> L!Entered(a.gate, r, at), said |-> Append(a.said, r)]
    ELSE a

LapRounds(it, base, q, at, types) ==
    [s \in SUBSET DOMAIN q |->
        IF s = {} THEN base
        ELSE LapGate(it[s \ {L!Max(s)}], q[L!Max(s)], at, types)]

LEMMA LapJudgedIs ==
    ASSUME NEW g, NEW q, NEW at, NEW types
    PROVE  L!Judged(g, q, at, types) =
              (CHOOSE it : it = LapRounds(it, [gate |-> g, said |-> <<>>], q, at, types))[DOMAIN q]
BY DEF L!Judged, L!FoldLeft, L!MapThenFoldSet, LapRounds, LapGate

LEMMA LapJudgedNone ==
    ASSUME NEW g, NEW at, NEW types
    PROVE  L!Judged(g, <<>>, at, types) = [gate |-> g, said |-> <<>>]
<1> DEFINE base == [gate |-> g, said |-> <<>>]
           w == [s \in SUBSET {} |-> base]
           it == CHOOSE i : i = LapRounds(i, base, <<>>, at, types)
<1>1. DOMAIN <<>> = {} OBVIOUS
<1>2. \A i : LapRounds(i, base, <<>>, at, types) = w
  <2>1. \A s \in SUBSET {} : s = {} OBVIOUS
  <2> QED BY <1>1, <2>1 DEF LapRounds
<1> HIDE DEF base
<1>3. w[{}] = base OBVIOUS
<1> HIDE DEF w
<1>4. w = LapRounds(w, base, <<>>, at, types) BY <1>2
<1>5. it = LapRounds(it, base, <<>>, at, types) BY <1>4
<1>6. it = w BY <1>2, <1>5
<1>7. L!Judged(g, <<>>, at, types) = it[DOMAIN <<>>] BY LapJudgedIs DEF base
<1> QED BY <1>1, <1>3, <1>6, <1>7 DEF base

LEMMA LapJudgedOne ==
    ASSUME NEW g, NEW r, NEW at, NEW types
    PROVE  L!Judged(g, <<r>>, at, types) = LapGate([gate |-> g, said |-> <<>>], r, at, types)
<1> DEFINE base == [gate |-> g, said |-> <<>>]
           last == LapGate(base, r, at, types)
           w == [s \in SUBSET {1} |-> IF s = {} THEN base ELSE last]
           it == CHOOSE i : i = LapRounds(i, base, <<r>>, at, types)
<1>1. DOMAIN <<r>> = {1} /\ <<r>>[1] = r OBVIOUS
<1>2. \A s \in SUBSET {1} : s = {} \/ (s = {1} /\ L!Max(s) = 1 /\ s \ {L!Max(s)} = {})
  <2>1. L!Max({1}) = 1 BY DEF L!Max
  <2> QED BY <2>1
<1> HIDE DEF base, last
<1>3. ASSUME NEW i, i[{}] = base PROVE LapRounds(i, base, <<r>>, at, types) = w
  <2>1. \A s \in SUBSET {1} : s # {} =>
           LapGate(i[s \ {L!Max(s)}], <<r>>[L!Max(s)], at, types) = last
    BY <1>1, <1>2, <1>3 DEF last
  <2> QED BY <1>1, <2>1 DEF LapRounds
<1>4. w[{}] = base /\ w[{1}] = last OBVIOUS
<1>5. \A i : LapRounds(i, base, <<r>>, at, types)[{}] = base BY DEF LapRounds
<1> HIDE DEF w
<1>6. w = LapRounds(w, base, <<r>>, at, types) BY <1>3, <1>4
<1>7. it = LapRounds(it, base, <<r>>, at, types) BY <1>6
<1> HIDE DEF it
<1>8. it = w BY <1>3, <1>5, <1>7
<1>9. L!Judged(g, <<r>>, at, types) = it[DOMAIN <<r>>] BY LapJudgedIs DEF base, it
<1> QED BY <1>1, <1>4, <1>8, <1>9 DEF base, last

LEMMA LapJudgedTwo ==
    ASSUME NEW g, NEW r, NEW q, NEW at, NEW types
    PROVE  L!Judged(g, <<r, q>>, at, types) =
              LapGate(LapGate([gate |-> g, said |-> <<>>], r, at, types), q, at, types)
<1> DEFINE base == [gate |-> g, said |-> <<>>]
           one == LapGate(base, r, at, types)
           other == LapGate(base, q, at, types)
           both == LapGate(one, q, at, types)
           w == [s \in SUBSET {1, 2} |-> IF s = {} THEN base ELSE IF s = {1} THEN one
                                         ELSE IF s = {2} THEN other ELSE both]
           it == CHOOSE i : i = LapRounds(i, base, <<r, q>>, at, types)
<1>1. DOMAIN <<r, q>> = {1, 2} /\ <<r, q>>[1] = r /\ <<r, q>>[2] = q OBVIOUS
<1>2. /\ L!Max({1}) = 1 /\ L!Max({2}) = 2 /\ L!Max({1, 2}) = 2
      /\ {1} \ {1} = {} /\ {2} \ {2} = {} /\ {1, 2} \ {2} = {1}
  BY DEF L!Max
<1>3. \A s \in SUBSET {1, 2} : s = {} \/ s = {1} \/ s = {2} \/ s = {1, 2} OBVIOUS
<1> HIDE DEF base, one, other, both
<1>4. w[{}] = base /\ w[{1}] = one OBVIOUS
<1>5. ASSUME NEW i, i[{}] = base, i[{1}] = one PROVE LapRounds(i, base, <<r, q>>, at, types) = w
  <2>1. /\ LapGate(i[{1} \ {L!Max({1})}], <<r, q>>[L!Max({1})], at, types) = one
        /\ LapGate(i[{2} \ {L!Max({2})}], <<r, q>>[L!Max({2})], at, types) = other
        /\ LapGate(i[{1, 2} \ {L!Max({1, 2})}], <<r, q>>[L!Max({1, 2})], at, types) = both
    BY <1>1, <1>2, <1>5 DEF one, other, both
  <2>2. {1} # {2} /\ {1} # {1, 2} /\ {2} # {1, 2} OBVIOUS
  <2>3. \A s \in SUBSET {1, 2} : w[s] = IF s = {} THEN base
           ELSE LapGate(i[s \ {L!Max(s)}], <<r, q>>[L!Max(s)], at, types)
    <3>1. w[{}] = base /\ w[{1}] = one /\ w[{2}] = other /\ w[{1, 2}] = both BY <2>2
    <3> HIDE DEF w
    <3> QED BY <1>3, <2>1, <3>1
  <2>4. w = [s \in SUBSET {1, 2} |-> w[s]] OBVIOUS
  <2> HIDE DEF w
  <2> QED BY <1>1, <2>3, <2>4 DEF LapRounds
<1>6. \A i : LapRounds(i, base, <<r, q>>, at, types)[{}] = base BY DEF LapRounds
<1>7. ASSUME NEW i, i[{}] = base PROVE LapRounds(i, base, <<r, q>>, at, types)[{1}] = one
  BY <1>1, <1>2, <1>7 DEF LapRounds, one
<1> HIDE DEF w
<1>8. w = LapRounds(w, base, <<r, q>>, at, types) BY <1>4, <1>5
<1>9. it = LapRounds(it, base, <<r, q>>, at, types) BY <1>8
<1> HIDE DEF it
<1>10. it[{}] = base BY <1>6, <1>9
<1>11. it[{1}] = one BY <1>7, <1>9, <1>10
<1>12. it = w BY <1>5, <1>9, <1>10, <1>11
<1>13. w[{1, 2}] = both
  <2>1. {1, 2} # {} /\ {1, 2} # {1} /\ {1, 2} # {2} OBVIOUS
  <2> QED BY <2>1 DEF w
<1>14. L!Judged(g, <<r, q>>, at, types) = it[DOMAIN <<r, q>>] BY LapJudgedIs DEF base, it
<1> QED BY <1>1, <1>12, <1>13, <1>14 DEF base, one, both

\* What enters is remembered with its worst severity; of the rest nothing is
\* new, and nothing gets worse.
Entering(g, r, e) ==
    /\ DOMAIN e.worst = DOMAIN e.last
    /\ \A k \in DOMAIN e.last : k = r.key \/ (k \in DOMAIN g.last /\ e.worst[k] = g.worst[k])
    /\ r.key \in DOMAIN e.last /\ e.worst[r.key] = L!Max({L!Severity(g, r.key), r.severity})

LEMMA LapEnters ==
    ASSUME NEW g, NEW r, NEW at \in Nat, DOMAIN g.worst = DOMAIN g.last,
           NEW e, e = L!Entered(g, r, at)
    PROVE  Entering(g, r, e)
<1> DEFINE keys == DOMAIN g.last \cup {r.key}
           last == [k \in keys |-> IF k = r.key THEN at ELSE g.last[k]]
           worst == [k \in keys |-> IF k = r.key THEN L!Max({L!Severity(g, k), r.severity})
                                    ELSE g.worst[k]]
           kept == {k \in keys : at - last[k] <= Forgets}
           h == [last |-> last, worst |-> worst]
<1>1. e = L!Pruned(h, at) BY DEF L!Entered
<1>2. r.key \in kept BY PacketsAssumption
<1>3. DOMAIN last = keys /\ DOMAIN worst = keys OBVIOUS
<1>4. /\ worst[r.key] = L!Max({L!Severity(g, r.key), r.severity})
      /\ \A k \in keys : k # r.key => k \in DOMAIN g.last /\ worst[k] = g.worst[k]
  OBVIOUS
<1>5. kept = {k \in DOMAIN h.last : at - h.last[k] <= Forgets} BY <1>3
<1>6. kept \subseteq keys OBVIOUS
<1> HIDE DEF kept, last, worst, keys
<1>7. h.last = last /\ h.worst = worst OBVIOUS
<1>8. \/ e = h
      \/ e = [last |-> L!Restrict(last, kept), worst |-> L!Restrict(worst, kept)]
  BY <1>1, <1>5, <1>7 DEF L!Pruned
<1>9. CASE e = h BY <1>2, <1>3, <1>4, <1>6, <1>7, <1>9 DEF Entering
<1>10. CASE e = [last |-> L!Restrict(last, kept), worst |-> L!Restrict(worst, kept)]
  <2>1. e.last = [k \in kept |-> last[k]] /\ e.worst = [k \in kept |-> worst[k]]
    BY <1>10 DEF L!Restrict
  <2> QED BY <2>1, <1>2, <1>4, <1>6 DEF Entering
<1> QED BY <1>8, <1>9, <1>10

-----------------------------------------------------------------------------
(* The strategy: what of the calls the driver has heard.                   *)

FuelKey == <<"fuel_short", 0>>
Open == "pit_window_open"

\* The types of the requests that were said.
SaidTypes(a) == {x.type : x \in L!Range(a.said)}

Spoken(a) == \E any : a.said \in Seq(any)

\* A gate with what was said through it, T the types said before: the keys it
\* knows have a severity, and of an open pit window it was told.
Kept(a, T) ==
    /\ DOMAIN a.gate.worst = DOMAIN a.gate.last
    /\ \A k \in DOMAIN a.gate.last :
           a.gate.worst[k] \in Nat /\ (k[1] = Open => Open \in T \cup SaidTypes(a))
    /\ Spoken(a)

Asked(r) == r.key[1] = r.type /\ r.severity \in Nat

\* What a request of a spoken category leaves.
Taken(a, r, f) ==
    /\ r.key \notin DOMAIN a.gate.last \/ r.severity > a.gate.worst[r.key] =>
           r.type \in SaidTypes(f) /\ f.gate.worst[r.key] = r.severity
    /\ r.key \in DOMAIN a.gate.last \/ r.type \in SaidTypes(f)

\* And of any: what was said is said, no other key is new or gets worse.
Followed(a, r, f) ==
    /\ SaidTypes(a) \subseteq SaidTypes(f) /\ SaidTypes(f) \subseteq SaidTypes(a) \cup {r.type}
    /\ \A k \in DOMAIN f.gate.last :
           k = r.key \/ (k \in DOMAIN a.gate.last /\ f.gate.worst[k] = a.gate.worst[k])

LEMMA SaidOneMore ==
    ASSUME NEW a, Spoken(a), NEW r, NEW f, f.said = Append(a.said, r)
    PROVE  Spoken(f) /\ SaidTypes(f) = SaidTypes(a) \cup {r.type}
<1> DEFINE n == Len(a.said)
<1>1. PICK any : a.said \in Seq(any) BY DEF Spoken
<1>2. a.said \in Seq(any \cup {r}) BY <1>1
<1>3. f.said \in Seq(any \cup {r}) BY <1>2
<1>4. n \in Nat /\ DOMAIN a.said = 1..n BY <1>1
<1>5. DOMAIN f.said = 1..(n + 1) /\ f.said[n + 1] = r BY <1>2
<1>6. \A i \in 1..n : f.said[i] = a.said[i] BY <1>2
<1>7. L!Range(f.said) = L!Range(a.said) \cup {r}
  <2>1. L!Range(f.said) = {f.said[i] : i \in 1..(n + 1)} BY <1>5 DEF L!Range
  <2>2. L!Range(a.said) = {a.said[i] : i \in 1..n} BY <1>4 DEF L!Range
  <2> HIDE DEF n
  <2>3. \A i \in 1..(n + 1) : i \in 1..n \/ i = n + 1 BY <1>4
  <2>4. \A i \in 1..n : i \in 1..(n + 1) BY <1>4
  <2>5. n + 1 \in 1..(n + 1) BY <1>4
  <2> QED BY <2>1, <2>2, <2>3, <2>4, <2>5, <1>5, <1>6
<1> QED BY <1>3, <1>7 DEF SaidTypes, Spoken

LEMMA TheWorse ==
    ASSUME NEW x \in Nat, NEW y \in Nat
    PROVE  /\ L!Max({x, y}) \in Nat
           /\ (x < y \/ x = y) => L!Max({x, y}) = y
BY DEF L!Max

LEMMA GateFollows ==
    ASSUME NEW a, NEW T, Kept(a, T), NEW r, Asked(r), NEW at \in Nat, NEW types,
           NEW f, f = LapGate(a, r, at, types)
    PROVE  /\ Kept(f, T) /\ Followed(a, r, f)
           /\ r.type \in types => Taken(a, r, f)
           /\ r.type \notin types => f = a
<1>1. DOMAIN a.gate.worst = DOMAIN a.gate.last BY DEF Kept
<1>2. Spoken(a) BY DEF Kept
<1>3. CASE r.type \in types /\ L!Passes(a.gate, r, at)
  <2> DEFINE g == a.gate
             e == L!Entered(a.gate, r, at)
  <2>1. f = [gate |-> e, said |-> Append(a.said, r)] BY <1>3 DEF LapGate
  <2>2. f.gate = e /\ f.said = Append(a.said, r) BY <2>1
  <2>3. Entering(g, r, e) BY <1>1, LapEnters
  <2>4. Spoken(f) /\ SaidTypes(f) = SaidTypes(a) \cup {r.type}
    BY <1>2, <2>2, SaidOneMore
  <2>5. r.severity \in Nat /\ r.key[1] = r.type BY DEF Asked
  <2>6. L!Severity(g, r.key) \in Nat BY <1>1 DEF L!Severity, Kept
  <2>7. e.worst[r.key] = L!Max({L!Severity(g, r.key), r.severity}) BY <2>3 DEF Entering
  <2>8. e.worst[r.key] \in Nat BY <2>5, <2>6, <2>7, TheWorse
  <2>9. r.key \notin DOMAIN g.last \/ r.severity > g.worst[r.key] => e.worst[r.key] = r.severity
    <3>1. r.key \notin DOMAIN g.last => L!Severity(g, r.key) = 0 BY <1>1 DEF L!Severity
    <3>2. r.key \in DOMAIN g.last => L!Severity(g, r.key) = g.worst[r.key]
      BY <1>1 DEF L!Severity
    <3> HIDE DEF e, g
    <3> QED BY <2>5, <2>6, <2>7, <3>1, <3>2, TheWorse
  <2> HIDE DEF e
  <2>10. Followed(a, r, f) BY <2>2, <2>3, <2>4 DEF Followed, Entering
  <2>11. Taken(a, r, f) BY <2>2, <2>4, <2>9 DEF Taken
  <2>12. Kept(f, T)
    <3>1. DOMAIN f.gate.worst = DOMAIN f.gate.last BY <2>2, <2>3 DEF Entering
    <3>2. ASSUME NEW k \in DOMAIN f.gate.last
          PROVE  f.gate.worst[k] \in Nat /\ (k[1] = Open => Open \in T \cup SaidTypes(f))
      <4>1. CASE k = r.key BY <4>1, <2>2, <2>4, <2>5, <2>8
      <4>2. CASE k \in DOMAIN g.last /\ e.worst[k] = g.worst[k]
        BY <4>2, <2>2, <2>4 DEF Kept
      <4> QED BY <4>1, <4>2, <2>2, <2>3 DEF Entering
    <3> QED BY <3>1, <3>2, <2>4 DEF Kept
  <2> QED BY <2>10, <2>11, <2>12, <1>3
<1>4. CASE ~(r.type \in types /\ L!Passes(a.gate, r, at))
  <2>1. f = a BY <1>4 DEF LapGate
  <2>2. Followed(a, r, a) BY DEF Followed
  <2>3. ASSUME r.type \in types PROVE Taken(a, r, a)
    <3>1. ~L!Passes(a.gate, r, at) BY <1>4, <2>3
    <3>2. r.key \in DOMAIN a.gate.last /\ ~(r.severity > L!Severity(a.gate, r.key))
      BY <3>1 DEF L!Passes
    <3>3. L!Severity(a.gate, r.key) = a.gate.worst[r.key] BY <1>1, <3>2 DEF L!Severity
    <3> QED BY <3>2, <3>3 DEF Taken
  <2> QED BY <2>1, <2>2, <2>3
<1> QED BY <1>3, <1>4

\* A request that may not have been made.
Turn(a, asks, r, at, types) == IF asks THEN LapGate(a, r, at, types) ELSE a

Unasked(g) == [gate |-> g, said |-> <<>>]

LEMMA TwoOfOne ==
    ASSUME NEW r, NEW q
    PROVE  <<r>> \o <<q>> = <<r, q>>
<1> DEFINE z == <<r>> \o <<q>>
<1>1. <<r>> \in Seq({r, q}) /\ <<q>> \in Seq({r, q}) /\ Len(<<r>>) = 1 /\ Len(<<q>>) = 1
  OBVIOUS
<1>2. <<r, q>> \in Seq({r, q}) /\ Len(<<r, q>>) = 2 OBVIOUS
<1>3. <<r>>[1] = r /\ <<q>>[1] = q /\ <<r, q>>[1] = r /\ <<r, q>>[2] = q OBVIOUS
<1>4. z \in Seq({r, q}) /\ Len(z) = 2 /\ z[1] = r /\ z[2] = q BY <1>1, <1>3
<1> HIDE DEF z
<1>5. z = <<r, q>> BY <1>2, <1>3, <1>4
<1> QED BY <1>5 DEF z

LEMMA JudgedTurns ==
    ASSUME NEW g, NEW r, NEW q, NEW at, NEW types, NEW first \in BOOLEAN, NEW second \in BOOLEAN,
           NEW x, x = (IF first THEN <<r>> ELSE <<>>),
           NEW y, y = (IF second THEN <<q>> ELSE <<>>)
    PROVE  L!Judged(g, x \o y, at, types) =
              Turn(Turn(Unasked(g), first, r, at, types), second, q, at, types)
<1>1. <<>> \o <<>> = <<>> /\ <<r>> \o <<>> = <<r>> /\ <<>> \o <<q>> = <<q>> OBVIOUS
<1>2. <<r>> \o <<q>> = <<r, q>> BY TwoOfOne
<1>3. CASE first /\ second BY <1>2, <1>3, LapJudgedTwo DEF Turn, Unasked
<1>4. CASE first /\ ~second BY <1>1, <1>4, LapJudgedOne DEF Turn, Unasked
<1>5. CASE ~first /\ second BY <1>1, <1>5, LapJudgedOne DEF Turn, Unasked
<1>6. CASE ~first /\ ~second BY <1>1, <1>6, LapJudgedNone DEF Turn, Unasked
<1> QED BY <1>3, <1>4, <1>5, <1>6

\* What the detectors keep.
Dets ==
    [short : 0..2, last : Nat, pit : {"", "pit_window_next", "pit_window_open"},
     dropped : BOOLEAN, spell : Nat, raised : [Places -> Nat]]

\* How much the tank falls short, in quarters of a lap, and whether that is
\* asked about.
Falls(n, range) == 4 * (DistanceLaps - n + 1) - range
AsksFuel(d, n, range) ==
    /\ Falls(n, range) > L!Margin /\ d.short + 1 >= 2
    /\ d.last = 0 \/ Falls(n, range) - d.last >= L!Deeper
Fuel(n, range) == L!Request("fuel_short", FuelKey, Falls(n, range) \div L!Deeper + 1)

AsksPit(d, n, range) == L!Window(n, range) \notin {"", d.pit}
Pit(n, range) == L!Request(L!Window(n, range), <<L!Window(n, range), n + range \div 4>>, 0)

LEMMA FallsIsAnInteger ==
    ASSUME NEW n \in Nat, NEW range \in Nat
    PROVE  Falls(n, range) \in Int
<1>1. DistanceLaps \in Nat BY LapsAssumption
<1> QED BY <1>1 DEF Falls

ShortBy(d, m, l) == [d EXCEPT !.short = m, !.last = l]

LEMMA ShortOf ==
    ASSUME NEW d \in Dets, NEW m \in 0..2, NEW l \in Nat
    PROVE  /\ ShortBy(d, m, l) \in Dets /\ ShortBy(d, m, l).pit = d.pit
           /\ ShortBy(d, m, l).last = l /\ ShortBy(d, m, l).short = m
BY DEF Dets, ShortBy

LEMMA ShortageIs ==
    ASSUME NEW d \in Dets, NEW n \in Nat, NEW range \in Nat,
           NEW x, x = L!Shortage(d, n, range)
    PROVE  /\ x.det \in Dets /\ x.det.pit = d.pit
           /\ x.asks = (IF AsksFuel(d, n, range) THEN <<Fuel(n, range)>> ELSE <<>>)
           /\ x.det.last = (IF Falls(n, range) <= L!Margin THEN 0
                            ELSE IF AsksFuel(d, n, range) THEN Falls(n, range) ELSE d.last)
           /\ x.det.short = 2 =>
                 /\ Falls(n, range) > L!Margin
                 /\ ~AsksFuel(d, n, range) => d.last # 0 /\ Falls(n, range) - d.last < L!Deeper
<1> DEFINE s == Falls(n, range)
           asks == d.short + 1 >= 2 /\ (d.last = 0 \/ s - d.last >= L!Deeper)
           m == L!Min({d.short + 1, 2})
           last == IF asks THEN s ELSE d.last
           over == ShortBy(d, 0, 0)
           under == ShortBy(d, m, last)
           f == <<Fuel(n, range)>>
<1>1. s \in Int BY FallsIsAnInteger
<1>2. x = IF s <= L!Margin THEN [det |-> over, asks |-> <<>>]
          ELSE [det |-> under, asks |-> IF asks THEN f ELSE <<>>]
  BY DEF L!Shortage, Fuel, Falls, FuelKey, ShortBy
<1>3. AsksFuel(d, n, range) <=> s > L!Margin /\ asks BY DEF AsksFuel
<1>4. L!Margin = 1 /\ L!Deeper = 2 BY DEF L!Margin, L!Deeper
<1>5. d.short \in 0..2 /\ d.last \in Nat BY DEF Dets
<1>6. m \in 0..2 /\ (m = 2 => d.short >= 1)
  <2>1. \A i \in 0..2 : L!Min({i + 1, 2}) = IF i = 0 THEN 1 ELSE 2
    <3>1. L!Min({1, 2}) = 1 /\ L!Min({2, 2}) = 2 /\ L!Min({3, 2}) = 2 BY DEF L!Min
    <3> QED BY <3>1
  <2>2. L!Min({d.short + 1, 2}) = IF d.short = 0 THEN 1 ELSE 2 BY <1>5, <2>1
  <2> QED BY <1>5, <2>2
<1> HIDE DEF s, m
<1>7. CASE s <= L!Margin
  <2>1. x = [det |-> over, asks |-> <<>>] BY <1>2, <1>7
  <2>2. over \in Dets /\ over.pit = d.pit /\ over.last = 0 /\ over.short = 0 BY ShortOf
  <2>3. ~AsksFuel(d, n, range) BY <1>1, <1>3, <1>4, <1>7
  <2> HIDE DEF over
  <2> QED BY <1>7, <2>1, <2>2, <2>3 DEF s
<1>8. CASE ~(s <= L!Margin)
  <2>1. x = [det |-> under, asks |-> IF asks THEN f ELSE <<>>] BY <1>2, <1>8
  <2>2. s > L!Margin /\ s \in Nat BY <1>1, <1>4, <1>8
  <2>3. AsksFuel(d, n, range) <=> asks BY <1>3, <2>2
  <2>4. /\ under \in Dets /\ under.pit = d.pit
        /\ under.last = last /\ under.short = m
    <3>1. last \in Nat BY <1>5, <2>2
    <3> HIDE DEF last
    <3> QED BY <1>6, <3>1, ShortOf
  <2> HIDE DEF under
  <2>5. x.det = under /\ x.asks = IF asks THEN f ELSE <<>> BY <2>1
  <2>6. x.det.short = 2 /\ ~asks => d.last # 0 /\ s - d.last < L!Deeper
    BY <1>1, <1>4, <1>5, <1>6, <2>4, <2>5
  <2> HIDE DEF asks, f
  <2>7. x.asks = (IF AsksFuel(d, n, range) THEN <<Fuel(n, range)>> ELSE <<>>)
    BY <2>3, <2>5 DEF f
  <2> QED BY <1>8, <2>2, <2>3, <2>4, <2>5, <2>6, <2>7 DEF s
<1> QED BY <1>7, <1>8

LEMMA PitIs ==
    ASSUME NEW d \in Dets, NEW n \in Nat, NEW range \in Nat,
           NEW x, x = L!PitCall(d, n, range)
    PROVE  /\ x.det \in Dets /\ x.det.last = d.last /\ x.det.short = d.short
           /\ x.asks = (IF AsksPit(d, n, range) THEN <<Pit(n, range)>> ELSE <<>>)
           /\ x.det.pit = (IF AsksPit(d, n, range) THEN L!Window(n, range) ELSE d.pit)
<1> DEFINE w == L!Window(n, range)
           entered == [d EXCEPT !.pit = w]
           f == <<Pit(n, range)>>
           stays == w \in {"", d.pit}
<1>1. x = IF stays THEN [det |-> d, asks |-> <<>>] ELSE [det |-> entered, asks |-> f]
  BY DEF L!PitCall, Pit
<1>2. w \in {"", "pit_window_next", "pit_window_open"} BY DEF L!Window
<1>3. AsksPit(d, n, range) <=> ~stays BY DEF AsksPit
<1> HIDE DEF w, stays
<1>4. entered \in Dets /\ entered.last = d.last /\ entered.short = d.short /\ entered.pit = w
  BY <1>2 DEF Dets
<1> HIDE DEF entered, f
<1>5. CASE stays
  <2>1. x = [det |-> d, asks |-> <<>>] BY <1>1, <1>5
  <2>2. x.det = d /\ x.asks = <<>> BY <2>1
  <2> QED BY <1>3, <1>5, <2>2
<1>6. CASE ~stays
  <2>0. x = [det |-> entered, asks |-> f] BY <1>1, <1>6
  <2>1. x.det = entered /\ x.asks = f BY <2>0
  <2>2. AsksPit(d, n, range) BY <1>3, <1>6
  <2> QED BY <1>4, <2>1, <2>2 DEF w, f
<1> QED BY <1>5, <1>6

\* The driver knows the strategy the detector keeps: the shortage last asked
\* about, at least as bad as any said, and the open pit window.
Known(d, g, short, T) ==
    /\ short = d.last
    /\ FuelKey \in DOMAIN g.last => d.last # 0 /\ g.worst[FuelKey] <= d.last \div L!Deeper + 1
    /\ d.pit = Open => Open \in T

\* As it is after a request for fuel or without.
FuelLeft(d, e, n, range) ==
    /\ e.pit = d.pit
    /\ e.last = (IF Falls(n, range) <= L!Margin THEN 0
                 ELSE IF AsksFuel(d, n, range) THEN Falls(n, range) ELSE d.last)
    /\ e.short = 2 =>
          /\ Falls(n, range) > L!Margin
          /\ ~AsksFuel(d, n, range) => d.last # 0 /\ Falls(n, range) - d.last < L!Deeper

\* The shortage and the types the driver was told of, f what was said.
NowTold(short, f, e) == IF "fuel_short" \in SaidTypes(f) THEN e.last ELSE short
NowTypes(T, f) == T \cup SaidTypes(f)

LEMMA NothingSaid ==
    ASSUME NEW g
    PROVE  SaidTypes(Unasked(g)) = {} /\ Spoken(Unasked(g)) /\ Unasked(g).gate = g
<1>1. Unasked(g).said = <<>> /\ Unasked(g).gate = g BY DEF Unasked
<1>2. <<>> \in Seq({}) OBVIOUS
<1>3. L!Range(<<>>) = {} BY DEF L!Range
<1> QED BY <1>1, <1>2, <1>3 DEF SaidTypes, Spoken

LEMMA FuelIsAsked ==
    ASSUME NEW n \in Nat, NEW range \in Nat, Falls(n, range) > L!Margin,
           NEW r, r = Fuel(n, range)
    PROVE  /\ Asked(r) /\ r.type = "fuel_short" /\ r.key = FuelKey
           /\ r.severity = Falls(n, range) \div L!Deeper + 1
<1>1. r.type = "fuel_short" /\ r.key = FuelKey /\ r.severity = Falls(n, range) \div L!Deeper + 1
  BY DEF Fuel, L!Request
<1>2. FuelKey[1] = "fuel_short" BY DEF FuelKey
<1>3. Falls(n, range) \in Nat BY FallsIsAnInteger DEF L!Margin
<1>4. Falls(n, range) \div L!Deeper + 1 \in Nat BY <1>3 DEF L!Deeper
<1> QED BY <1>1, <1>2, <1>4 DEF Asked

AfterFuel(a, d, n, range, at, types) ==
    IF AsksFuel(d, n, range) THEN LapGate(a, Fuel(n, range), at, types) ELSE a
AfterPit(a, d, n, range, at, types) ==
    IF AsksPit(d, n, range) THEN LapGate(a, Pit(n, range), at, types) ELSE a

LEMMA FuelTurn ==
    ASSUME NEW d \in Dets, NEW e \in Dets, NEW n \in Nat, NEW range \in Nat,
           FuelLeft(d, e, n, range), NEW a, NEW T, Kept(a, T), NEW at \in Nat, NEW types,
           NEW f, f = AfterFuel(a, d, n, range, at, types)
    PROVE  /\ Kept(f, T)
           /\ SaidTypes(a) \subseteq SaidTypes(f)
           /\ SaidTypes(f) \subseteq SaidTypes(a) \cup {"fuel_short"}
           /\ \A short :
                 /\ Known(d, a.gate, short, T) /\ SaidTypes(a) = {}
                 /\ AsksFuel(d, n, range) => "fuel_short" \in types
                 /\ ~(short # 0 /\ e.last = 0)
                 => /\ Known(e, f.gate, NowTold(short, f, e), T)
                    /\ e.short = 2 => e.last # 0 /\ Falls(n, range) < e.last + L!Deeper
<1>1. L!Margin = 1 /\ L!Deeper = 2 BY DEF L!Margin, L!Deeper
<1>2. Falls(n, range) \in Int BY FallsIsAnInteger
<1>3. d.last \in Nat /\ e.last \in Nat BY DEF Dets
<1>4. CASE ~AsksFuel(d, n, range)
  <2>1. f = a BY <1>4 DEF AfterFuel
  <2>2. ASSUME NEW short, Known(d, a.gate, short, T), SaidTypes(a) = {}, ~(short # 0 /\ e.last = 0)
        PROVE  /\ Known(e, f.gate, NowTold(short, f, e), T)
               /\ e.short = 2 => e.last # 0 /\ Falls(n, range) < e.last + L!Deeper
    <3>1. "fuel_short" \notin SaidTypes(f) BY <2>1, <2>2
    <3>2. short = d.last /\ e.last = d.last /\ e.pit = d.pit
      BY <1>2, <1>3, <1>4, <2>2 DEF Known, FuelLeft
    <3>3. e.short = 2 => e.last # 0 /\ Falls(n, range) < e.last + L!Deeper
      BY <1>1, <1>2, <1>3, <1>4, <3>2 DEF FuelLeft
    <3> QED BY <2>1, <2>2, <3>1, <3>2, <3>3 DEF Known, NowTold
  <2> QED BY <2>1, <2>2
<1>5. CASE AsksFuel(d, n, range)
  <2> DEFINE r == Fuel(n, range)
             s == Falls(n, range)
  <2>1. s > L!Margin /\ (d.last = 0 \/ s - d.last >= L!Deeper) BY <1>5 DEF AsksFuel
  <2>2. Asked(r) /\ r.type = "fuel_short" /\ r.key = FuelKey /\ r.severity = s \div L!Deeper + 1
    BY <2>1, FuelIsAsked
  <2>3. f = LapGate(a, r, at, types) BY <1>5 DEF AfterFuel
  <2>4. e.last = s /\ e.pit = d.pit BY <1>1, <1>2, <1>5, <2>1 DEF FuelLeft
  <2> HIDE DEF r
  <2>5. Kept(f, T) /\ Followed(a, r, f) /\ (r.type \in types => Taken(a, r, f))
    BY <2>2, <2>3, GateFollows
  <2>6. ASSUME NEW short, Known(d, a.gate, short, T), "fuel_short" \in types
        PROVE  /\ Known(e, f.gate, NowTold(short, f, e), T)
               /\ e.short = 2 => e.last # 0 /\ Falls(n, range) < e.last + L!Deeper
    <3>1. r.key \notin DOMAIN a.gate.last \/ r.severity > a.gate.worst[r.key]
      <4>1. CASE d.last = 0 BY <4>1, <2>2, <2>6 DEF Known
      <4>2. CASE s - d.last >= L!Deeper /\ FuelKey \in DOMAIN a.gate.last
        <5>1. a.gate.worst[FuelKey] <= d.last \div 2 + 1 /\ a.gate.worst[FuelKey] \in Nat
          BY <1>1, <2>6, <4>2 DEF Known, Kept
        <5>2. s \div 2 + 1 > d.last \div 2 + 1 BY <1>1, <1>2, <1>3, <4>2
        <5>3. r.severity = s \div 2 + 1 BY <1>1, <2>2
        <5>4. s \div 2 \in Int /\ d.last \div 2 \in Int BY <1>2, <1>3
        <5> HIDE DEF s
        <5> QED BY <2>2, <5>1, <5>2, <5>3, <5>4
      <4> QED BY <2>1, <2>2, <4>1, <4>2
    <3>2. r.type \in SaidTypes(f) /\ f.gate.worst[r.key] = r.severity
      BY <2>2, <2>5, <2>6, <3>1 DEF Taken
    <3>3. f.gate.worst[FuelKey] = e.last \div L!Deeper + 1 BY <2>2, <2>4, <3>2
    <3>4. e.last # 0 /\ s < e.last + L!Deeper BY <1>1, <1>2, <2>1, <2>4
    <3>5. e.last \div L!Deeper + 1 \in Int BY <1>1, <1>3
    <3> QED BY <2>2, <2>4, <2>6, <3>2, <3>3, <3>4, <3>5 DEF Known, NowTold
  <2>7. SaidTypes(a) \subseteq SaidTypes(f) /\ SaidTypes(f) \subseteq SaidTypes(a) \cup {"fuel_short"}
    BY <2>2, <2>5 DEF Followed
  <2> QED BY <2>5, <2>6, <2>7, <1>5
<1> QED BY <1>4, <1>5

LEMMA PitIsAsked ==
    ASSUME NEW d, NEW n \in Nat, NEW range \in Nat, AsksPit(d, n, range),
           NEW r, r = Pit(n, range)
    PROVE  /\ Asked(r) /\ r.type = L!Window(n, range) /\ r.key # FuelKey
           /\ r.type \in {"pit_window_next", Open} /\ r.key[1] = r.type
<1>1. r.type = L!Window(n, range) /\ r.severity = 0
      /\ r.key = <<L!Window(n, range), n + range \div 4>>
  BY DEF Pit, L!Request
<1>2. L!Window(n, range) \in {"", "pit_window_next", Open} BY DEF L!Window, Open
<1>3. r.type \in {"pit_window_next", Open} BY <1>1, <1>2 DEF AsksPit
<1>4. r.key[1] = r.type BY <1>1
<1>5. FuelKey[1] = "fuel_short" BY DEF FuelKey
<1>6. r.key # FuelKey BY <1>3, <1>4, <1>5 DEF Open
<1> QED BY <1>1, <1>3, <1>4, <1>6 DEF Asked

PitLeft(d, e, n, range) ==
    /\ e.last = d.last
    /\ e.pit = (IF AsksPit(d, n, range) THEN L!Window(n, range) ELSE d.pit)

\* What follows a request for the pit window, or none.
PitSays(a, T, d, e, n, range, types, f) ==
    /\ SaidTypes(a) \subseteq SaidTypes(f)
    /\ "fuel_short" \in SaidTypes(f) => "fuel_short" \in SaidTypes(a)
    /\ \A short :
          /\ Known(d, a.gate, short, T)
          /\ AsksPit(d, n, range) => L!Window(n, range) \in types
          => /\ Known(e, f.gate, short, NowTypes(T, f))
             /\ L!Window(n, range) = Open => Open \in NowTypes(T, f)

LEMMA PitTurn ==
    ASSUME NEW d \in Dets, NEW e \in Dets, NEW n \in Nat, NEW range \in Nat,
           PitLeft(d, e, n, range),
           NEW a, NEW T, Kept(a, T), NEW at \in Nat, NEW types,
           NEW f, f = AfterPit(a, d, n, range, at, types)
    PROVE  Kept(f, T) /\ PitSays(a, T, d, e, n, range, types, f)
<1>1. CASE ~AsksPit(d, n, range)
  <2>1. f = a BY <1>1 DEF AfterPit
  <2>2. L!Window(n, range) = Open => d.pit = Open BY <1>1 DEF AsksPit, Open
  <2> QED BY <1>1, <2>1, <2>2 DEF Known, NowTypes, PitLeft, PitSays
<1>2. CASE AsksPit(d, n, range)
  <2> DEFINE r == Pit(n, range)
             w == L!Window(n, range)
  <2>1. /\ Asked(r) /\ r.type = w /\ r.key # FuelKey /\ r.key[1] = r.type
        /\ w \in {"pit_window_next", Open}
    BY <1>2, PitIsAsked
  <2>2. f = LapGate(a, r, at, types) BY <1>2 DEF AfterPit
  <2>3. e.pit = w /\ e.last = d.last BY <1>2 DEF PitLeft
  <2> HIDE DEF r, w
  <2>4. Kept(f, T) /\ Followed(a, r, f) /\ (r.type \in types => Taken(a, r, f))
    BY <2>1, <2>2, GateFollows
  <2>5. "fuel_short" \notin {w} BY <2>1 DEF Open
  <2>6. /\ SaidTypes(a) \subseteq SaidTypes(f)
        /\ "fuel_short" \in SaidTypes(f) => "fuel_short" \in SaidTypes(a)
    BY <2>1, <2>4, <2>5 DEF Followed
  <2>7. ASSUME NEW short, Known(d, a.gate, short, T), w \in types
        PROVE  /\ Known(e, f.gate, short, NowTypes(T, f))
               /\ w = Open => Open \in NowTypes(T, f)
    <3>1. w = Open => Open \in NowTypes(T, f)
      <4>1. CASE r.key \in DOMAIN a.gate.last BY <4>1, <2>1, <2>6 DEF Kept, NowTypes
      <4>2. CASE r.type \in SaidTypes(f) BY <4>2, <2>1 DEF NowTypes
      <4> QED BY <4>1, <4>2, <2>1, <2>4, <2>7 DEF Taken
    <3>2. FuelKey \in DOMAIN f.gate.last =>
             FuelKey \in DOMAIN a.gate.last /\ f.gate.worst[FuelKey] = a.gate.worst[FuelKey]
      BY <2>1, <2>4 DEF Followed
    <3> QED BY <2>3, <2>7, <3>1, <3>2 DEF Known, NowTypes
  <2> QED BY <2>4, <2>6, <2>7, <1>2 DEF w, PitSays
<1> QED BY <1>1, <1>2

\* FuelDetector.on_lap: with its requests put to the gate, what was so stays so
\* and the driver knows what the lap gave cause to say.
PlanSays(d, g, T, n, range, x, types, j) ==
    \A short, after :
        /\ Known(d, g, short, T)
        /\ x.asks # <<>> => {"fuel_short", "pit_window_next", Open} \subseteq types
        /\ ~(short # 0 /\ x.det.last = 0)
        /\ after = NowTold(short, j, x.det)
        => /\ Known(x.det, j.gate, after, NowTypes(T, j))
           /\ x.det.short = 2 => after # 0 /\ Falls(n, range) < after + L!Deeper
           /\ L!Window(n, range) = Open => Open \in NowTypes(T, j)

LEMMA PlannedLeaves ==
    ASSUME NEW d \in Dets, NEW h, Len(h) \in Nat, Len(h) >= 2, NEW n \in Nat \ {0},
           NEW range \in Nat, NEW x, x = L!Planned(d, h, n, range),
           NEW g, NEW T, Kept(Unasked(g), T), NEW at \in Nat, NEW types,
           NEW j, j = L!Judged(g, x.asks, at, types)
    PROVE  x.det \in Dets /\ Kept(j, T) /\ PlanSays(d, g, T, n, range, x, types, j)
<1> DEFINE s == L!Shortage(d, n, range)
           p == L!PitCall(s.det, n, range)
<1>1. x = [det |-> p.det, asks |-> s.asks \o p.asks]
  <2>1. ~(Len(h) < 2 \/ n = 0) OBVIOUS
  <2> QED BY <2>1 DEF L!Planned
<1> DEFINE e == s.det
           asksF == AsksFuel(d, n, range)
           asksP == AsksPit(e, n, range)
           a == Unasked(g)
           m == AfterFuel(a, d, n, range, at, types)
<1>2. /\ e \in Dets /\ FuelLeft(d, e, n, range)
      /\ s.asks = (IF asksF THEN <<Fuel(n, range)>> ELSE <<>>)
  BY ShortageIs DEF FuelLeft
<1>3. /\ p.det \in Dets /\ p.det.last = e.last /\ p.det.short = e.short
      /\ p.asks = (IF asksP THEN <<Pit(n, range)>> ELSE <<>>)
      /\ p.det.pit = (IF asksP THEN L!Window(n, range) ELSE e.pit)
  BY <1>2, PitIs
<1> HIDE DEF s, p
<1>4. x.det = p.det /\ x.asks = s.asks \o p.asks
  <2> DEFINE u == p.det
             v == s.asks \o p.asks
  <2> HIDE DEF u, v
  <2>1. x = [det |-> u, asks |-> v] BY <1>1 DEF u, v
  <2>2. x.det = u /\ x.asks = v BY <2>1
  <2> QED BY <2>2 DEF u, v
<1>5. asksF \in BOOLEAN /\ asksP \in BOOLEAN BY DEF AsksFuel, AsksPit
<1> HIDE DEF e, asksF, asksP
<1>6. j = AfterPit(m, e, n, range, at, types)
  <2> DEFINE b == Turn(a, asksF, Fuel(n, range), at, types)
  <2>1. j = Turn(b, asksP, Pit(n, range), at, types)
    BY <1>2, <1>3, <1>4, <1>5, JudgedTurns
  <2>2. b = m BY DEF Turn, AfterFuel, asksF
  <2> HIDE DEF b, m
  <2>3. j = Turn(m, asksP, Pit(n, range), at, types) BY <2>1, <2>2
  <2> QED BY <2>3 DEF Turn, AfterPit, asksP
<1>7. x.asks = <<>> => ~asksF /\ ~asksP
  <2>1. \A r : Len(<<r>> \o <<>>) = 1 /\ Len(<<>> \o <<r>>) = 1 OBVIOUS
  <2>2. \A r, q : Len(<<r>> \o <<q>>) = 2 OBVIOUS
  <2>3. Len(<<>>) = 0 OBVIOUS
  <2> QED BY <1>2, <1>3, <1>4, <2>1, <2>2, <2>3
<1>8. SaidTypes(a) = {} /\ a.gate = g BY NothingSaid
<1>9. /\ Kept(m, T)
      /\ \A short : /\ Known(d, g, short, T)
                    /\ asksF => "fuel_short" \in types
                    /\ ~(short # 0 /\ e.last = 0)
                    => /\ Known(e, m.gate, NowTold(short, m, e), T)
                       /\ e.short = 2 => e.last # 0 /\ Falls(n, range) < e.last + L!Deeper
  <2>1. Kept(a, T) OBVIOUS
  <2>2. \E o : o = m OBVIOUS
  <2> HIDE DEF a, m
  <2>3. PICK o : o = m BY <2>2
  <2>4. o = AfterFuel(a, d, n, range, at, types) BY <2>3 DEF m
  <2>5. /\ Kept(o, T)
        /\ \A short : /\ Known(d, a.gate, short, T) /\ SaidTypes(a) = {}
                      /\ AsksFuel(d, n, range) => "fuel_short" \in types
                      /\ ~(short # 0 /\ e.last = 0)
                      => /\ Known(e, o.gate, NowTold(short, o, e), T)
                         /\ e.short = 2 => e.last # 0 /\ Falls(n, range) < e.last + L!Deeper
    BY <1>2, <2>1, <2>4, FuelTurn
  <2> QED BY <2>3, <2>5, <1>8 DEF asksF
<1> HIDE DEF a, m
<1>10. /\ Kept(j, T) /\ SaidTypes(m) \subseteq SaidTypes(j)
       /\ "fuel_short" \in SaidTypes(j) => "fuel_short" \in SaidTypes(m)
       /\ \A short : /\ Known(e, m.gate, short, T)
                     /\ asksP => L!Window(n, range) \in types
                     => /\ Known(p.det, j.gate, short, NowTypes(T, j))
                        /\ L!Window(n, range) = Open => Open \in NowTypes(T, j)
  <2>1. p.det.pit = (IF AsksPit(e, n, range) THEN L!Window(n, range) ELSE e.pit)
    BY <1>3 DEF asksP
  <2>2. PICK o : o = p.det OBVIOUS
  <2>3. o \in Dets /\ PitLeft(e, o, n, range) BY <1>3, <2>1, <2>2 DEF PitLeft
  <2>4. PICK y : y = j OBVIOUS
  <2>5. y = AfterPit(m, e, n, range, at, types) BY <1>6, <2>4
  <2>6. Kept(m, T) BY <1>9
  <2>7. Kept(y, T) /\ PitSays(m, T, e, o, n, range, types, y)
    BY <1>2, <2>3, <2>5, <2>6, PitTurn
  <2> QED BY <2>2, <2>4, <2>7 DEF asksP, PitSays
<1>11. asksP => L!Window(n, range) \in {"pit_window_next", Open}
  BY DEF asksP, AsksPit, L!Window, Open
<1>12. ASSUME NEW short, NEW after, Known(d, g, short, T),
              x.asks # <<>> => {"fuel_short", "pit_window_next", Open} \subseteq types,
              ~(short # 0 /\ x.det.last = 0),
              after = NowTold(short, j, x.det)
       PROVE  /\ Known(x.det, j.gate, after, NowTypes(T, j))
              /\ x.det.short = 2 => after # 0 /\ Falls(n, range) < after + L!Deeper
              /\ L!Window(n, range) = Open => Open \in NowTypes(T, j)
  <2>1. asksF => "fuel_short" \in types BY <1>7, <1>12
  <2>2. asksP => L!Window(n, range) \in types BY <1>7, <1>11, <1>12
  <2>3. after = NowTold(short, m, e)
    BY <1>3, <1>4, <1>10, <1>12 DEF NowTold
  <2>4. Known(e, m.gate, after, T) BY <1>3, <1>4, <1>9, <1>12, <2>1, <2>3
  <2>5. Known(p.det, j.gate, after, NowTypes(T, j)) BY <1>10, <2>2, <2>4
  <2>6. after = p.det.last BY <2>5 DEF Known
  <2>7. e.short = 2 => e.last # 0 /\ Falls(n, range) < e.last + L!Deeper
    BY <1>3, <1>4, <1>9, <1>12, <2>1
  <2> QED BY <1>3, <1>4, <1>10, <2>2, <2>4, <2>5, <2>6, <2>7
<1> QED BY <1>3, <1>4, <1>10, <1>12 DEF PlanSays

-----------------------------------------------------------------------------
(* The strategy is known.                                                  *)

\* What the last lap gave cause to say, and the driver has heard.
Claimed(c, short, T) ==
    /\ c.short > L!Margin => short # 0 /\ c.short < short + L!Deeper
    /\ c.open => Open \in T

\* The fuel detector, the gate and the driver: a shortage is only counted with
\* a history, the gate knows no open window that was not told of, and unless a
\* call was excused the driver knows what the detector keeps.
StrategyIn(d, h, g, short, T, c, spared) ==
    /\ d \in Dets /\ (d.short # 0 => Len(h) >= 2)
    /\ Kept(Unasked(g), T)
    /\ ~spared => Known(d, g, short, T) /\ Claimed(c, short, T)

Lapped == \E any : hist \in Seq(any) /\ past \in Seq(any)

PlanSound ==
    about = "plan" =>
        /\ Lapped /\ Len(hist) <= Memory /\ seen \in Nat \ {0}
        /\ StrategyIn(det, hist, passed, learnt.short, learnt.types, cause, excused)

LEMMA FirstLaps ==
    ASSUME NEW any, NEW b \in Seq(any), NEW m \in Nat, m <= Len(b), NEW k, k = SubSeq(b, 1, m)
    PROVE  k \in Seq(any) /\ Len(k) = m
<1>1. k = [i \in 1..m |-> b[i]] OBVIOUS
<1>2. \A i \in 1..m : b[i] \in any OBVIOUS
<1>3. k \in [1..m -> any] BY <1>1, <1>2
<1> QED BY <1>1, <1>3

\* The history with the lap in front, capped.
KeptWith(x, h) == SubSeq(<<x>> \o h, 1, L!Min({Memory, Len(<<x>> \o h)}))

LEMMA KeptLaps ==
    ASSUME NEW any, NEW h, h \in Seq(any), NEW x, NEW k, k = KeptWith(x, h)
    PROVE  /\ k \in Seq(any \cup {x}) /\ Len(k) <= Memory /\ Len(k) \in Nat
           /\ Len(h) >= 2 /\ Len(h) <= Memory => Len(k) >= 2
<1> DEFINE b == <<x>> \o h
           n == Len(b)
           m == L!Min({Memory, n})
<1>1. b \in Seq(any \cup {x}) /\ n = Len(h) + 1 /\ Len(h) \in Nat
  <2>1. <<x>> \in Seq(any \cup {x}) /\ h \in Seq(any \cup {x}) /\ Len(<<x>>) = 1 OBVIOUS
  <2> QED BY <2>1
<1>2. Memory \in Nat \ {0} BY LapsAssumption
<1>3. m = IF Memory <= n THEN Memory ELSE n
  <2>1. n \in Nat BY <1>1
  <2> HIDE DEF n
  <2> QED BY <1>2, <2>1 DEF L!Min
<1> HIDE DEF b, m
<1>5. k = SubSeq(b, 1, m) BY DEF b, m, KeptWith
<1>6. n \in Nat BY <1>1
<1>7. m \in Nat /\ m <= n BY <1>2, <1>3, <1>6
<1>9. k \in Seq(any \cup {x}) /\ Len(k) = m BY <1>1, <1>5, <1>7, FirstLaps
<1> HIDE DEF n
<1>10. m <= Memory /\ (Len(h) >= 2 /\ Len(h) <= Memory => m >= 2) BY <1>1, <1>2, <1>3
<1> QED BY <1>7, <1>9, <1>10

LEMMA KeptAfter ==
    ASSUME NEW j, NEW T, Kept(j, T)
    PROVE  Kept(Unasked(j.gate), NowTypes(T, j))
<1>1. /\ Unasked(j.gate).gate = j.gate /\ SaidTypes(Unasked(j.gate)) = {}
      /\ Spoken(Unasked(j.gate))
  BY NothingSaid
<1> QED BY <1>1 DEF Kept, NowTypes

\* A lap handed over.
LEMMA HandedOverKnown ==
    ASSUME about = "plan", NEW h, NEW before, NEW now1, NEW n \in Nat, NEW range \in Nat,
           NEW revised, L!HandedOver(h, before, now1, n, range, revised),
           seen \in Nat \ {0}, Len(h) \in Nat, det.short # 0 => Len(h) >= 2,
           StrategyIn(det, hist, passed, learnt.short, learnt.types, cause, excused)
    PROVE  StrategyIn(det', h, passed', learnt'.short, learnt'.types, cause', excused')
<1>1. PICK types : types = IF aloud THEN L!Types ELSE {"lap_time"} OBVIOUS
<1>2. PICK x : x = L!Planned(det, h, seen, range) OBVIOUS
<1>3. L!Detected(h, before, range) = x BY <1>2 DEF L!Detected
<1>4. PICK j : j = L!Judged(passed, x.asks, n, types) OBVIOUS
<1>5. /\ det' = x.det /\ passed' = j.gate
      /\ learnt'.short = NowTold(learnt.short, j, x.det)
      /\ learnt'.types = NowTypes(learnt.types, j)
      /\ cause'.short = (IF x.det.short = 2 THEN Falls(seen, range) ELSE 0)
      /\ cause'.open => Len(h) >= 2 /\ L!Window(seen, range) = Open
      /\ excused' = (excused \/ (~aloud /\ x.asks # <<>>)
                             \/ (learnt.short # 0 /\ x.det.last = 0))
  <2>1. PICK said : said = L!Range(j.said) OBVIOUS
  <2>2. SaidTypes(j) = {r.type : r \in said} BY <2>1 DEF SaidTypes
  <2>3. /\ det' = x.det /\ passed' = j.gate
        /\ learnt'.short = (IF "fuel_short" \in {r.type : r \in said} THEN x.det.last
                            ELSE learnt.short)
        /\ learnt'.types = learnt.types \cup {r.type : r \in said}
        /\ excused' = (excused \/ (~aloud /\ x.asks # <<>>)
                               \/ (learnt.short # 0 /\ x.det.last = 0))
    BY <1>1, <1>3, <1>4, <2>1 DEF L!HandedOver
  <2>4. /\ cause'.short = (IF x.det.short = 2 THEN Falls(seen, range) ELSE 0)
        /\ cause'.open => Len(h) >= 2 /\ L!Window(seen, range) = Open
    BY <1>3 DEF L!HandedOver, L!DueNow, Falls, Open
  <2> QED BY <2>2, <2>3, <2>4 DEF NowTold, NowTypes
<1>6. det \in Dets /\ Kept(Unasked(passed), learnt.types) BY DEF StrategyIn
<1>7. CASE Len(h) < 2
  <2>1. x = [det |-> det, asks |-> <<>>] BY <1>2, <1>7 DEF L!Planned
  <2>2. x.det = det /\ x.asks = <<>> BY <2>1
  <2>3. j = Unasked(passed) BY <1>4, <2>2, LapJudgedNone DEF Unasked
  <2>4. SaidTypes(j) = {} /\ j.gate = passed BY <2>3, NothingSaid
  <2>5. det.short = 0 BY <1>7
  <2>6. learnt'.short = learnt.short /\ learnt'.types = learnt.types
    BY <1>5, <2>4 DEF NowTold, NowTypes
  <2>7. ASSUME ~excused'
        PROVE  /\ Known(det', passed', learnt'.short, learnt'.types)
               /\ Claimed(cause', learnt'.short, learnt'.types)
    <3>1. ~excused BY <1>5, <2>7
    <3>2. Known(det, passed, learnt.short, learnt.types) BY <3>1 DEF StrategyIn
    <3>3. cause'.short = 0 /\ ~cause'.open BY <1>5, <1>7, <2>2, <2>5
    <3>4. Claimed(cause', learnt'.short, learnt'.types) BY <3>3 DEF Claimed, L!Margin
    <3> QED BY <3>2, <3>4, <1>5, <2>2, <2>4, <2>6
  <2> QED BY <1>5, <1>6, <2>2, <2>4, <2>5, <2>6, <2>7 DEF StrategyIn
<1>8. CASE Len(h) >= 2
  <2>1. /\ x.det \in Dets /\ Kept(j, learnt.types)
        /\ PlanSays(det, passed, learnt.types, seen, range, x, types, j)
    BY <1>2, <1>4, <1>6, <1>8, PlannedLeaves
  <2>2. Kept(Unasked(passed'), learnt'.types) BY <1>5, <2>1, KeptAfter
  <2>3. ASSUME ~excused'
        PROVE  /\ Known(det', passed', learnt'.short, learnt'.types)
               /\ Claimed(cause', learnt'.short, learnt'.types)
    <3>1. ~excused /\ (x.asks # <<>> => aloud) /\ ~(learnt.short # 0 /\ x.det.last = 0)
      BY <1>5, <2>3
    <3>2. Known(det, passed, learnt.short, learnt.types) BY <3>1 DEF StrategyIn
    <3>3. x.asks # <<>> => {"fuel_short", "pit_window_next", Open} \subseteq types
      BY <1>1, <3>1 DEF L!Types, Open
    <3>4. /\ Known(x.det, j.gate, learnt'.short, learnt'.types)
          /\ x.det.short = 2 => learnt'.short # 0 /\ Falls(seen, range) < learnt'.short + L!Deeper
          /\ L!Window(seen, range) = Open => Open \in learnt'.types
      BY <1>5, <2>1, <3>1, <3>2, <3>3 DEF PlanSays
    <3>5. Claimed(cause', learnt'.short, learnt'.types)
      BY <1>5, <3>4 DEF Claimed, L!Margin
    <3> QED BY <1>5, <3>4, <3>5
  <2> QED BY <1>5, <1>8, <2>1, <2>2, <2>3 DEF StrategyIn
<1> QED BY <1>7, <1>8

\* A lap ends, of this time (LapEnds, with its choices made).
Ending(t, range, mistakes, counts, out) ==
    LET n == Len(past) + 1
        ended == Append([i \in DOMAIN past |-> IF i = out THEN [past[i] EXCEPT !.counts = FALSE]
                                               ELSE past[i]],
                        L!Lap(t, counts))
        h == <<L!Record(ended[n], n, mistakes)>> \o hist
        kept == SubSeq(IF out = 0 THEN h ELSE L!Reflagged(h, ended), 1,
                       L!Min({Memory, Len(h)}))
    IN /\ driven < MaxDriven /\ driven' = driven + 1
       /\ about = "plan" => n <= DistanceLaps
       /\ IF counts /\ out = 0 THEN changes' = changes
          ELSE changes < MaxChanges /\ changes' = changes + 1
       /\ out # 0 => past[out].counts
       /\ past' = ended
       /\ IF hearing
          THEN /\ L!HandedOver(kept, L!BestOf(L!Range(SubSeq(ended, 1, n - 1))), ended, n, range,
                               out # 0)
               /\ seen' = n + 1 /\ deaf' = deaf
          ELSE /\ deaf' = TRUE
               /\ UNCHANGED <<L!manager, L!history>>
       /\ UNCHANGED <<about, hearing, aloud, outing>>

PlainEnding(t, range) == Ending(t, range, L!NoMistakes, TRUE, 0)

\* Without a lap ruled out, the history kept is that of the lap.
Plain(t, range, ended, x, before, h) ==
    /\ ended = Append(past, L!Lap(t, TRUE)) /\ past' = ended
    /\ h = KeptWith(x, hist)
    /\ \/ /\ L!HandedOver(h, before, ended, Len(past) + 1, range, FALSE)
          /\ seen' = Len(past) + 2
       \/ UNCHANGED <<hist, det, passed, learnt, cause, excused, seen>>

LEMMA LapEnding ==
    ASSUME L!LapEnds, about = "plan"
    PROVE  \E t, range : range \in Ranges /\ PlainEnding(t, range)
<1>1. \E t \in L!If("pace", Paces), range \in L!If("plan", Ranges),
         mistakes \in IF about = "coach" THEN Mistakes ELSE {L!NoMistakes},
         counts \in IF about = "pace" THEN BOOLEAN ELSE {TRUE},
         out \in IF about = "pace" THEN 0..Len(past) ELSE {0} :
            Ending(t, range, mistakes, counts, out)
  BY DEF L!LapEnds, Ending
<1>2. PICK t, range, mistakes, counts, out :
         /\ range \in L!If("plan", Ranges)
         /\ mistakes \in IF about = "coach" THEN Mistakes ELSE {L!NoMistakes}
         /\ counts \in IF about = "pace" THEN BOOLEAN ELSE {TRUE}
         /\ out \in IF about = "pace" THEN 0..Len(past) ELSE {0}
         /\ Ending(t, range, mistakes, counts, out)
  BY <1>1
<1>3. range \in Ranges BY <1>2 DEF L!If
<1>4. mistakes = L!NoMistakes /\ counts = TRUE /\ out = 0 BY <1>2
<1>5. PlainEnding(t, range) BY <1>2, <1>4 DEF PlainEnding
<1> QED BY <1>3, <1>5

LEMMA EndingIsPlain ==
    ASSUME Lapped, NEW t, NEW range, PlainEnding(t, range)
    PROVE  about' = about /\ \E ended, x, before, h : Plain(t, range, ended, x, before, h)
<1> DEFINE n == Len(past) + 1
           laid == [i \in DOMAIN past |-> IF i = 0 THEN [past[i] EXCEPT !.counts = FALSE]
                                          ELSE past[i]]
           ended == Append(laid, L!Lap(t, TRUE))
           x == L!Record(ended[n], n, L!NoMistakes)
           before == L!BestOf(L!Range(SubSeq(ended, 1, n - 1)))
           b == <<x>> \o hist
           h == SubSeq(b, 1, L!Min({Memory, Len(b)}))
<1>1. laid = past
  <2>1. PICK any : past \in Seq(any) BY DEF Lapped
  <2>2. \A i \in DOMAIN past : i # 0 BY <2>1
  <2>3. past = [i \in DOMAIN past |-> past[i]] BY <2>1
  <2> QED BY <2>2, <2>3
<1>2. /\ past' = ended /\ about' = about
      /\ \/ L!HandedOver(h, before, ended, n, range, FALSE) /\ seen' = n + 1
         \/ UNCHANGED <<hist, det, passed, learnt, cause, excused, seen>>
  BY DEF PlainEnding, Ending, L!manager, L!history
<1>3. n + 1 = Len(past) + 2
  <2>1. Len(past) \in Nat BY DEF Lapped
  <2> QED BY <2>1
<1>4. ended = Append(past, L!Lap(t, TRUE)) BY <1>1
<1>5. h = KeptWith(x, hist) BY DEF KeptWith
<1> HIDE DEF laid, ended, x, before, b, h
<1>6. Plain(t, range, ended, x, before, h) BY <1>2, <1>3, <1>4, <1>5 DEF Plain
<1> QED BY <1>2, <1>6

LEMMA MoreLaps ==
    ASSUME NEW A, NEW B, A \subseteq B, NEW s \in Seq(A)
    PROVE  s \in Seq(B)
OBVIOUS

LEMMA LapEndsKept ==
    ASSUME about = "plan", PlanSound, L!LapEnds
    PROVE  PlanSound'
<1>1. PICK t, range : range \in Ranges /\ PlainEnding(t, range) BY LapEnding
<1>2. Lapped /\ Len(hist) <= Memory /\ seen \in Nat \ {0} BY DEF PlanSound
<1>3. about' = about /\ \E ended, x, before, h : Plain(t, range, ended, x, before, h)
  BY <1>1, <1>2, EndingIsPlain
<1>4. PICK ended, x, before, h : Plain(t, range, ended, x, before, h) BY <1>3
<1>5. PICK any : hist \in Seq(any) /\ past \in Seq(any) BY <1>2 DEF Lapped
<1>6. PICK l : l = L!Lap(t, TRUE) OBVIOUS
<1> DEFINE wider == any \cup {l} \cup {x}
<1>7. past' \in Seq(wider) /\ Len(past) \in Nat
  <2>1. past \in Seq(wider) BY <1>5, MoreLaps
  <2>2. past' = Append(past, l) BY <1>4, <1>6 DEF Plain
  <2>3. l \in wider OBVIOUS
  <2> HIDE DEF wider
  <2> QED BY <2>1, <2>2, <2>3
<1>8. CASE /\ L!HandedOver(h, before, ended, Len(past) + 1, range, FALSE)
           /\ seen' = Len(past) + 2
  <2>1. h = KeptWith(x, hist) BY <1>4 DEF Plain
  <2>2. /\ h \in Seq(any \cup {x}) /\ Len(h) <= Memory /\ Len(h) \in Nat
        /\ Len(hist) >= 2 => Len(h) >= 2
    BY <1>2, <1>5, <2>1, KeptLaps
  <2>3. hist' = h BY <1>8 DEF L!HandedOver
  <2>4. StrategyIn(det, hist, passed, learnt.short, learnt.types, cause, excused)
    BY DEF PlanSound
  <2>5. range \in Nat /\ Len(past) + 1 \in Nat BY <1>1, <1>7, PacketsAssumption
  <2>6. det.short # 0 => Len(h) >= 2 BY <2>2, <2>4 DEF StrategyIn
  <2>7. StrategyIn(det', h, passed', learnt'.short, learnt'.types, cause', excused')
    BY <1>2, <1>8, <2>2, <2>4, <2>5, <2>6, HandedOverKnown
  <2>8. seen' \in Nat \ {0} BY <1>7, <1>8
  <2>9. h \in Seq(wider)
    <3>1. any \cup {x} \subseteq wider OBVIOUS
    <3> HIDE DEF wider
    <3> QED BY <2>2, <3>1, MoreLaps
  <2>10. Lapped' BY <1>7, <2>3, <2>9 DEF Lapped
  <2> QED BY <2>2, <2>3, <2>7, <2>8, <2>10 DEF PlanSound
<1>9. CASE UNCHANGED <<hist, det, passed, learnt, cause, excused, seen>>
  <2>1. hist \in Seq(wider) BY <1>5, MoreLaps
  <2>2. Lapped' BY <1>7, <1>9, <2>1 DEF Lapped
  <2> QED BY <1>2, <1>9, <2>2 DEF PlanSound
<1> QED BY <1>4, <1>8, <1>9 DEF Plain

LEMMA FreshStrategy ==
    ASSUME NEW h, NEW d, d = L!Fresh, NEW g, g = L!NewGate, NEW k, k = L!Ignorant,
           NEW c, c = L!Nothing, NEW spared
    PROVE  StrategyIn(d, h, g, k.short, k.types, c, spared)
<1>1. d \in Dets /\ d.short = 0 /\ d.last = 0 /\ d.pit = ""
  <2> DEFINE raised == [p \in Places |-> 0]
  <2>1. raised \in [Places -> Nat] OBVIOUS
  <2> HIDE DEF raised
  <2> DEFINE fresh == [short |-> 0, last |-> 0, pit |-> "", dropped |-> FALSE, spell |-> 0,
                       raised |-> raised]
  <2>2. d = fresh BY DEF L!Fresh, raised
  <2>3. fresh \in Dets BY <2>1 DEF Dets
  <2>4. fresh.short = 0 /\ fresh.last = 0 /\ fresh.pit = "" OBVIOUS
  <2> HIDE DEF fresh
  <2> QED BY <2>2, <2>3, <2>4
<1>2. k.short = 0 /\ k.types = {} BY DEF L!Ignorant
<1>3. c.short = 0 /\ c.open = FALSE BY DEF L!Nothing
<1>4. g.last = <<>> /\ g.worst = <<>> BY DEF L!NewGate
<1>5. DOMAIN <<>> = {} OBVIOUS
<1>6. Unasked(g).gate = g /\ Spoken(Unasked(g)) BY NothingSaid
<1>7. Kept(Unasked(g), k.types) BY <1>4, <1>5, <1>6 DEF Kept
<1>8. Known(d, g, k.short, k.types) BY <1>1, <1>2, <1>4, <1>5 DEF Known, Open
<1>9. Claimed(c, k.short, k.types) BY <1>3 DEF Claimed, L!Margin
<1> QED BY <1>1, <1>7, <1>8, <1>9 DEF StrategyIn

LEMMA PlanBegins == L!Init => PlanSound
<1> SUFFICES ASSUME L!Init, about = "plan" PROVE PlanSound BY DEF PlanSound
<1>1. /\ past = <<>> /\ hist = <<>> /\ seen = 1 /\ excused = FALSE
      /\ det = L!Fresh /\ passed = L!NewGate /\ learnt = L!Ignorant /\ cause = L!Nothing
  BY DEF L!Init
<1>2. Lapped /\ Len(hist) = 0 BY <1>1 DEF Lapped
<1>3. Memory \in Nat BY LapsAssumption
<1>4. StrategyIn(det, hist, passed, learnt.short, learnt.types, cause, excused)
  BY <1>1, FreshStrategy
<1> QED BY <1>1, <1>2, <1>3, <1>4 DEF PlanSound

LEMMA PlanKept ==
    ASSUME PlanSound, [L!Next]_(L!vars)
    PROVE  PlanSound'
<1> USE DEF L!vars, L!counters, L!manager, L!history
<1>1. CASE UNCHANGED L!vars BY <1>1 DEF PlanSound, Lapped
<1>2. CASE L!LapEnds
  <2>1. about' = about BY <1>2 DEF L!LapEnds
  <2>2. CASE about = "plan" BY <1>2, <2>2, LapEndsKept
  <2> QED BY <2>1, <2>2 DEF PlanSound
<1>3. CASE L!SeesNextLap
  <2>1. seen' \in Nat \ {0} BY <1>3 DEF L!SeesNextLap, PlanSound, Lapped
  <2> QED BY <1>3, <2>1 DEF L!SeesNextLap, PlanSound, Lapped
<1>4. CASE L!NewSession
  <2> SUFFICES ASSUME about = "plan" PROVE PlanSound' BY <1>4 DEF L!NewSession, PlanSound
  <2>1. /\ past' = <<>> /\ hist' = hist /\ excused' = FALSE /\ det' = L!Fresh
        /\ passed' = L!NewGate /\ learnt' = L!Ignorant /\ cause' = L!Nothing
        /\ seen' \in {1, seen}
    BY <1>4 DEF L!NewSession, L!Reset
  <2>2. Lapped' /\ Len(hist) <= Memory /\ seen' \in Nat \ {0}
    <3>1. PICK any : hist \in Seq(any) BY DEF PlanSound, Lapped
    <3>2. <<>> \in Seq(any) OBVIOUS
    <3> QED BY <2>1, <3>1, <3>2 DEF PlanSound, Lapped
  <2>3. StrategyIn(det', hist', passed', learnt'.short, learnt'.types, cause', excused')
    BY <2>1, FreshStrategy
  <2> QED BY <2>1, <2>2, <2>3 DEF PlanSound
<1>5. CASE L!Ruling BY <1>5 DEF L!Ruling, PlanSound
<1>6. CASE L!Toggle
  <2> SUFFICES ASSUME about = "plan" PROVE PlanSound' BY <1>6 DEF L!Toggle, PlanSound
  <2>1. /\ UNCHANGED <<past, hist, det, passed, learnt, excused>> /\ cause' = L!Nothing
        /\ seen' \in {seen, Len(past) + 1}
    BY <1>6 DEF L!Toggle
  <2>2. Claimed(cause', learnt.short, learnt.types)
    BY <2>1 DEF Claimed, L!Nothing, L!Margin
  <2>3. Lapped' /\ Len(past) \in Nat BY <2>1 DEF PlanSound, Lapped
  <2>4. seen' \in Nat \ {0} BY <2>1, <2>3 DEF PlanSound
  <2>5. StrategyIn(det, hist, passed, learnt.short, learnt.types, cause', excused)
    BY <2>2 DEF PlanSound, StrategyIn
  <2> QED BY <2>1, <2>3, <2>4, <2>5 DEF PlanSound
<1> QED BY <1>1, <1>2, <1>3, <1>4, <1>5, <1>6 DEF L!Next

\* A shortage that lasts has been told to within half a lap, and an open pit
\* window has been announced, after any laps of any race, unless a call was
\* lost to a category that was off or a shortage went away (FuelDetector and
\* _emit).
THEOREM StrategyIsKnown == L!Spec => []PlanIsKnown
<1>1. L!Init => PlanSound BY PlanBegins
<1>2. PlanSound /\ [L!Next]_(L!vars) => PlanSound' BY PlanKept
<1>3. PlanSound => PlanIsKnown
  BY DEF PlanIsKnown, L!PlanIsKnown, PlanSound, StrategyIn, Claimed, Open
<1> QED BY <1>1, <1>2, <1>3, PTL DEF L!Spec


-----------------------------------------------------------------------------
(* The sector times.  As long as the tracker is of this lap, it is at the  *)
(* sector after the last one told, and begins it where that one ended; if  *)
(* it was set up in the middle of the lap, it may only lag behind.         *)

Ends == Len(SectorEnds)

SectorPoints == [x : Nat, t : Nat]
SectorRows == [sector : Nat, time : Nat, total : Nat]
Trackers ==
    [lap : Nat, previous : SectorPoints \cup {S!NoSample}, next : 1..(Ends + 1), last : Nat]

RowBefore(rows, i) == IF i = 1 THEN 0 ELSE rows[i - 1].total

WhereItWas(rows, passes, at, clock, i) ==
    IF i <= Ends THEN rows[i].total \in passes[i] ELSE at = Finish /\ rows[i].total = clock

\* SectorsAddUp, of any state.
AddsUp(rows, fresh, passes, at, clock) ==
    \A i \in 1..Len(rows) :
        /\ rows[i].sector = i /\ rows[i].time > 0
        /\ fresh \/ rows[i].total = RowBefore(rows, i) + rows[i].time
        /\ WhereItWas(rows, passes, at, clock, i)

\* Where a tracker of this lap is.
KeepsUp(k, rows, fresh) ==
    /\ k.next <= Len(rows) + 1
    /\ fresh \/ (k.next = Len(rows) + 1 /\ k.last = RowBefore(rows, k.next))

Tracks(k, rows, fresh, n) ==
    IF k.lap = n THEN KeepsUp(k, rows, fresh) ELSE fresh \/ rows = <<>>

\* The sample before is the one of where the car is.
Seated(k, n, at, clock) ==
    k.lap = n => k.previous \in {S!NoSample, [x |-> at, t |-> clock]}

SectorTypes ==
    /\ round \in Nat \ {0} /\ cell \in 0..Finish /\ time \in Nat
    /\ when \in [1..Ends -> SUBSET Nat] /\ anew \in BOOLEAN
    /\ tracker \in Trackers /\ reported \in Seq(SectorRows) /\ Len(reported) <= Ends + 1

SectorsSound ==
    /\ SectorTypes
    /\ splits = <<>> => tracker = S!Cleared(0)
    /\ tracker.lap <= round
    /\ cell # Finish => Seated(tracker, round, cell, time) /\ Tracks(tracker, reported, anew, round)
    /\ AddsUp(reported, anew, when, cell, time)

LEMMA EndsAre == Ends \in Nat /\ DOMAIN SectorEnds = 1..Ends /\ \A i \in 1..Ends : SectorEnds[i] \in Nat
BY SectorsAssumption DEF Ends

LEMMA RowsAddUp ==
    ASSUME SectorTypes
    PROVE  AddsUp(reported, anew, when, cell, time) <=> S!SectorsAddUp
<1>1. DOMAIN reported = 1..Len(reported) BY DEF SectorTypes
<1> QED BY <1>1 DEF AddsUp, WhereItWas, RowBefore, Ends, S!SectorsAddUp, S!Before

\* Cleared, Interrupted, and what a sample leaves of a tracker.
LEMMA ClearedIs ==
    ASSUME NEW n \in Nat
    PROVE  /\ S!Cleared(n) \in Trackers /\ S!Cleared(n).lap = n /\ S!Cleared(n).next = 1
           /\ S!Cleared(n).last = 0 /\ S!Cleared(n).previous = S!NoSample
BY EndsAre DEF S!Cleared, Trackers

LEMMA InterruptedIs ==
    ASSUME NEW k \in Trackers
    PROVE  /\ S!Interrupted(k) \in Trackers /\ S!Interrupted(k).lap = k.lap
           /\ S!Interrupted(k).next = k.next /\ S!Interrupted(k).last = k.last
           /\ S!Interrupted(k).previous = S!NoSample
           /\ k.previous = S!NoSample => S!Interrupted(k) = k
BY DEF S!Interrupted, Trackers

Sampled(k, s) == [k EXCEPT !.previous = s]
Advanced(k, s, c) == [k EXCEPT !.previous = s, !.next = @ + 1, !.last = c]

LEMMA SampledIs ==
    ASSUME NEW k \in Trackers, NEW s \in SectorPoints
    PROVE  /\ Sampled(k, s) \in Trackers /\ Sampled(k, s).lap = k.lap
           /\ Sampled(k, s).next = k.next /\ Sampled(k, s).last = k.last
           /\ Sampled(k, s).previous = s
BY DEF Sampled, Trackers

LEMMA AdvancedIs ==
    ASSUME NEW k \in Trackers, k.next <= Ends, NEW s \in SectorPoints, NEW c \in Nat
    PROVE  /\ Advanced(k, s, c) \in Trackers /\ Advanced(k, s, c).lap = k.lap
           /\ Advanced(k, s, c).next = k.next + 1 /\ Advanced(k, s, c).last = c
           /\ Advanced(k, s, c).previous = s
<1>1. k.next + 1 \in 1..(Ends + 1) BY EndsAre DEF Trackers
<1>2. DOMAIN k = {"lap", "previous", "next", "last"} BY DEF Trackers
<1> QED BY <1>1, <1>2 DEF Advanced, Trackers

\* Where the car goes over a boundary in a frame, the tracker finds the time.
Overrun(x, t, y, i) == S!Crossing([x |-> x, t |-> t], [x |-> y, t |-> t + 2], SectorEnds[i])

LEMMA CrossedIsPassed ==
    ASSUME time \in Nat, NEW x \in Nat, NEW y \in Nat, NEW i \in 1..Ends,
           NEW c \in Overrun(x, time, y, i)
    PROVE  /\ x < y /\ y <= x + 2 /\ c \in Nat /\ c \in S!Passing(x, y)[i]
           /\ Overrun(x, time, y, i) = {c}
<1> USE DEF Overrun
<1> DEFINE b == SectorEnds[i]
           t == time
           a == [x |-> x, t |-> t]
           s == [x |-> y, t |-> t + 2]
<1>1. b \in Nat /\ DOMAIN SectorEnds = 1..Ends BY EndsAre
<1>2. a.x = x /\ a.t = t /\ s.x = y /\ s.t = t + 2 OBVIOUS
<1> HIDE DEF a, s
<1>3. S!Crossing(a, s, b) # {} BY DEF a, s
<1>4. /\ a # S!NoSample /\ x < y /\ y - x <= MaxStep /\ b \in x..y
      /\ S!Crossing(a, s, b) = {t + ((b - x) * (t + 2 - t)) \div (y - x)}
  BY <1>2, <1>3, SectorsAssumption DEF S!Crossing
<1>5. y - x \in {1, 2} /\ b - x \in 0..2 BY <1>1, <1>4, SectorsAssumption
<1>6. (b - x) * (t + 2 - t) = 2 * (b - x) /\ 2 * (b - x) \in Nat
  <2>1. t + 2 - t = 2 OBVIOUS
  <2> QED BY <1>5, <2>1
<1>7. (2 * (b - x)) \div (y - x) \in Nat BY <1>5, <1>6
<1>8. c = t + (2 * (b - x)) \div (y - x) BY <1>4, <1>6 DEF a, s
<1>9. S!Passing(x, y)[i] = {time + (2 * (b - x)) \div (y - x)} BY <1>1, <1>4 DEF S!Passing
<1> QED BY <1>4, <1>5, <1>7, <1>8, <1>9, <1>6 DEF a, s

\* The tracker a sample of lap n is given to.
Given(k, n) == IF n = k.lap THEN k ELSE S!Cleared(n)

Finds(k, s) == IF k.next > Ends THEN {} ELSE S!Crossing(k.previous, s, SectorEnds[k.next])

LEMMA ObservedIs ==
    ASSUME NEW k \in Trackers, NEW n \in Nat, NEW s \in SectorPoints
    PROVE  S!Observed(k, n, s) =
              IF \A c \in Finds(Given(k, n), s) : c <= Given(k, n).last
              THEN [tracker |-> Sampled(Given(k, n), s), crossed |-> <<>>]
              ELSE [tracker |-> Advanced(Given(k, n), s, CHOOSE c \in Finds(Given(k, n), s) : TRUE),
                    crossed |-> <<S!Sector(Given(k, n), CHOOSE c \in Finds(Given(k, n), s) : TRUE)>>]
BY DEF S!Observed, Given, Finds, Sampled, Advanced, Ends

\* A row that is told next is the sector after the last; what a tracker that
\* lags behind finds again was told already.
RowFits(row, k, at) == row.sector = k.next /\ row.time = at - k.last /\ row.total = at

LEMMA SectorIs ==
    ASSUME NEW k \in Trackers, NEW at \in Nat, at > k.last
    PROVE  /\ S!Sector(k, at) \in SectorRows /\ RowFits(S!Sector(k, at), k, at)
           /\ S!Sector(k, at).time > 0
<1>1. k.last \in Nat /\ k.next \in Nat BY EndsAre DEF Trackers
<1>2. at - k.last \in Nat /\ at - k.last > 0 BY <1>1
<1> QED BY <1>1, <1>2 DEF S!Sector, SectorRows, RowFits

LEMMA ToldNothing == S!Told(<<>>) = reported \o <<>>
<1>1. S!Range(<<>>) = {} BY DEF S!Range
<1> QED BY <1>1 DEF S!Told

LEMMA ToldOne ==
    ASSUME NEW row
    PROVE  S!Told(<<row>>) = IF \E i \in DOMAIN reported : reported[i].sector = row.sector
                             THEN reported ELSE reported \o <<row>>
<1>1. S!Range(<<row>>) = {row} BY DEF S!Range
<1>2. S!Range(reported) = {reported[i] : i \in DOMAIN reported} BY DEF S!Range
<1> QED BY <1>1, <1>2 DEF S!Told

LEMMA AppendedIs ==
    ASSUME NEW rows \in Seq(SectorRows), NEW row \in SectorRows
    PROVE  /\ rows \o <<row>> \in Seq(SectorRows) /\ Len(rows \o <<row>>) = Len(rows) + 1
           /\ (rows \o <<row>>)[Len(rows) + 1] = row
           /\ \A i \in 1..Len(rows) : (rows \o <<row>>)[i] = rows[i]
OBVIOUS

Reached(k, total, passes, at, clock) ==
    IF k.next <= Ends THEN total \in passes[k.next] ELSE at = Finish /\ total = clock

\* Telling what is found at the end of sector k.next.
ToldTo(rows, row) ==
    IF \E i \in DOMAIN rows : rows[i].sector = row.sector THEN rows ELSE rows \o <<row>>

LEMMA TellingAddsUp ==
    ASSUME NEW rows \in Seq(SectorRows), NEW fresh \in BOOLEAN, NEW passes, NEW at, NEW clock,
           NEW k \in Trackers, NEW total \in Nat, total > k.last, KeepsUp(k, rows, fresh),
           AddsUp(rows, fresh, passes, at, clock),
           Reached(k, total, passes, at, clock),
           NEW after, after = ToldTo(rows, S!Sector(k, total))
    PROVE  /\ after \in Seq(SectorRows) /\ AddsUp(after, fresh, passes, at, clock)
           /\ k.next + 1 <= Len(after) + 1
           /\ fresh \/ (k.next + 1 = Len(after) + 1 /\ total = RowBefore(after, k.next + 1))
           /\ Len(after) = Len(rows) \/ (Len(after) = Len(rows) + 1 /\ Len(after) = k.next)
<1> DEFINE row == S!Sector(k, total)
<1>1. row \in SectorRows /\ RowFits(row, k, total) /\ row.time > 0 BY SectorIs
<1> HIDE DEF row
<1>2. k.next \in 1..(Ends + 1) /\ Ends \in Nat /\ k.last \in Nat BY EndsAre DEF Trackers
<1>3. DOMAIN rows = 1..Len(rows) /\ Len(rows) \in Nat OBVIOUS
<1>4. CASE k.next <= Len(rows)
  <2>1. rows[k.next].sector = row.sector BY <1>1, <1>2, <1>4 DEF AddsUp, RowFits
  <2>0. k.next \in DOMAIN rows BY <1>2, <1>3, <1>4
  <2>2. ToldTo(rows, row) = rows BY <2>0, <2>1 DEF ToldTo
  <2>3. fresh BY <1>2, <1>3, <1>4 DEF KeepsUp
  <2>4. after = rows BY <2>2 DEF row
  <2>5. k.next + 1 <= Len(after) + 1 /\ Len(after) = Len(rows) BY <2>4, <1>2, <1>3, <1>4
  <2> QED BY <2>3, <2>4, <2>5
<1>5. CASE k.next = Len(rows) + 1
  <2>1. \A i \in DOMAIN rows : rows[i].sector # row.sector
    BY <1>1, <1>3, <1>5 DEF AddsUp, RowFits
  <2>2. after = rows \o <<row>> BY <2>1 DEF ToldTo, row
  <2>3. /\ after \in Seq(SectorRows) /\ Len(after) = Len(rows) + 1
        /\ after[Len(rows) + 1] = row /\ \A i \in 1..Len(rows) : after[i] = rows[i]
    BY <2>2, <1>1, AppendedIs
  <2>4. \A i \in 1..(Len(rows) + 1) : RowBefore(after, i) = RowBefore(rows, i)
    BY <2>3, <1>3 DEF RowBefore
  <2>5. fresh \/ row.total = RowBefore(rows, k.next) + row.time
    BY <1>1, <1>2, <1>5 DEF KeepsUp, RowFits
  <2>6. WhereItWas(after, passes, at, clock, k.next)
    BY <2>3, <1>1, <1>5 DEF WhereItWas, RowFits, Reached
  <2>7. ASSUME NEW i \in 1..Len(rows)
        PROVE  WhereItWas(after, passes, at, clock, i) <=> WhereItWas(rows, passes, at, clock, i)
    BY <2>3 DEF WhereItWas
  <2>8. AddsUp(after, fresh, passes, at, clock)
    <3> SUFFICES ASSUME NEW i \in 1..Len(after)
                 PROVE  /\ after[i].sector = i /\ after[i].time > 0
                        /\ fresh \/ after[i].total = RowBefore(after, i) + after[i].time
                        /\ WhereItWas(after, passes, at, clock, i)
      BY DEF AddsUp
    <3>1. CASE i \in 1..Len(rows) BY <3>1, <2>3, <2>4, <2>7, <1>3 DEF AddsUp
    <3>2. CASE i = Len(rows) + 1
      BY <3>2, <2>3, <2>4, <2>5, <2>6, <1>1, <1>3, <1>5 DEF RowFits
    <3> QED BY <3>1, <3>2, <2>3, <1>3
  <2>9. RowBefore(after, k.next + 1) = total
    BY <2>3, <1>1, <1>2, <1>3, <1>5 DEF RowBefore, RowFits
  <2> QED BY <2>3, <2>8, <2>9, <1>2, <1>3, <1>5
<1> QED BY <1>2, <1>3, <1>4, <1>5 DEF KeepsUp

LEMMA StillAddsUp ==
    ASSUME NEW rows, NEW fresh, NEW passes, NEW at, at # Finish, NEW clock,
           AddsUp(rows, fresh, passes, at, clock),
           NEW later, \A i \in 1..Ends : passes[i] \subseteq later[i], NEW there, NEW then
    PROVE  /\ AddsUp(rows, fresh, later, there, then)
           /\ rows \in Seq(SectorRows) => Len(rows) <= Ends
<1>1. \A i \in 1..Len(rows) : i <= Ends /\ rows[i].total \in passes[i]
  BY DEF AddsUp, WhereItWas
<1>2. \A i \in 1..Len(rows) : i \in Nat => i \in 1..Ends BY <1>1, EndsAre
<1>3. ASSUME NEW i \in 1..Len(rows) PROVE WhereItWas(rows, later, there, then, i)
  BY <1>1, <1>3, EndsAre DEF WhereItWas
<1>4. ASSUME rows \in Seq(SectorRows) PROVE Len(rows) <= Ends
  <2>1. Len(rows) \in Nat BY <1>4
  <2> QED BY <2>1, <1>1, EndsAre
<1> QED BY <1>3, <1>4 DEF AddsUp

\* observe, of this lap's sample when the tracker is of this lap or another.
Observes(y) == S!Observed(tracker, round, [x |-> y, t |-> time + 2])

\* What the car passes going to y is noted.
Noted(y, passes) ==
    \A i \in 1..Ends : cell < y /\ y <= cell + 2 => S!Passing(cell, y)[i] \subseteq passes[i]

LEMMA SampleTold ==
    ASSUME SectorTypes, Seated(tracker, round, cell, time), cell \in Nat,
           Tracks(tracker, reported, anew, round), NEW y \in Nat,
           NEW passes, NEW at, NEW clock, AddsUp(reported, anew, passes, at, clock),
           Len(reported) <= Ends, Noted(y, passes),
           NEW k, k = Observes(y).tracker, NEW rows, rows = S!Told(Observes(y).crossed)
    PROVE  /\ k \in Trackers /\ k.lap = round /\ k.previous = [x |-> y, t |-> time + 2]
           /\ rows \in Seq(SectorRows) /\ Len(rows) <= Ends + 1
           /\ Tracks(k, rows, anew, round) /\ AddsUp(rows, anew, passes, at, clock)
<1> DEFINE s == [x |-> y, t |-> time + 2]
           here == Given(tracker, round)
           at0 == Finds(here, s)
<1>1. s \in SectorPoints BY DEF SectorTypes, SectorPoints
<1>2. round \in Nat /\ tracker \in Trackers /\ time \in Nat /\ anew \in BOOLEAN
      /\ reported \in Seq(SectorRows)
  BY DEF SectorTypes
<1>3. here \in Trackers /\ here.lap = round /\ KeepsUp(here, reported, anew)
      /\ here.previous \in {S!NoSample, [x |-> cell, t |-> time]}
  <2>1. CASE tracker.lap = round BY <2>1, <1>2 DEF Given, Tracks, Seated
  <2>2. CASE tracker.lap # round
    <3>1. here = S!Cleared(round) BY <2>2 DEF Given
    <3>2. Len(reported) \in Nat /\ (reported = <<>> => Len(reported) = 0) BY <1>2
    <3>3. anew \/ reported = <<>> BY <2>2 DEF Tracks
    <3>4. /\ here.lap = round /\ here.next = 1 /\ here.last = 0 /\ here.previous = S!NoSample
          /\ here \in Trackers
      BY <3>1, <1>2, ClearedIs
    <3>5. here.next <= Len(reported) + 1 BY <3>2, <3>4
    <3>6. anew \/ (here.next = Len(reported) + 1 /\ here.last = RowBefore(reported, here.next))
      BY <3>2, <3>3, <3>4 DEF RowBefore
    <3> QED BY <3>4, <3>5, <3>6 DEF KeepsUp
  <2> QED BY <2>1, <2>2
<1>4. Observes(y) = IF \A c \in at0 : c <= here.last
                    THEN [tracker |-> Sampled(here, s), crossed |-> <<>>]
                    ELSE [tracker |-> Advanced(here, s, CHOOSE c \in at0 : TRUE),
                          crossed |-> <<S!Sector(here, CHOOSE c \in at0 : TRUE)>>]
  BY <1>1, <1>2, ObservedIs DEF Observes
<1> HIDE DEF here, s
<1>5. ASSUME NEW c \in at0
      PROVE  /\ here.next \in 1..Ends /\ c \in Nat /\ at0 = {c} /\ c \in passes[here.next]
  <2>0. here.next \in 1..(Ends + 1) BY <1>3 DEF Trackers
  <2>1. here.next \in 1..(Ends + 1) /\ here.next <= Ends
    BY <2>0, <1>5, EndsAre DEF Finds
  <2>2. here.next \in 1..Ends BY <2>1, EndsAre
  <2>3. at0 = S!Crossing(here.previous, s, SectorEnds[here.next]) BY <2>1 DEF Finds
  <2>4. here.previous # S!NoSample BY <1>5, <2>3 DEF S!Crossing
  <2>5. here.previous = [x |-> cell, t |-> time] BY <1>3, <2>4
  <2>6. /\ cell < y /\ y <= cell + 2 /\ c \in Nat /\ c \in S!Passing(cell, y)[here.next]
        /\ at0 = {c}
    <3>1. at0 = Overrun(cell, time, y, here.next) BY <2>3, <2>5 DEF s, Overrun
    <3> HIDE DEF at0
    <3> QED BY <1>2, <1>5, <2>2, <3>1, CrossedIsPassed
  <2> QED BY <2>2, <2>6 DEF Noted
<1> HIDE DEF at0
<1>6. CASE \A c \in at0 : c <= here.last
  <2>1. Observes(y).tracker = Sampled(here, s) /\ Observes(y).crossed = <<>> BY <1>4, <1>6
  <2>2. k = Sampled(here, s) BY <2>1
  <2>3. rows = reported BY <2>1, <1>2, ToldNothing
  <2>4. /\ k \in Trackers /\ k.lap = here.lap /\ k.next = here.next /\ k.last = here.last
        /\ k.previous = s
    BY <2>2, <1>1, <1>3, SampledIs
  <2>5. Tracks(k, rows, anew, round) BY <2>3, <2>4, <1>3 DEF Tracks, KeepsUp
  <2>6. Len(rows) <= Ends + 1 BY <2>3, <1>2 DEF SectorTypes
  <2> QED BY <2>3, <2>4, <2>5, <2>6, <1>2, <1>3 DEF s
<1>7. CASE ~\A c \in at0 : c <= here.last
  <2>1. PICK c \in at0 : ~(c <= here.last) BY <1>7
  <2>2. /\ here.next \in 1..Ends /\ c \in Nat /\ at0 = {c} /\ c \in passes[here.next]
    BY <1>5
  <2>3. (CHOOSE d \in at0 : TRUE) = c BY <2>2
  <2>4. Observes(y).tracker = Advanced(here, s, c) /\ Observes(y).crossed = <<S!Sector(here, c)>>
    <3> DEFINE d == CHOOSE d \in at0 : TRUE
    <3>1. d = c BY <2>3
    <3>2. Observes(y) = [tracker |-> Advanced(here, s, d), crossed |-> <<S!Sector(here, d)>>]
      BY <1>4, <1>7
    <3> HIDE DEF d
    <3> QED BY <3>1, <3>2
  <2>5. here.next <= Ends /\ here.last \in Nat /\ c > here.last
    BY <2>1, <2>2, <1>3, EndsAre DEF Trackers
  <2>6. /\ k \in Trackers /\ k.lap = here.lap /\ k.next = here.next + 1 /\ k.last = c
        /\ k.previous = s
    BY <2>2, <2>4, <2>5, <1>1, <1>3, AdvancedIs
  <2>7. rows = ToldTo(reported, S!Sector(here, c)) BY <2>4, ToldOne DEF ToldTo
  <2>8. Reached(here, c, passes, at, clock) BY <2>2, <2>5 DEF Reached
  <2>9. /\ rows \in Seq(SectorRows) /\ AddsUp(rows, anew, passes, at, clock)
        /\ here.next + 1 <= Len(rows) + 1
        /\ anew \/ (here.next + 1 = Len(rows) + 1 /\ c = RowBefore(rows, here.next + 1))
        /\ Len(rows) = Len(reported) \/ (Len(rows) = Len(reported) + 1 /\ Len(rows) = here.next)
    BY <2>2, <2>5, <2>7, <2>8, <1>2, <1>3, TellingAddsUp
  <2>10. Tracks(k, rows, anew, round) BY <2>6, <2>9, <1>3 DEF Tracks, KeepsUp
  <2>11. Len(rows) <= Ends + 1 BY <2>9, <1>2, EndsAre
  <2> QED BY <2>6, <2>9, <2>10, <2>11, <1>3 DEF s
<1> QED BY <1>6, <1>7

\* The last sector, of the time at the line.
LEMMA LineTold ==
    ASSUME SectorTypes, cell # Finish, Tracks(tracker, reported, anew, round),
           Len(reported) <= Ends, NEW clock \in Nat,
           AddsUp(reported, anew, when, Finish, clock),
           NEW rows, rows = S!Told(S!Completed(tracker, round, clock))
    PROVE  /\ rows \in Seq(SectorRows) /\ Len(rows) <= Ends + 1
           /\ AddsUp(rows, anew, when, Finish, clock)
<1> DEFINE goes == round = tracker.lap /\ tracker.next = Ends + 1 /\ clock > tracker.last
<1>1. tracker \in Trackers /\ reported \in Seq(SectorRows) /\ anew \in BOOLEAN BY DEF SectorTypes
<1>2. CASE ~goes
  <2>1. S!Completed(tracker, round, clock) = <<>> BY <1>2 DEF S!Completed, Ends
  <2>2. rows = reported BY <2>1, <1>1, ToldNothing
  <2> QED BY <2>2, <1>1, EndsAre
<1>3. CASE goes
  <2>1. S!Completed(tracker, round, clock) = <<S!Sector(tracker, clock)>>
    BY <1>3 DEF S!Completed, Ends
  <2>2. rows = ToldTo(reported, S!Sector(tracker, clock)) BY <2>1, ToldOne DEF ToldTo
  <2>3. KeepsUp(tracker, reported, anew) BY <1>3 DEF Tracks
  <2>4. Reached(tracker, clock, when, Finish, clock) BY <1>3, EndsAre DEF Reached
  <2>5. /\ rows \in Seq(SectorRows) /\ AddsUp(rows, anew, when, Finish, clock)
        /\ Len(rows) = Len(reported) \/ (Len(rows) = Len(reported) + 1 /\ Len(rows) = tracker.next)
    BY <1>1, <1>3, <2>2, <2>3, <2>4, TellingAddsUp
  <2>6. Len(rows) <= Ends + 1 BY <1>1, <1>3, <2>5, EndsAre
  <2> QED BY <2>5, <2>6
<1> QED BY <1>2, <1>3

LEMMA FrameKept ==
    ASSUME SectorsSound, cell # Finish, NEW y \in 0..(Finish - 1), NEW fresh \in BOOLEAN,
           S!Frame(y, fresh), round' = round, splits' = splits, anew' = anew,
           when' \in [1..Ends -> SUBSET Nat], \A i \in 1..Ends : when[i] \subseteq when'[i],
           Noted(y, when')
    PROVE  SectorsSound'
<1>1. /\ SectorTypes /\ Seated(tracker, round, cell, time)
      /\ Tracks(tracker, reported, anew, round) /\ AddsUp(reported, anew, when, cell, time)
      /\ splits = <<>> => tracker = S!Cleared(0)
      /\ tracker.lap <= round
  BY DEF SectorsSound
<1>2. /\ tracker \in Trackers /\ reported \in Seq(SectorRows) /\ time \in Nat /\ cell \in Nat
      /\ round \in Nat \ {0} /\ anew \in BOOLEAN /\ Finish \in Nat
  BY <1>1, SectorsAssumption DEF SectorTypes
<1>3. time' = time + 2 /\ cell' = y BY DEF S!Frame
<1>4. time' \in Nat /\ cell' \in 0..Finish /\ cell' # Finish /\ y \in Nat BY <1>2, <1>3
<1>5. AddsUp(reported, anew, when', cell', time') /\ Len(reported) <= Ends
  BY <1>1, <1>2, StillAddsUp
<1>6. Len(reported) <= Ends + 1 BY <1>2, <1>5, EndsAre
<1>7. SUFFICES /\ tracker' \in Trackers /\ reported' \in Seq(SectorRows)
               /\ Len(reported') <= Ends + 1 /\ tracker'.lap <= round
               /\ splits = <<>> => tracker' = S!Cleared(0)
               /\ Seated(tracker', round, cell', time')
               /\ Tracks(tracker', reported', anew, round)
               /\ AddsUp(reported', anew, when', cell', time')
  BY <1>2, <1>4 DEF SectorsSound, SectorTypes
<1>8. CASE fresh /\ splits # <<>>
  <2>1. tracker' = Observes(y).tracker /\ reported' = S!Told(Observes(y).crossed)
    BY <1>8 DEF S!Frame, Observes
  <2>2. /\ tracker' \in Trackers /\ tracker'.lap = round
        /\ tracker'.previous = [x |-> y, t |-> time + 2]
        /\ reported' \in Seq(SectorRows) /\ Len(reported') <= Ends + 1
        /\ Tracks(tracker', reported', anew, round)
        /\ AddsUp(reported', anew, when', cell', time')
    <3> HIDE DEF SectorsSound
    <3>1. PICK k : k = tracker' OBVIOUS
    <3>2. PICK rows : rows = reported' OBVIOUS
    <3>3. /\ k \in Trackers /\ k.lap = round /\ k.previous = [x |-> y, t |-> time + 2]
          /\ rows \in Seq(SectorRows) /\ Len(rows) <= Ends + 1
          /\ Tracks(k, rows, anew, round) /\ AddsUp(rows, anew, when', cell', time')
      BY <2>1, <3>1, <3>2, <1>1, <1>2, <1>4, <1>5, SampleTold
    <3> QED BY <3>1, <3>2, <3>3
  <2>3. Seated(tracker', round, cell', time') BY <2>2, <1>3 DEF Seated
  <2> QED BY <2>2, <2>3, <1>2, <1>8
<1>9. CASE fresh /\ splits = <<>>
  <2>1. tracker' = tracker /\ reported' = reported BY <1>9 DEF S!Frame
  <2>2. tracker.lap = 0 BY <1>1, <1>9, ClearedIs
  <2>3. Seated(tracker', round, cell', time') BY <1>2, <2>1, <2>2 DEF Seated
  <2> QED BY <2>1, <2>3, <1>1, <1>2, <1>5, <1>6
<1>10. CASE ~fresh
  <2>1. tracker' = S!Interrupted(tracker) /\ reported' = reported BY <1>10 DEF S!Frame
  <2>2. /\ tracker' \in Trackers /\ tracker'.lap = tracker.lap
        /\ tracker'.next = tracker.next /\ tracker'.last = tracker.last
        /\ tracker'.previous = S!NoSample
        /\ tracker.previous = S!NoSample => tracker' = tracker
    BY <2>1, <1>2, InterruptedIs
  <2>3. splits = <<>> => tracker' = S!Cleared(0) BY <1>1, <2>2, ClearedIs
  <2>4. Seated(tracker', round, cell', time') BY <2>2 DEF Seated
  <2>5. Tracks(tracker', reported', anew, round) BY <1>1, <2>1, <2>2 DEF Tracks, KeepsUp
  <2>6. AddsUp(reported', anew, when', cell', time') BY <2>1, <1>5
  <2>7. reported' \in Seq(SectorRows) /\ Len(reported') <= Ends + 1 BY <2>1, <1>2, <1>6
  <2>8. tracker' \in Trackers /\ tracker'.lap <= round BY <2>2, <1>1
  <2> QED BY <2>3, <2>4, <2>5, <2>6, <2>7, <2>8
<1> QED BY <1>8, <1>9, <1>10

LEMMA DriveKept ==
    ASSUME SectorsSound, S!Drive
    PROVE  SectorsSound'
<1>1. PICK y \in cell..S!Min({cell + 2, Finish - 1}), fresh \in BOOLEAN :
        /\ S!Frame(y, fresh)
        /\ when' = [i \in DOMAIN when |-> when[i] \cup S!Passing(cell, y)[i]]
        /\ UNCHANGED <<round, splits, anew>>
  BY DEF S!Drive
<1>2. /\ cell \in Nat /\ cell <= Finish /\ Finish \in Nat /\ time \in Nat
      /\ when \in [1..Ends -> SUBSET Nat]
  BY SectorsAssumption DEF SectorsSound, SectorTypes
<1>3. S!Min({cell + 2, Finish - 1}) <= cell + 2 /\ S!Min({cell + 2, Finish - 1}) <= Finish - 1
      /\ S!Min({cell + 2, Finish - 1}) \in Int
  <2>1. \E m \in {cell + 2, Finish - 1} : \A z \in {cell + 2, Finish - 1} : m <= z
    <3>1. cell + 2 <= Finish - 1 \/ Finish - 1 <= cell + 2 BY <1>2
    <3> QED BY <1>2, <3>1
  <2> DEFINE two == {cell + 2, Finish - 1}
  <2>2. PICK m \in two : \A z \in two : m <= z BY <2>1
  <2>3. cell + 2 \in two /\ Finish - 1 \in two /\ \A z \in two : z \in Int BY <1>2
  <2> HIDE DEF two
  <2>4. S!Min(two) \in two /\ \A z \in two : S!Min(two) <= z BY <2>2 DEF S!Min
  <2> QED BY <2>3, <2>4 DEF two
<1>4. y \in 0..(Finish - 1) /\ y <= cell + 2 /\ cell <= y /\ y \in Nat /\ cell # Finish
  BY <1>1, <1>2, <1>3
<1>5. ASSUME NEW i \in 1..Ends
      PROVE  /\ S!Passing(cell, y)[i] \subseteq Nat
             /\ when'[i] = when[i] \cup S!Passing(cell, y)[i]
  <2>1. when'[i] = when[i] \cup S!Passing(cell, y)[i] BY <1>1, <1>2
  <2>2. SectorEnds[i] \in Nat /\ DOMAIN SectorEnds = 1..Ends BY EndsAre
  <2>3. CASE cell < y /\ SectorEnds[i] \in cell..y
    <3>1. y - cell \in {1, 2} /\ 2 * (SectorEnds[i] - cell) \in Nat BY <1>2, <1>4, <2>2, <2>3
    <3>2. time + (2 * (SectorEnds[i] - cell)) \div (y - cell) \in Nat BY <1>2, <3>1
    <3> QED BY <2>1, <2>2, <3>2 DEF S!Passing
  <2>4. CASE ~(cell < y /\ SectorEnds[i] \in cell..y) BY <2>1, <2>2, <2>4 DEF S!Passing
  <2> QED BY <2>3, <2>4
<1>6. when' \in [1..Ends -> SUBSET Nat]
  <2>1. when' = [i \in 1..Ends |-> when[i] \cup S!Passing(cell, y)[i]] BY <1>1, <1>2
  <2> QED BY <1>2, <1>5, <2>1
<1>7. Noted(y, when') /\ \A i \in 1..Ends : when[i] \subseteq when'[i] BY <1>5 DEF Noted
<1> QED BY <1>1, <1>4, <1>6, <1>7, FrameKept

LEMMA DisplacedKept ==
    ASSUME SectorsSound, S!Displaced
    PROVE  SectorsSound'
<1>1. PICK y \in 0..(Finish - 1) :
        /\ cell < Finish /\ (y = cell - 1 \/ y > cell + 2) /\ S!Frame(y, TRUE)
        /\ UNCHANGED <<round, when, splits, anew>>
  BY DEF S!Displaced
<1>2. cell \in Nat /\ Finish \in Nat /\ when \in [1..Ends -> SUBSET Nat]
  BY SectorsAssumption DEF SectorsSound, SectorTypes
<1>3. y \in Int /\ ~(cell < y /\ y <= cell + 2) BY <1>1, <1>2
<1>4. Noted(y, when') BY <1>3 DEF Noted
<1>5. cell # Finish /\ when' = when BY <1>1, <1>2
<1> QED BY <1>1, <1>2, <1>4, <1>5, FrameKept

LEMMA LineKept ==
    ASSUME SectorsSound, S!Line
    PROVE  SectorsSound'
<1>1. PICK counts, adopted \in BOOLEAN :
        /\ cell \in (Finish - 2)..(Finish - 1)
        /\ reported' = IF counts /\ splits # <<>>
                       THEN S!Told(S!Completed(tracker, round, time + 2)) ELSE reported
        /\ splits' = IF adopted THEN S!Replayed(samples, time + 2) ELSE splits
        /\ tracker' = IF adopted THEN S!Cleared(0) ELSE tracker
        /\ time' = time + 2 /\ cell' = Finish
        /\ UNCHANGED <<round, when, anew>>
  BY DEF S!Line
<1>2. /\ cell # Finish => Tracks(tracker, reported, anew, round)
      /\ AddsUp(reported, anew, when, cell, time)
      /\ splits = <<>> => tracker = S!Cleared(0)
      /\ tracker.lap <= round
  BY DEF SectorsSound
<1>3. /\ SectorTypes /\ tracker \in Trackers /\ reported \in Seq(SectorRows) /\ time \in Nat
      /\ cell \in Nat /\ round \in Nat \ {0} /\ anew \in BOOLEAN /\ Finish \in Nat
      /\ when \in [1..Ends -> SUBSET Nat]
  BY SectorsAssumption DEF SectorsSound, SectorTypes
<1>4. cell # Finish /\ time + 2 \in Nat BY <1>1, <1>3
<1>5. AddsUp(reported, anew, when, Finish, time + 2) /\ Len(reported) <= Ends
  BY <1>2, <1>3, <1>4, StillAddsUp
<1>6. /\ reported' \in Seq(SectorRows) /\ Len(reported') <= Ends + 1
      /\ AddsUp(reported', anew, when, Finish, time + 2)
  <2>1. CASE counts /\ splits # <<>>
    <3>1. reported' = S!Told(S!Completed(tracker, round, time + 2)) BY <1>1, <2>1
    <3> QED BY <1>2, <1>3, <1>4, <1>5, <3>1, LineTold
  <2>2. CASE ~(counts /\ splits # <<>>)
    <3>1. reported' = reported BY <1>1, <2>2
    <3> QED BY <1>3, <1>5, <3>1, EndsAre
  <2> QED BY <2>1, <2>2
<1>7. tracker' \in Trackers /\ tracker'.lap <= round /\ (splits' = <<>> => tracker' = S!Cleared(0))
  <2>1. 0 <= round /\ 0 \in Nat BY <1>3
  <2>2. CASE adopted
    <3>1. tracker' = S!Cleared(0) BY <1>1, <2>2
    <3> QED BY <2>1, <3>1, ClearedIs
  <2>3. CASE ~adopted
    <3>1. tracker' = tracker /\ splits' = splits BY <1>1, <2>3
    <3> QED BY <1>2, <1>3, <3>1
  <2> QED BY <2>2, <2>3
<1>8. /\ round' = round /\ when' = when /\ anew' = anew /\ cell' = Finish /\ time' = time + 2
  BY <1>1
<1>9. SectorTypes' BY <1>3, <1>4, <1>6, <1>7, <1>8 DEF SectorTypes
<1>10. AddsUp(reported', anew', when', cell', time') BY <1>6, <1>8
<1>11. tracker'.lap <= round' BY <1>7, <1>8
<1> QED BY <1>7, <1>8, <1>9, <1>10, <1>11 DEF SectorsSound

LEMMA NothingAddsUp ==
    ASSUME NEW fresh, NEW passes, NEW at, NEW clock
    PROVE  AddsUp(<<>>, fresh, passes, at, clock) /\ <<>> \in Seq(SectorRows) /\ Len(<<>>) = 0
BY DEF AddsUp

LEMMA NextLapKept ==
    ASSUME SectorsSound, S!NextLap
    PROVE  SectorsSound'
<1>1. /\ cell = Finish /\ round' = round + 1 /\ cell' = 0 /\ time' = 0 /\ when' = S!NotPassed
      /\ reported' = <<>> /\ anew' = FALSE /\ tracker' = tracker /\ splits' = splits
  BY DEF S!NextLap
<1>2. /\ tracker \in Trackers /\ round \in Nat \ {0} /\ tracker.lap <= round
      /\ splits = <<>> => tracker = S!Cleared(0)
      /\ Finish \in Nat /\ tracker.lap \in Nat
  BY SectorsAssumption DEF SectorsSound, SectorTypes, Trackers
<1>3. S!NotPassed \in [1..Ends -> SUBSET Nat] BY EndsAre DEF S!NotPassed
<1>4. tracker'.lap <= round' /\ tracker'.lap # round' /\ round' \in Nat \ {0} BY <1>1, <1>2
<1>5. Seated(tracker', round', cell', time') BY <1>4 DEF Seated
<1>6. Tracks(tracker', reported', anew', round') BY <1>1, <1>4 DEF Tracks
<1>7. /\ AddsUp(reported', anew', when', cell', time')
      /\ reported' \in Seq(SectorRows) /\ Len(reported') <= Ends + 1
  BY <1>1, NothingAddsUp, EndsAre
<1>8. anew' \in BOOLEAN /\ cell' \in 0..Finish /\ time' \in Nat
  <2>1. 0 \in 0..Finish /\ 0 \in Nat BY <1>2
  <2>2. anew' \in BOOLEAN BY <1>1
  <2> QED BY <1>1, <2>1, <2>2
<1>9. SectorTypes' BY <1>1, <1>2, <1>3, <1>4, <1>7, <1>8 DEF SectorTypes
<1> QED BY <1>9, <1>1, <1>2, <1>4, <1>5, <1>6, <1>7, <1>8 DEF SectorsSound

LEMMA RefreshedKept ==
    ASSUME SectorsSound, S!Refreshed
    PROVE  SectorsSound'
<1>1. /\ cell < Finish /\ splits' = [i \in 1..(Ends + 1) |-> 2]
      /\ tracker' = S!Cleared(0) /\ anew' = TRUE
      /\ UNCHANGED <<round, cell, time, when, reported>>
  BY DEF S!Refreshed, Ends
<1>2. /\ SectorTypes /\ round \in Nat \ {0} /\ reported \in Seq(SectorRows)
      /\ AddsUp(reported, anew, when, cell, time)
  BY DEF SectorsSound, SectorTypes
<1>3. /\ tracker' \in Trackers /\ tracker'.lap = 0 BY <1>1, ClearedIs
<1>4. tracker'.lap <= round' /\ tracker'.lap # round' BY <1>1, <1>2, <1>3
<1>5. Seated(tracker', round', cell', time') BY <1>4 DEF Seated
<1>6. Tracks(tracker', reported', anew', round') BY <1>1, <1>4 DEF Tracks
<1>7. AddsUp(reported', anew', when', cell', time')
  <2>1. AddsUp(reported, TRUE, when, cell, time) BY <1>2 DEF AddsUp
  <2> QED BY <1>1, <2>1
<1>8. SectorTypes' BY <1>1, <1>2, <1>3 DEF SectorTypes
<1> QED BY <1>1, <1>4, <1>5, <1>6, <1>7, <1>8 DEF SectorsSound

LEMMA SectorsBegin ==
    ASSUME S!Init
    PROVE  SectorsSound
<1>1. /\ round = 1 /\ cell = 0 /\ time = 0 /\ when = S!NotPassed
      /\ tracker = S!Cleared(0) /\ reported = <<>> /\ anew = FALSE
  BY DEF S!Init
<1>2. /\ tracker \in Trackers /\ tracker.lap = 0 BY <1>1, ClearedIs
<1>3. when \in [1..Ends -> SUBSET Nat] BY <1>1, EndsAre DEF S!NotPassed
<1>4. /\ AddsUp(reported, anew, when, cell, time)
      /\ reported \in Seq(SectorRows) /\ Len(reported) <= Ends + 1
  BY <1>1, NothingAddsUp, EndsAre
<1>5. anew \in BOOLEAN /\ cell \in 0..Finish /\ time \in Nat /\ round \in Nat \ {0}
  <2>1. 0 \in 0..Finish /\ 0 \in Nat /\ 1 \in Nat \ {0} BY SectorsAssumption
  <2>2. anew \in BOOLEAN BY <1>1
  <2> QED BY <1>1, <2>1, <2>2
<1>6. SectorTypes BY <1>2, <1>3, <1>4, <1>5 DEF SectorTypes
<1>7. Seated(tracker, round, cell, time) BY <1>1, <1>2 DEF Seated
<1>8. Tracks(tracker, reported, anew, round) BY <1>1, <1>2 DEF Tracks
<1> QED BY <1>1, <1>2, <1>4, <1>6, <1>7, <1>8 DEF SectorsSound

\* The sectors a lap is told are its first ones, in order, each ending when the
\* car was really there, and they add up to the lap's time, for any boundaries
\* and whatever is lost, rolled back or jumped over, unless another reference
\* came in the middle of the lap (LiveSectorTracker, sector_callout).
THEOREM SectorsAreTold == S!Spec => []SectorsAddUp
<1>1. S!Init => SectorsSound BY SectorsBegin
<1>2. SectorsSound /\ [S!Next]_(S!vars) => SectorsSound'
  <2> SUFFICES ASSUME SectorsSound, [S!Next]_(S!vars) PROVE SectorsSound' OBVIOUS
  <2>1. CASE UNCHANGED S!vars
    BY <2>1 DEF S!vars, SectorsSound, SectorTypes
  <2> QED BY <2>1, DriveKept, DisplacedKept, LineKept, NextLapKept, RefreshedKept DEF S!Next
<1>3. SectorsSound => SectorsAddUp BY RowsAddUp DEF SectorsSound, SectorsAddUp
<1> QED BY <1>1, <1>2, <1>3, PTL DEF S!Spec

===============================================================================
