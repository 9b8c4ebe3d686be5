---------------------------- MODULE RecordingProofs ----------------------------
(***************************************************************************)
(* The rows and their verdicts, for any spans, times, windows, rulings and *)
(* refusals: what the database says of a lap is what the processor says of *)
(* it, and the processor judges by what most of the recent laps ran.       *)
(***************************************************************************)
EXTENDS MCRecording, FiniteSetTheorems, SequenceTheorems, WellFoundedInduction, TLAPS

-----------------------------------------------------------------------------
(* Numbers and counting.                                                   *)

\* A set of numbers that is not empty has a least one.
LEMMA Smallest ==
    ASSUME NEW S, S \subseteq Nat, S # {}
    PROVE  \E m \in S : \A k \in S : m <= k
<1> DEFINE R == OpToRel(<, Nat)
<1>1. IsWellFoundedOn(R, Nat) BY NatLessThanWellFounded
<1>2. \A x, y \in Nat : x < y => <<x, y>> \in R BY DEF OpToRel
<1> HIDE DEF R
<1>3. PICK m \in S : \A k \in S : <<k, m>> \notin R BY <1>1, WFMin
<1>4. \A k \in S : ~(k < m) BY <1>2, <1>3
<1>5. m \in Nat /\ \A k \in S : k \in Nat OBVIOUS
<1> QED BY <1>4, <1>5

\* And one that is bounded a greatest.
LEMMA Greatest ==
    ASSUME NEW n \in Nat, NEW S, S \subseteq 1..n, S # {}
    PROVE  \E m \in S : \A k \in S : k <= m
<1> DEFINE T == {n - k : k \in S}
<1>1. T \subseteq Nat /\ T # {}
  <2>1. \A k \in S : k \in Nat /\ k <= n OBVIOUS
  <2>2. \A k \in S : n - k \in Nat BY <2>1
  <2> QED BY <2>2
<1> HIDE DEF T
<1>2. PICK t \in T : \A u \in T : t <= u BY <1>1, Smallest
<1>3. PICK m \in S : t = n - m BY DEF T
<1>4. \A k \in S : n - m <= n - k BY <1>2, <1>3 DEF T
<1>5. \A k \in S : k <= m
  <2> SUFFICES ASSUME NEW k \in S PROVE k <= m OBVIOUS
  <2>1. n - m <= n - k /\ k \in Nat /\ m \in Nat BY <1>4
  <2> QED BY <2>1
<1> QED BY <1>5

LEMMA LeastIsIn ==
    ASSUME NEW S, S \subseteq Nat, S # {}
    PROVE  Bests!Min(S) \in S /\ \A k \in S : Bests!Min(S) <= k
<1>1. \E m \in S : \A k \in S : m =< k BY Smallest
<1> QED BY <1>1 DEF Bests!Min

LEMMA GreatestIsIn ==
    ASSUME NEW n \in Nat, NEW S, S \subseteq 1..n, S # {}
    PROVE  Bests!Max(S) \in S
<1>1. PICK m \in S : \A k \in S : k <= m BY Greatest
<1>2. \A k \in S : m >= k
  <2> SUFFICES ASSUME NEW k \in S PROVE m >= k OBVIOUS
  <2>1. k \in Nat /\ m \in Nat /\ k <= m BY <1>1
  <2> QED BY <2>1
<1> QED BY <1>2 DEF Bests!Max

LEMMA SameCount == \A S : Bests!Cardinality(S) = Cardinality(S)
BY DEF Cardinality, Bests!Cardinality

\* How the counts of some of the laps up to the n-th compare.
LEMMA Counting ==
    ASSUME NEW n \in Nat, NEW S, S \subseteq 1..n
    PROVE  /\ IsFiniteSet(S) /\ Bests!Cardinality(S) \in Nat
           /\ S # {} => Bests!Cardinality(S) > 0
           /\ \A T : T \subseteq S =>
                 /\ Bests!Cardinality(T) \in Nat
                 /\ Bests!Cardinality(T) <= Bests!Cardinality(S)
                 /\ Bests!Cardinality(S \ T) = Bests!Cardinality(S) - Bests!Cardinality(T)
<1>1. IsFiniteSet(1..n) BY FS_Interval
<1>2. IsFiniteSet(S) BY <1>1, FS_Subset
<1>3. Cardinality(S) \in Nat BY <1>2, FS_CardinalityType
<1>4. S # {} => Cardinality(S) > 0 BY <1>2, <1>3, FS_EmptySet
<1>5. ASSUME NEW T, T \subseteq S
      PROVE  /\ Cardinality(T) \in Nat /\ Cardinality(T) <= Cardinality(S)
             /\ Cardinality(S \ T) = Cardinality(S) - Cardinality(T)
  <2>1. IsFiniteSet(T) /\ Cardinality(T) <= Cardinality(S) BY <1>2, <1>5, FS_Subset
  <2>2. Cardinality(T) \in Nat BY <2>1, FS_CardinalityType
  <2>3. S \cap T = T BY <1>5
  <2>4. Cardinality(S \ T) = Cardinality(S) - Cardinality(S \cap T) BY <1>2, FS_Difference
  <2> QED BY <2>1, <2>2, <2>3, <2>4
<1>6. Bests!Cardinality(S) = Cardinality(S) BY SameCount
<1>7. ASSUME NEW T
      PROVE  Bests!Cardinality(T) = Cardinality(T) /\ Bests!Cardinality(S \ T) = Cardinality(S \ T)
  BY SameCount
<1> QED BY <1>2, <1>3, <1>4, <1>5, <1>6, <1>7

-----------------------------------------------------------------------------
(* The span guard.                                                         *)

LapRec == [span : Spans, time : Nat \ {0}, offLine : BOOLEAN]

\* All the laps that timed the circuit, or at least a window of them.
LEMMA WindowFull ==
    ASSUME NEW ls \in Seq(LapRec)
    PROVE  /\ Bests!Window(ls) \subseteq Bests!Timed(ls) /\ Bests!Timed(ls) \subseteq 1..Len(ls)
           /\ Bests!Window(ls) = Bests!Timed(ls) \/ Bests!Cardinality(Bests!Window(ls)) >= SpanWindow
<1> DEFINE timed == Bests!Timed(ls)
           w == Bests!Window(ls)
           after(n) == {m \in timed : n < m}
<1>1. /\ w \subseteq timed /\ timed \subseteq 1..Len(ls)
      /\ \A n \in timed : n \in w <=> Bests!Cardinality(after(n)) < SpanWindow
  BY DEF Bests!Window, Bests!Timed
<1>2. Len(ls) \in Nat OBVIOUS
<1> HIDE DEF timed, w
<1>3. ASSUME w # timed, ~(Bests!Cardinality(w) >= SpanWindow)
      PROVE  FALSE
  <2>1. timed \ w \subseteq 1..Len(ls) /\ timed \ w # {} BY <1>1, <1>3
  <2>2. PICK n \in timed \ w : \A k \in timed \ w : k <= n BY <2>1, <1>2, Greatest
  <2>3. after(n) \subseteq w
    <3> SUFFICES ASSUME NEW m \in timed, n < m, m \notin w PROVE FALSE OBVIOUS
    <3>1. m <= n BY <2>2
    <3>2. m \in Nat /\ n \in Nat BY <1>1
    <3> QED BY <3>1, <3>2
  <2>4. w \subseteq 1..Len(ls) BY <1>1
  <2>5. /\ Bests!Cardinality(after(n)) <= Bests!Cardinality(w)
        /\ Bests!Cardinality(after(n)) \in Nat /\ Bests!Cardinality(w) \in Nat
    BY <1>2, <2>3, <2>4, Counting
  <2>6. ~(Bests!Cardinality(after(n)) < SpanWindow) BY <1>1, <2>2
  <2>7. SpanWindow \in Nat BY SpansAssumption
  <2> QED BY <1>3, <2>5, <2>6, <2>7
<1> QED BY <1>1, <1>3 DEF timed, w

\* What fewer than k are below, and k are not above, is the k-th shortest span.
LEMMA NthIs ==
    ASSUME NEW ls \in Seq(LapRec), NEW w, w \subseteq 1..Len(ls), NEW k \in Nat,
           NEW n0 \in w,
           Bests!Cardinality({n \in w : ls[n].span < ls[n0].span}) < k,
           k <= Bests!Cardinality({n \in w : ls[n].span <= ls[n0].span})
    PROVE  Bests!Nth(ls, w, k) = ls[n0].span
<1> DEFINE below(v) == {n \in w : ls[n].span < v}
           upto(v) == {n \in w : ls[n].span <= v}
           spans == {ls[n].span : n \in w}
           is(v) == Bests!Cardinality(below(v)) < k /\ k <= Bests!Cardinality(upto(v))
<1>1. Len(ls) \in Nat /\ \A n \in w : ls[n].span \in Nat
  <2>1. \A n \in w : ls[n] \in LapRec OBVIOUS
  <2>2. Spans \subseteq Nat BY SpansAssumption
  <2>3. \A n \in w : ls[n].span \in Spans BY <2>1 DEF LapRec
  <2>4. \A n \in w : ls[n].span \in Nat BY <2>2, <2>3
  <2>5. Len(ls) \in Nat OBVIOUS
  <2> QED BY <2>4, <2>5
<1>2. ls[n0].span \in spans /\ is(ls[n0].span) OBVIOUS
<1>3. ASSUME NEW u \in spans, NEW v \in spans, u < v, is(u), is(v)
      PROVE  FALSE
  <2>1. u \in Nat /\ v \in Nat BY <1>1
  <2>2. upto(u) \subseteq below(v)
    <3> SUFFICES ASSUME NEW n \in w, ls[n].span <= u PROVE ls[n].span < v OBVIOUS
    <3>1. ls[n].span \in Nat BY <1>1
    <3> QED BY <1>3, <2>1, <3>1
  <2>3. below(v) \subseteq 1..Len(ls) OBVIOUS
  <2>4. /\ Bests!Cardinality(upto(u)) <= Bests!Cardinality(below(v))
        /\ Bests!Cardinality(upto(u)) \in Nat /\ Bests!Cardinality(below(v)) \in Nat
    BY <1>1, <2>2, <2>3, Counting
  <2> QED BY <1>3, <2>4
<1>4. \A v \in spans : is(v) => v = ls[n0].span
  <2> SUFFICES ASSUME NEW v \in spans, is(v), v # ls[n0].span PROVE FALSE OBVIOUS
  <2>1. v \in Nat /\ ls[n0].span \in Nat BY <1>1
  <2>2. v < ls[n0].span \/ ls[n0].span < v BY <2>1
  <2> HIDE DEF is, spans
  <2> QED BY <1>2, <1>3, <2>2
<1>5. Bests!Nth(ls, w, k) = CHOOSE v \in spans : is(v) BY DEF Bests!Nth
<1> HIDE DEF is, spans
<1> QED BY <1>2, <1>4, <1>5

\* When most of the recent laps ran the circuit, it is the yardstick: so a lap
\* is condemned if it is shorter or began off the line.
LEMMA CircuitIsYardstick ==
    ASSUME NEW ls \in Seq(LapRec),
           Bests!Cardinality(Bests!Timed(ls)) >= SpansForMedian,
           2 * Bests!Cardinality({n \in Bests!Window(ls) : ls[n].span = Circuit})
               > Bests!Cardinality(Bests!Window(ls))
    PROVE  Bests!Partial(ls) = {n \in Bests!Timed(ls) : ls[n].span < Circuit}
                                   \cup {n \in DOMAIN ls : ls[n].offLine}
<1> DEFINE timed == Bests!Timed(ls)
           w == Bests!Window(ls)
           whole == {n \in w : ls[n].span = Circuit}
           below == {n \in w : ls[n].span < Circuit}
           upto == {n \in w : ls[n].span <= Circuit}
           c == Bests!Cardinality(w)
<1>1. /\ Len(ls) \in Nat /\ DOMAIN ls = 1..Len(ls)
      /\ Circuit \in Nat \ {0} /\ Circuit \in Spans /\ SpansForMedian \in Nat \ {0, 1}
      /\ SpansForMedian <= SpanWindow /\ SpanWindow \in Nat
  BY SpansAssumption
<1>2. \A n \in DOMAIN ls : ls[n].span \in Spans /\ ls[n].span \in Nat
  <2>1. \A n \in DOMAIN ls : ls[n] \in LapRec OBVIOUS
  <2>2. Spans \subseteq Nat BY SpansAssumption
  <2>3. \A n \in DOMAIN ls : ls[n].span \in Spans BY <2>1 DEF LapRec
  <2> QED BY <2>2, <2>3
<1>3. w \subseteq timed /\ timed \subseteq 1..Len(ls) /\ (w = timed \/ c >= SpanWindow)
  BY WindowFull
<1>4. 2 * Bests!Cardinality(whole) > c /\ Bests!Cardinality(timed) >= SpansForMedian OBVIOUS
<1>4a. Bests!TwiceReference(ls) =
         IF c < SpansForMedian THEN 2 * Bests!Nth(ls, w, c)
         ELSE Bests!Nth(ls, w, (c + 1) \div 2) + Bests!Nth(ls, w, c \div 2 + 1)
  BY DEF Bests!TwiceReference
<1>4b. Bests!Percent(ls) = 97 BY <1>4 DEF Bests!Percent
<1>4c. Bests!Partial(ls) =
         (IF Bests!Cardinality(timed) <= 1 THEN {}
          ELSE {n \in timed : 200 * ls[n].span < Bests!Percent(ls) * Bests!TwiceReference(ls)})
         \cup {n \in DOMAIN ls : ls[n].offLine}
  BY DEF Bests!Partial
<1>4d. timed \subseteq DOMAIN ls BY <1>1, <1>3
<1> HIDE DEF timed, w
<1>5. w \subseteq 1..Len(ls) /\ whole \subseteq w /\ below \subseteq w \ whole /\ whole \subseteq upto
      /\ upto \subseteq w
  <2>1. w \subseteq 1..Len(ls) BY <1>3
  <2>2. \A n \in w : ls[n].span \in Nat BY <1>1, <1>2, <2>1
  <2>3. \A n \in w : ls[n].span < Circuit => ls[n].span # Circuit BY <1>1, <2>2
  <2>4. \A n \in w : ls[n].span = Circuit => ls[n].span <= Circuit BY <1>1, <2>2
  <2> QED BY <2>1, <2>3, <2>4
<1>6. c \in Nat /\ Bests!Cardinality(timed) \in Nat BY <1>1, <1>3, <1>5, Counting
<1>7. c >= SpansForMedian BY <1>1, <1>3, <1>4, <1>6
<1>8. /\ Bests!Cardinality(below) \in Nat /\ Bests!Cardinality(upto) \in Nat
      /\ Bests!Cardinality(whole) \in Nat
      /\ Bests!Cardinality(below) <= c - Bests!Cardinality(whole)
      /\ Bests!Cardinality(whole) <= Bests!Cardinality(upto)
  <2>1. /\ Bests!Cardinality(whole) \in Nat
        /\ Bests!Cardinality(w \ whole) = c - Bests!Cardinality(whole)
    BY <1>1, <1>5, Counting
  <2>2. w \ whole \subseteq 1..Len(ls) /\ upto \subseteq 1..Len(ls) BY <1>5
  <2>3. Bests!Cardinality(below) \in Nat /\ Bests!Cardinality(below) <= Bests!Cardinality(w \ whole)
    BY <1>1, <1>5, <2>2, Counting
  <2>4. Bests!Cardinality(upto) \in Nat /\ Bests!Cardinality(whole) <= Bests!Cardinality(upto)
    BY <1>1, <1>5, <2>2, Counting
  <2> QED BY <2>1, <2>3, <2>4
<1>9. PICK n0 \in w : ls[n0].span = Circuit
  <2>1. Bests!Cardinality(whole) # 0 BY <1>4, <1>6, <1>8
  <2>2. Bests!Cardinality({}) = 0 BY SameCount, FS_EmptySet
  <2> QED BY <2>1, <2>2
<1>10. ASSUME NEW k \in {(c + 1) \div 2, c \div 2 + 1}
       PROVE  Bests!Nth(ls, w, k) = Circuit
  <2>1. k \in Nat /\ Bests!Cardinality(below) < k /\ k <= Bests!Cardinality(upto)
    <3> HIDE DEF c, below, upto, whole
    <3> QED BY <1>4, <1>6, <1>8
  <2>2. /\ below = {n \in w : ls[n].span < ls[n0].span}
        /\ upto = {n \in w : ls[n].span <= ls[n0].span}
    BY <1>9
  <2> HIDE DEF below, upto, c
  <2>3. /\ Bests!Cardinality({n \in w : ls[n].span < ls[n0].span}) < k
        /\ k <= Bests!Cardinality({n \in w : ls[n].span <= ls[n0].span})
    BY <2>1, <2>2
  <2> QED BY <1>5, <1>9, <2>1, <2>3, NthIs
<1>11. Bests!TwiceReference(ls) = 2 * Circuit
  <2> HIDE DEF c
  <2>1. ~(c < SpansForMedian) BY <1>1, <1>6, <1>7
  <2>2. /\ Bests!Nth(ls, w, (c + 1) \div 2) = Circuit
        /\ Bests!Nth(ls, w, c \div 2 + 1) = Circuit
    BY <1>10
  <2>3. Bests!TwiceReference(ls) = Circuit + Circuit BY <1>4a, <2>1, <2>2
  <2> QED BY <1>1, <2>3
<1>12. ASSUME NEW n \in timed
       PROVE  200 * ls[n].span < 97 * (2 * Circuit) <=> ls[n].span < Circuit
  <2>1. ls[n].span \in Spans /\ ls[n].span \in Nat BY <1>2, <1>4d
  <2>2. ls[n].span < Circuit => 100 * ls[n].span < 97 * Circuit BY <2>1, SpansAssumption
  <2> QED BY <1>1, <2>1, <2>2
<1>13. ~(Bests!Cardinality(timed) <= 1) BY <1>1, <1>4, <1>6
<1>14. {n \in timed : 200 * ls[n].span < Bests!Percent(ls) * Bests!TwiceReference(ls)}
           = {n \in timed : ls[n].span < Circuit}
  BY <1>4b, <1>11, <1>12
<1> QED BY <1>4c, <1>13, <1>14 DEF timed

-----------------------------------------------------------------------------
(* The rows, the verdicts and the best.                                    *)

Mark == [full : BOOLEAN, over : {"none", "in", "out", "lost"}]
Request == [n : Nat, over : {"none", "in", "out"}, session : Nat]

\* A ruling on lap n of this session that waits for the lock, and the last.
Waits(q, n) == {i \in DOMAIN q : q[i].session = session /\ q[i].n = n}
LastOf(q, n, i) == i \in Waits(q, n) /\ \A j \in Waits(q, n) : j <= i

\* What the row of a lap says is what the last ruling that waits says, or the
\* processor if none does.
Said(q, over, n) ==
    \/ Waits(q, n) = {} /\ marks[n].over = over[n]
    \/ \E i \in DOMAIN q : LastOf(q, n, i) /\ q[i].over = marks[n].over

Quiet == \A i \in DOMAIN asked : asked[i].session # session
Settled == busy \in {"no", "reloading"} \/ (busy = "saving" /\ ~lap.changed)
Condemned == Bests!Excluded(laps, partial, overrides)

BestsTypes ==
    /\ laps \in Seq(LapRec)
    /\ overrides \in Seq({"none", "in", "out"}) /\ Len(overrides) = Len(laps)
    /\ marks \in Seq(Mark) /\ asked \in Seq(Request)
    /\ session \in Nat /\ torn \in BOOLEAN
    /\ busy \in {"no", "saving", "marking", "reloading"}
    /\ Len(laps) = Len(marks) + (IF busy = "saving" THEN 1 ELSE 0)

BestsSound ==
    /\ BestsTypes
    /\ partial = Bests!Partial(laps)
    /\ best = Bests!Fastest(laps, DOMAIN laps \ Condemned)
    /\ busy \in {"saving", "marking"} =>
          lap.n = Len(laps) /\ lap.excluded = Condemned /\ lap.changed \in BOOLEAN
    /\ busy = "marking" => lap.changed /\ lap.n \in Bests!Stored
    /\ \A i \in DOMAIN asked :
          asked[i].session <= session /\ (asked[i].session = session => asked[i].n \in Bests!Stored)
    /\ \A n \in Bests!Stored : Said(asked, overrides, n)
    /\ ref = 0 \/ ref \in Bests!Stored
    /\ ~torn /\ Settled => \A n \in Bests!Stored : marks[n].full = (n \notin partial)
    /\ ~torn /\ busy \in {"no", "reloading"} => shown = best
    /\ ~torn /\ Quiet /\ Settled /\ busy # "reloading" /\ ref # 0 => ref \notin Condemned

LEMMA BestsBegin == Bests!Init => BestsSound
<1> SUFFICES ASSUME Bests!Init PROVE BestsSound OBVIOUS
<1> USE DEF Bests!Init, Bests!Empty, Bests!None
<1>1. /\ laps = <<>> /\ overrides = <<>> /\ marks = <<>> /\ asked = <<>> /\ partial = {}
      /\ session = 1 /\ torn = FALSE /\ busy = "no" /\ best = 0 /\ shown = 0 /\ ref = 0
  OBVIOUS
<1>2. BestsTypes
  <2>1. /\ laps \in Seq(LapRec) /\ overrides \in Seq({"none", "in", "out"})
        /\ marks \in Seq(Mark) /\ asked \in Seq(Request)
        /\ Len(laps) = 0 /\ Len(overrides) = 0 /\ Len(marks) = 0
    BY <1>1
  <2>2. session \in Nat OBVIOUS
  <2>3. torn \in BOOLEAN /\ busy = "no" OBVIOUS
  <2> QED BY <2>1, <2>2, <2>3 DEF BestsTypes
<1>3. DOMAIN laps = {} /\ DOMAIN marks = {} /\ DOMAIN asked = {} BY <1>1
<1>4. Bests!Timed(laps) = {} /\ Bests!Stored = {} BY <1>3 DEF Bests!Timed, Bests!Stored
<1>5. partial = Bests!Partial(laps)
  <2>1. Bests!Cardinality({}) = 0 BY SameCount, FS_EmptySet
  <2>2. Bests!Partial(laps) = (IF Bests!Cardinality({}) <= 1 THEN {} ELSE {})
    BY <1>3, <1>4 DEF Bests!Partial
  <2> QED BY <1>1, <2>2
<1>6. best = Bests!Fastest(laps, DOMAIN laps \ Condemned) BY <1>1, <1>3 DEF Bests!Fastest
<1> QED BY <1>1, <1>2, <1>3, <1>4, <1>5, <1>6 DEF BestsSound, Settled

\* With nothing waiting, rows in line and a reference that counts, the promise.
LEMMA BestsPromise == BestsSound => VerdictsHold
<1> SUFFICES ASSUME BestsSound PROVE VerdictsHold OBVIOUS
<1>1. Bests!JudgedByMajority
  <2>1. laps \in Seq(LapRec) /\ partial = Bests!Partial(laps) BY DEF BestsSound, BestsTypes
  <2> QED BY <2>1, CircuitIsYardstick DEF Bests!JudgedByMajority
<1>2. ASSUME Bests!AtRest, ~torn
      PROVE  /\ \A n \in Bests!Stored :
                   marks[n].full = (n \notin partial) /\ marks[n].over = overrides[n]
             /\ Bests!AllSaved =>
                   shown = Bests!Fastest(laps, {n \in Bests!Stored : Bests!Counts(marks[n])})
             /\ ref # 0 => ref \in Bests!Stored /\ Bests!Counts(marks[ref])
  <2>1. busy = "no" /\ asked = <<>> BY <1>2 DEF Bests!AtRest
  <2>2. DOMAIN asked = {} /\ Quiet BY <2>1 DEF Quiet
  <2>3. ASSUME NEW n \in Bests!Stored
        PROVE  marks[n].full = (n \notin partial) /\ marks[n].over = overrides[n]
    <3>1. marks[n].over = overrides[n] BY <2>2 DEF BestsSound, Said
    <3>2. marks[n].full = (n \notin partial) BY <1>2, <2>1 DEF BestsSound, Settled
    <3> QED BY <3>1, <3>2
  <2>4. DOMAIN marks = DOMAIN laps /\ DOMAIN overrides = DOMAIN laps
    BY <2>1 DEF BestsSound, BestsTypes
  <2>5. ASSUME NEW n \in Bests!Stored
        PROVE  n \in DOMAIN laps /\ (Bests!Counts(marks[n]) <=> n \notin Condemned)
    <3>1. n \in DOMAIN laps /\ n \in DOMAIN marks BY <2>4 DEF Bests!Stored
    <3>2. overrides[n] \in {"none", "in", "out"} BY <2>4, <3>1 DEF BestsSound, BestsTypes
    <3> QED BY <2>3, <3>1, <3>2 DEF Bests!Counts, Condemned, Bests!Excluded
  <2>6. ASSUME Bests!AllSaved
        PROVE  shown = Bests!Fastest(laps, {n \in Bests!Stored : Bests!Counts(marks[n])})
    <3>1. Bests!Stored = DOMAIN laps BY <2>4, <2>6 DEF Bests!AllSaved
    <3>2. {n \in Bests!Stored : Bests!Counts(marks[n])} = DOMAIN laps \ Condemned
      BY <2>5, <3>1
    <3>3. shown = best BY <1>2, <2>1 DEF BestsSound
    <3> QED BY <3>2, <3>3 DEF BestsSound
  <2>7. ASSUME ref # 0
        PROVE  ref \in Bests!Stored /\ Bests!Counts(marks[ref])
    <3>1. ref \in Bests!Stored BY <2>7 DEF BestsSound
    <3>2. ref \notin Condemned BY <1>2, <2>1, <2>2, <2>7 DEF BestsSound, Settled
    <3> QED BY <2>5, <3>1, <3>2
  <2> QED BY <2>3, <2>6, <2>7
<1> QED BY <1>1, <1>2 DEF VerdictsHold, Bests!VerdictsHold, Bests!RowsFollow, Bests!None

LEMMA StoredLaps ==
    ASSUME BestsTypes
    PROVE  /\ Bests!Stored \subseteq DOMAIN marks /\ DOMAIN marks \subseteq DOMAIN laps
           /\ DOMAIN overrides = DOMAIN laps /\ DOMAIN laps = 1..Len(laps) /\ Len(laps) \in Nat
           /\ DOMAIN marks = 1..Len(marks) /\ Len(marks) \in Nat
BY DEF BestsTypes, Bests!Stored

LEMMA LapCompletesKept == BestsSound /\ Bests!LapCompletes => BestsSound'
<1> SUFFICES ASSUME BestsSound, Bests!LapCompletes PROVE BestsSound' OBVIOUS
<1>0. PICK span \in Spans : \E time \in Times[span], offLine \in BOOLEAN, raced \in BOOLEAN :
          /\ laps' = Append(laps, [span |-> span, time |-> time, offLine |-> offLine])
          /\ overrides' = Append(overrides, IF raced THEN "out" ELSE "none")
  BY DEF Bests!LapCompletes
<1>1. PICK time \in Times[span], offLine \in BOOLEAN, raced \in BOOLEAN :
          /\ laps' = Append(laps, [span |-> span, time |-> time, offLine |-> offLine])
          /\ overrides' = Append(overrides, IF raced THEN "out" ELSE "none")
  BY <1>0
<1>2. busy = "no" /\ busy' = "saving" /\ UNCHANGED <<marks, shown, ref, asked, session, torn>>
  BY DEF Bests!LapCompletes
<1> DEFINE lp == [span |-> span, time |-> time, offLine |-> offLine]
           rul == IF raced THEN "out" ELSE "none"
<1>3. lp \in LapRec
  <2>1. Times[span] \subseteq Nat \ {0} BY SpansAssumption
  <2> QED BY <2>1 DEF LapRec
<1>4. rul \in {"none", "in", "out"} OBVIOUS
<1>5. /\ laps' = Append(laps, lp) /\ overrides' = Append(overrides, rul)
      /\ partial' = Bests!Partial(laps')
      /\ best' = Bests!Fastest(laps', DOMAIN laps' \ Condemned')
      /\ lap'.n = Len(laps') /\ lap'.excluded = Condemned'
      /\ lap'.changed = (partial' # partial)
  BY <1>1 DEF Condemned, Bests!LapCompletes
<1> HIDE DEF lp, rul
<1>6. BestsTypes BY DEF BestsSound
<1>7. /\ Len(laps') = Len(laps) + 1 /\ laps' \in Seq(LapRec)
      /\ Len(overrides') = Len(overrides) + 1 /\ overrides' \in Seq({"none", "in", "out"})
      /\ \A n \in DOMAIN laps : overrides'[n] = overrides[n] /\ n \in DOMAIN laps'
  BY <1>3, <1>4, <1>5, <1>6 DEF BestsTypes
<1>8. BestsTypes' BY <1>2, <1>6, <1>7 DEF BestsTypes
<1>9. Bests!Stored' = Bests!Stored /\ Bests!Stored \subseteq DOMAIN laps
  BY <1>2, <1>6, StoredLaps DEF Bests!Stored
<1>10. \A n \in Bests!Stored' : Said(asked, overrides, n)'
  <2> SUFFICES ASSUME NEW n \in Bests!Stored PROVE Said(asked, overrides, n)' BY <1>9
  <2>1. Said(asked, overrides, n) BY DEF BestsSound
  <2>2. overrides'[n] = overrides[n] BY <1>7, <1>9
  <2> QED BY <1>2, <2>1, <2>2 DEF Said, Waits, LastOf
<1>11. ASSUME ~lap'.changed
       PROVE  /\ partial' = partial
              /\ \A n \in Bests!Stored : n \in Condemned' => n \in Condemned
  <2>1. partial' = partial BY <1>5, <1>11
  <2>2. ASSUME NEW n \in Bests!Stored, n \in Condemned' PROVE n \in Condemned
    <3>1. n \in DOMAIN laps /\ overrides'[n] = overrides[n] BY <1>7, <1>9
    <3> QED BY <2>1, <2>2, <3>1 DEF Condemned, Bests!Excluded
  <2> QED BY <2>1, <2>2
<1>12. Settled' => ~lap'.changed BY <1>2 DEF Settled
<1>13. Settled BY <1>2 DEF Settled
<1>14. lap'.n = Len(laps') /\ lap'.changed \in BOOLEAN BY <1>5, <1>7
<1>15. Quiet' <=> Quiet BY <1>2 DEF Quiet
<1> QED
  BY <1>2, <1>5, <1>8, <1>9, <1>10, <1>11, <1>12, <1>13, <1>14, <1>15 DEF BestsSound

\* The lap in hand: who reads its fields at the last await.
LEMMA AdoptedRef ==
    ASSUME BestsSound, Bests!Adopted, busy \in {"saving", "marking"},
           NEW S, Bests!Stored \subseteq S, Len(laps) \in S
    PROVE  /\ ref' = 0 \/ ref' \in S
           /\ shown' = best /\ busy' = "no"
           /\ ref' # 0 => ref' \notin Condemned \/ (ref' = ref /\ ~lap.changed)
<1>1. lap.n = Len(laps) /\ lap.excluded = Condemned BY DEF BestsSound
<1>2. ref' = lap.n \/ ref' = 0 \/ ref' = ref BY DEF Bests!Adopted, Bests!None
<1>3. ref = 0 \/ ref \in Bests!Stored BY DEF BestsSound
<1>4. ref' # 0 => ref' \notin Condemned \/ (ref' = ref /\ ~lap.changed)
  BY <1>1 DEF Bests!Adopted, Bests!None
<1>5. shown' = best /\ busy' = "no" BY DEF Bests!Adopted
<1> QED BY <1>1, <1>2, <1>3, <1>4, <1>5

LEMMA LapSavedKept == BestsSound /\ Bests!LapSaved => BestsSound'
<1> SUFFICES ASSUME BestsSound, Bests!LapSaved PROVE BestsSound' OBVIOUS
<1>1. /\ busy = "saving" /\ marks' = Append(marks, Bests!NewRow)
      /\ UNCHANGED <<laps, partial, overrides, best, asked, session, torn>>
  BY DEF Bests!LapSaved, Bests!processor
<1>2. (lap.changed /\ busy' = "marking" /\ UNCHANGED <<shown, ref, lap>>) \/ (~lap.changed /\ Bests!Adopted)
  BY DEF Bests!LapSaved
<1>3. BestsTypes /\ lap.n = Len(laps) /\ lap.excluded = Condemned BY <1>1 DEF BestsSound
<1>4. Len(laps) = Len(marks) + 1 /\ lap.n \in DOMAIN laps BY <1>1, <1>3 DEF BestsTypes
<1>5. overrides[lap.n] \in {"none", "in", "out"} BY <1>3, <1>4, StoredLaps DEF BestsTypes
<1>6. /\ Bests!NewRow \in Mark /\ Bests!NewRow.full = (lap.n \notin partial)
      /\ Bests!NewRow.over = overrides[lap.n]
  BY <1>5 DEF Bests!NewRow, Mark
<1>7. /\ marks' \in Seq(Mark) /\ Len(marks') = Len(marks) + 1
      /\ DOMAIN marks' = DOMAIN marks \cup {Len(laps)}
      /\ marks'[Len(laps)] = Bests!NewRow
      /\ \A n \in DOMAIN marks : marks'[n] = marks[n] /\ n # Len(laps)
  <2> HIDE DEF Bests!NewRow
  <2> QED BY <1>1, <1>3, <1>4, <1>6 DEF BestsTypes
<1>8. Bests!Stored' = Bests!Stored \cup {Len(laps)}
  BY <1>3, <1>5, <1>6, <1>7 DEF Bests!Stored
<1>9. busy' \in {"marking", "no"} BY <1>2 DEF Bests!Adopted
<1>10. BestsTypes' BY <1>1, <1>3, <1>4, <1>7, <1>9 DEF BestsTypes
<1>11. ref' = 0 \/ ref' \in Bests!Stored'
  <2>1. CASE Bests!Adopted BY <1>1, <1>8, <2>1, AdoptedRef
  <2>2. CASE UNCHANGED ref BY <1>8, <2>2 DEF BestsSound
  <2> QED BY <1>2, <2>1, <2>2
<1>12. \A n \in Bests!Stored' : Said(asked, overrides, n)'
  <2>1. CASE TRUE
    <3> SUFFICES ASSUME NEW n \in Bests!Stored' PROVE Said(asked, overrides, n)' OBVIOUS
    <3>1. CASE n \in Bests!Stored
      <4>1. marks'[n] = marks[n] BY <1>7, <3>1 DEF Bests!Stored
      <4>2. Said(asked, overrides, n) BY <3>1 DEF BestsSound
      <4> QED BY <1>1, <4>1, <4>2 DEF Said, Waits, LastOf
    <3>2. CASE n = Len(laps)
      <4>1. marks'[n].over = overrides'[n] BY <1>1, <1>3, <1>6, <1>7, <3>2
      <4>2. n \notin Bests!Stored BY <1>7, <3>2 DEF Bests!Stored
      <4>3. Waits(asked, n) = {} BY <4>2 DEF BestsSound, Waits
      <4> QED BY <1>1, <4>1, <4>3 DEF Said, Waits
    <3> QED BY <1>8, <3>1, <3>2
  <2> QED BY <2>1
<1>13. \A i \in DOMAIN asked' :
          /\ asked'[i].session <= session'
          /\ asked'[i].session = session' => asked'[i].n \in Bests!Stored'
  BY <1>1, <1>8 DEF BestsSound
<1>14. Condemned' = Condemned /\ (Quiet' <=> Quiet) BY <1>1 DEF Condemned, Quiet
<1>15. ASSUME Bests!Adopted, ~lap.changed
       PROVE  BestsSound'
  <2>1. Settled BY <1>1, <1>15 DEF Settled
  <2>2. /\ shown' = best /\ busy' = "no"
        /\ ref' # 0 => ref' \notin Condemned \/ (ref' = ref /\ ~lap.changed)
    <3>1. Bests!Stored \subseteq Bests!Stored' /\ Len(laps) \in Bests!Stored' BY <1>8
    <3>2. busy \in {"saving", "marking"} BY <1>1
    <3> QED BY <1>15, <3>1, <3>2, AdoptedRef
  <2>3. ~torn' => \A n \in Bests!Stored' : marks'[n].full = (n \notin partial')
    <3> SUFFICES ASSUME ~torn, NEW n \in Bests!Stored'
                 PROVE  marks'[n].full = (n \notin partial)
      BY <1>1
    <3>1. CASE n \in Bests!Stored
      <4>1. marks'[n] = marks[n] BY <1>7, <3>1 DEF Bests!Stored
      <4> QED BY <2>1, <3>1, <4>1 DEF BestsSound
    <3>2. CASE n = Len(laps) BY <1>3, <1>6, <1>7, <3>2
    <3> QED BY <1>8, <3>1, <3>2
  <2>4. ~torn /\ Quiet /\ ref # 0 => ref \notin Condemned BY <1>1, <2>1 DEF BestsSound
  <2>5. ~torn' /\ Quiet' /\ ref' # 0 => ref' \notin Condemned' BY <1>1, <1>14, <2>2, <2>4
  <2>6. /\ partial' = Bests!Partial(laps')
        /\ best' = Bests!Fastest(laps', DOMAIN laps' \ Condemned')
    BY <1>1, <1>14 DEF BestsSound
  <2> QED BY <1>1, <1>10, <1>11, <1>12, <1>13, <2>2, <2>3, <2>5, <2>6 DEF BestsSound
<1>16. ASSUME lap.changed, busy' = "marking", UNCHANGED <<shown, ref, lap>>
       PROVE  BestsSound'
  <2>1. ~Settled' BY <1>16 DEF Settled
  <2>2. lap'.n \in Bests!Stored' BY <1>3, <1>8, <1>16
  <2>3. /\ partial' = Bests!Partial(laps')
        /\ best' = Bests!Fastest(laps', DOMAIN laps' \ Condemned')
    BY <1>1, <1>14 DEF BestsSound
  <2>4. lap'.n = Len(laps') /\ lap'.excluded = Condemned' /\ lap'.changed \in BOOLEAN /\ lap'.changed
    BY <1>1, <1>3, <1>14, <1>16 DEF BestsSound
  <2> QED BY <1>10, <1>11, <1>12, <1>13, <1>16, <2>1, <2>2, <2>3, <2>4 DEF BestsSound
<1> QED BY <1>2, <1>15, <1>16

LEMMA LapNotSavedKept == BestsSound /\ Bests!LapNotSaved => BestsSound'
<1> SUFFICES ASSUME BestsSound, Bests!LapNotSaved PROVE BestsSound' OBVIOUS
<1> DEFINE lostRow == [full |-> FALSE, over |-> "lost"]
<1>1. /\ busy = "saving" /\ marks' = Append(marks, lostRow) /\ torn' = TRUE /\ busy' = "no"
      /\ UNCHANGED <<laps, partial, overrides, best, shown, ref, asked, session>>
  BY DEF Bests!LapNotSaved, Bests!processor
<1>2. lostRow \in Mark /\ lostRow.over = "lost" BY DEF Mark
<1>3. BestsTypes /\ Len(laps) = Len(marks) + 1 BY <1>1 DEF BestsSound, BestsTypes
<1> HIDE DEF lostRow
<1>4. /\ marks' \in Seq(Mark) /\ Len(marks') = Len(marks) + 1
      /\ DOMAIN marks' = DOMAIN marks \cup {Len(laps)}
      /\ marks'[Len(laps)] = lostRow
      /\ \A n \in DOMAIN marks : marks'[n] = marks[n] /\ n # Len(laps)
  BY <1>1, <1>2, <1>3 DEF BestsTypes
<1>5. Bests!Stored' = Bests!Stored BY <1>2, <1>4 DEF Bests!Stored
<1>6. BestsTypes' BY <1>1, <1>3, <1>4 DEF BestsTypes
<1>7. \A n \in Bests!Stored' : Said(asked, overrides, n)'
  <2> SUFFICES ASSUME NEW n \in Bests!Stored PROVE Said(asked, overrides, n)' BY <1>5
  <2>1. marks'[n] = marks[n] BY <1>4 DEF Bests!Stored
  <2>2. Said(asked, overrides, n) BY DEF BestsSound
  <2> QED BY <1>1, <2>1, <2>2 DEF Said, Waits, LastOf
<1>8. Condemned' = Condemned BY <1>1 DEF Condemned
<1> QED BY <1>1, <1>5, <1>6, <1>7, <1>8 DEF BestsSound

LEMMA RowsMarkedKept == BestsSound /\ Bests!RowsMarked => BestsSound'
<1> SUFFICES ASSUME BestsSound, Bests!RowsMarked PROVE BestsSound' OBVIOUS
<1>1. /\ busy = "marking" /\ marks' = Bests!Marked(marks) /\ torn' = FALSE /\ Bests!Adopted
      /\ UNCHANGED <<laps, partial, overrides, best, asked, session>>
  BY DEF Bests!RowsMarked, Bests!processor
<1>2. BestsTypes /\ Len(laps) = Len(marks) BY <1>1 DEF BestsSound, BestsTypes
<1>3. \A n \in DOMAIN marks : marks[n] \in Mark BY <1>2 DEF BestsTypes
<1>4. /\ DOMAIN marks' = DOMAIN marks
      /\ \A n \in DOMAIN marks :
            /\ marks'[n] = [marks[n] EXCEPT !.full = (n \notin partial)]
  BY <1>1 DEF Bests!Marked
<1>5. \A n \in DOMAIN marks :
         marks'[n] \in Mark /\ marks'[n].full = (n \notin partial) /\ marks'[n].over = marks[n].over
  BY <1>3, <1>4 DEF Mark
<1>6. marks' \in Seq(Mark) /\ Len(marks') = Len(marks)
  <2>1. DOMAIN marks = 1..Len(marks) /\ Len(marks) \in Nat BY <1>2, StoredLaps
  <2>2. marks' = [n \in 1..Len(marks) |-> [marks[n] EXCEPT !.full = (n \notin partial)]]
    BY <1>1, <2>1 DEF Bests!Marked
  <2>3. \A n \in 1..Len(marks) : [marks[n] EXCEPT !.full = (n \notin partial)] \in Mark
    BY <1>4, <1>5, <2>1
  <2>4. marks' \in [1..Len(marks) -> Mark] BY <2>2, <2>3
  <2> QED BY <2>1, <2>4
<1>7. Bests!Stored' = Bests!Stored BY <1>4, <1>5 DEF Bests!Stored
<1>8. busy' = "no" BY <1>1 DEF Bests!Adopted
<1>9. BestsTypes' BY <1>1, <1>2, <1>6, <1>8 DEF BestsTypes
<1>10. \A n \in Bests!Stored' : Said(asked, overrides, n)'
  <2> SUFFICES ASSUME NEW n \in Bests!Stored PROVE Said(asked, overrides, n)' BY <1>7
  <2>1. marks'[n].over = marks[n].over BY <1>5 DEF Bests!Stored
  <2>2. Said(asked, overrides, n) BY DEF BestsSound
  <2> QED BY <1>1, <2>1, <2>2 DEF Said, Waits, LastOf
<1>11. Condemned' = Condemned BY <1>1 DEF Condemned
<1>12. /\ ref' = 0 \/ ref' \in Bests!Stored
       /\ shown' = best
       /\ ref' # 0 => ref' \notin Condemned
  <2>1. lap.changed /\ Len(laps) \in Bests!Stored BY <1>1 DEF BestsSound
  <2> QED BY <1>1, <2>1, AdoptedRef
<1>13. \A n \in Bests!Stored' : marks'[n].full = (n \notin partial')
  BY <1>1, <1>5, <1>7 DEF Bests!Stored
<1> QED BY <1>1, <1>7, <1>8, <1>9, <1>10, <1>11, <1>12, <1>13 DEF BestsSound

LEMMA RowsNotMarkedKept == BestsSound /\ Bests!RowsNotMarked => BestsSound'
<1> SUFFICES ASSUME BestsSound, Bests!RowsNotMarked PROVE BestsSound' OBVIOUS
<1>1. /\ busy = "marking" /\ torn' = TRUE /\ busy' = "no"
      /\ UNCHANGED <<laps, partial, overrides, best, marks, shown, ref, asked, session>>
  BY DEF Bests!RowsNotMarked, Bests!processor
<1>2. BestsTypes' BY <1>1 DEF BestsSound, BestsTypes
<1>3. Bests!Stored' = Bests!Stored /\ Condemned' = Condemned
  BY <1>1 DEF Bests!Stored, Condemned
<1>4. \A n \in Bests!Stored' : Said(asked, overrides, n)'
  BY <1>1, <1>3 DEF BestsSound, Said, Waits, LastOf
<1> QED BY <1>1, <1>2, <1>3, <1>4 DEF BestsSound

LEMMA RulesKept == BestsSound /\ Bests!Rules => BestsSound'
<1> SUFFICES ASSUME BestsSound, Bests!Rules PROVE BestsSound' OBVIOUS
<1>1. PICK n0 \in Bests!Stored, over \in {"none", "in", "out"} :
        /\ marks' = [marks EXCEPT ![n0].over = over]
        /\ asked' = Append(asked, [n |-> n0, over |-> over, session |-> session])
  BY DEF Bests!Rules, Bests!Ruling
<1>2. UNCHANGED <<laps, partial, overrides, best, shown, ref, busy, lap, session, torn>>
  BY DEF Bests!Rules, Bests!processor, Bests!service
<1>3. BestsTypes BY DEF BestsSound
<1>4. /\ n0 \in DOMAIN marks /\ marks[n0] \in Mark /\ n0 \in Nat
      /\ DOMAIN marks = 1..Len(marks) /\ Len(marks) \in Nat
  BY <1>3, StoredLaps DEF BestsTypes, Bests!Stored
<1> DEFINE q == [n |-> n0, over |-> over, session |-> session]
           m0 == [marks[n0] EXCEPT !.over = over]
<1>5. /\ q \in Request /\ q.n = n0 /\ q.over = over /\ q.session = session
      /\ m0 \in Mark /\ m0.full = marks[n0].full /\ m0.over = over
  BY <1>3, <1>4 DEF Request, Mark, BestsTypes
<1>6. marks' = [marks EXCEPT ![n0] = m0] BY <1>1
<1>7. asked' = Append(asked, q) BY <1>1
<1> HIDE DEF q, m0
<1>8. /\ marks' \in Seq(Mark) /\ Len(marks') = Len(marks) /\ DOMAIN marks' = DOMAIN marks
      /\ marks'[n0] = m0 /\ \A n \in DOMAIN marks : n # n0 => marks'[n] = marks[n]
  BY <1>3, <1>4, <1>5, <1>6 DEF BestsTypes
<1>9. /\ asked' \in Seq(Request) /\ Len(asked') = Len(asked) + 1
      /\ asked'[Len(asked) + 1] = q /\ \A i \in DOMAIN asked : asked'[i] = asked[i]
      /\ DOMAIN asked' = DOMAIN asked \cup {Len(asked) + 1}
      /\ DOMAIN asked = 1..Len(asked) /\ Len(asked) \in Nat
  BY <1>3, <1>5, <1>7 DEF BestsTypes
<1>10. BestsTypes' BY <1>2, <1>3, <1>8, <1>9 DEF BestsTypes
<1>11. Bests!Stored' = Bests!Stored
  <2>1. over # "lost" OBVIOUS
  <2> QED BY <1>5, <1>8, <2>1 DEF Bests!Stored
<1>12. \A n \in Bests!Stored' : Said(asked, overrides, n)'
  <2> SUFFICES ASSUME NEW n \in Bests!Stored PROVE Said(asked, overrides, n)' BY <1>11
  <2>1. CASE n = n0
    <3>1. PICK i \in DOMAIN asked' : i = Len(asked) + 1 BY <1>9
    <3>2. asked'[i].session = session' /\ asked'[i].n = n /\ asked'[i].over = marks'[n].over
      BY <1>2, <1>5, <1>8, <1>9, <2>1, <3>1
    <3>3. \A j \in DOMAIN asked' : j <= i BY <1>9, <3>1
    <3>4. LastOf(asked, n, i)' BY <3>2, <3>3 DEF LastOf, Waits
    <3> QED BY <3>2, <3>4 DEF Said
  <2>2. CASE n # n0
    <3>1. Waits(asked, n)' = Waits(asked, n) BY <1>2, <1>5, <1>9, <2>2 DEF Waits
    <3>2. marks'[n] = marks[n] BY <1>8, <2>2 DEF Bests!Stored
    <3>3. Said(asked, overrides, n) BY DEF BestsSound
    <3>4. CASE Waits(asked, n) = {} /\ marks[n].over = overrides[n]
      BY <1>2, <3>1, <3>2, <3>4 DEF Said
    <3>5. ASSUME NEW i \in DOMAIN asked, LastOf(asked, n, i), asked[i].over = marks[n].over
          PROVE  Said(asked, overrides, n)'
      <4>1. LastOf(asked, n, i)' BY <3>1, <3>5 DEF LastOf
      <4>2. asked'[i].over = marks'[n].over /\ i \in DOMAIN asked' BY <1>9, <3>2, <3>5
      <4> QED BY <4>1, <4>2 DEF Said
    <3> QED BY <3>3, <3>4, <3>5 DEF Said
  <2> QED BY <2>1, <2>2
<1>13. \A i \in DOMAIN asked' :
          /\ asked'[i].session <= session'
          /\ asked'[i].session = session' => asked'[i].n \in Bests!Stored'
  <2>1. session \in Nat BY <1>3 DEF BestsTypes
  <2> QED BY <1>2, <1>5, <1>9, <1>11, <2>1 DEF BestsSound
<1>14. ~Quiet' BY <1>2, <1>5, <1>9 DEF Quiet
<1>15. Condemned' = Condemned /\ (Settled' <=> Settled) BY <1>2 DEF Condemned, Settled
<1>16. \A n \in Bests!Stored : marks'[n].full = marks[n].full BY <1>5, <1>8 DEF Bests!Stored
<1> QED BY <1>2, <1>10, <1>11, <1>12, <1>13, <1>14, <1>15, <1>16 DEF BestsSound

\* The ruling at the head leaves the queue: those behind it move up by one.
LEMMA OneLess ==
    ASSUME asked \in Seq(Request), asked # <<>>, asked' = Tail(asked), session' = session
    PROVE  /\ asked' \in Seq(Request) /\ 1 \in DOMAIN asked /\ Head(asked) = asked[1]
           /\ \A i \in DOMAIN asked' : i \in Nat \ {0} /\ i + 1 \in DOMAIN asked /\ asked'[i] = asked[i + 1]
           /\ \A i \in DOMAIN asked : i \in Nat /\ (i # 1 => i - 1 \in DOMAIN asked' /\ asked'[i - 1] = asked[i])
<1>1. Len(asked) \in Nat /\ Len(asked) # 0 /\ DOMAIN asked = 1..Len(asked) OBVIOUS
<1>2. asked' \in Seq(Request) /\ Len(asked') = Len(asked) - 1 OBVIOUS
<1>3. DOMAIN asked' = 1..Len(asked) - 1 BY <1>1, <1>2
<1>4. \A i \in 1..Len(asked) - 1 : asked'[i] = asked[i + 1] BY <1>1
<1>5. \A i \in DOMAIN asked : i # 1 => i - 1 \in 1..Len(asked) - 1 /\ (i - 1) + 1 = i BY <1>1
<1> QED BY <1>1, <1>2, <1>3, <1>4, <1>5

\* What a row says is still what the last ruling that waits says, or the
\* processor, once the head's ruling is the processor's.
LEMMA SaidMovesUp ==
    ASSUME BestsTypes, asked # <<>>, asked' = Tail(asked), session' = session, marks' = marks,
           NEW n \in Nat, Said(asked, overrides, n),
           (Head(asked).session = session /\ Head(asked).n = n) => overrides'[n] = Head(asked).over,
           ~(Head(asked).session = session /\ Head(asked).n = n) => overrides'[n] = overrides[n]
    PROVE  Said(asked, overrides, n)'
<1>1. asked \in Seq(Request) BY DEF BestsTypes
<1>2. /\ 1 \in DOMAIN asked /\ Head(asked) = asked[1]
      /\ \A i \in DOMAIN asked' : i \in Nat \ {0} /\ i + 1 \in DOMAIN asked /\ asked'[i] = asked[i + 1]
      /\ \A i \in DOMAIN asked : i \in Nat /\ (i # 1 => i - 1 \in DOMAIN asked' /\ asked'[i - 1] = asked[i])
  BY <1>1, OneLess
<1>3. \A i \in Waits(asked, n)' : i \in Nat \ {0} /\ i + 1 \in Waits(asked, n) BY <1>2 DEF Waits
<1>4. \A i \in Waits(asked, n) : i # 1 => i - 1 \in Waits(asked, n)' BY <1>2 DEF Waits
<1>5. 1 \in Waits(asked, n) <=> Head(asked).session = session /\ Head(asked).n = n
  BY <1>2 DEF Waits
<1>6. CASE Waits(asked, n) = {} /\ marks[n].over = overrides[n]
  <2>1. Waits(asked, n)' = {} BY <1>3, <1>6
  <2>2. overrides'[n] = overrides[n] BY <1>5, <1>6
  <2> QED BY <1>6, <2>1, <2>2 DEF Said
<1>7. ASSUME NEW i \in DOMAIN asked, LastOf(asked, n, i), asked[i].over = marks[n].over
      PROVE  Said(asked, overrides, n)'
  <2>1. i \in Waits(asked, n) /\ i \in Nat /\ \A j \in Waits(asked, n) : j <= i
    BY <1>2, <1>7 DEF LastOf
  <2>2. CASE i = 1
    <3>1. Waits(asked, n)' = {}
      <4> SUFFICES ASSUME NEW j \in Waits(asked, n)' PROVE FALSE OBVIOUS
      <4>1. j \in Nat \ {0} /\ j + 1 \in Waits(asked, n) BY <1>3
      <4>2. j + 1 <= 1 BY <2>1, <2>2, <4>1
      <4> QED BY <4>1, <4>2
    <3>2. overrides'[n] = marks[n].over BY <1>2, <1>5, <1>7, <2>1, <2>2
    <3> QED BY <3>1, <3>2 DEF Said
  <2>3. CASE i # 1
    <3>1. PICK k \in DOMAIN asked' : k = i - 1 /\ asked'[k] = asked[i] BY <1>2, <2>3
    <3>2. k \in Waits(asked, n)' BY <1>4, <2>1, <2>3, <3>1
    <3>3. \A j \in Waits(asked, n)' : j <= k
      <4> SUFFICES ASSUME NEW j \in Waits(asked, n)' PROVE j <= k OBVIOUS
      <4>1. j \in Nat \ {0} /\ j + 1 \in Waits(asked, n) BY <1>3
      <4>2. j + 1 <= i BY <2>1, <4>1
      <4> QED BY <2>1, <3>1, <4>1, <4>2
    <3>4. LastOf(asked, n, k)' BY <3>2, <3>3 DEF LastOf
    <3>5. asked'[k].over = marks'[n].over BY <1>7, <3>1
    <3> QED BY <3>4, <3>5 DEF Said
  <2> QED BY <2>2, <2>3
<1> QED BY <1>6, <1>7 DEF Said

LEMMA RulingAppliedKept == BestsSound /\ Bests!RulingApplied => BestsSound'
<1> SUFFICES ASSUME BestsSound, Bests!RulingApplied PROVE BestsSound' OBVIOUS
<1> DEFINE r == Head(asked)
           over == [overrides EXCEPT ![r.n] = r.over]
<1>1. /\ busy = "no" /\ asked # <<>> /\ asked' = Tail(asked)
      /\ UNCHANGED <<laps, partial, marks, ref, lap, session, torn>>
  BY DEF Bests!RulingApplied, Bests!processor
<1>2. \/ /\ r.session = session /\ overrides' = over
         /\ best' = Bests!Fastest(laps, DOMAIN laps \ Bests!Excluded(laps, partial, over))
         /\ shown' = best' /\ busy' = "reloading"
      \/ r.session # session /\ UNCHANGED <<overrides, best, shown, busy>>
  BY DEF Bests!RulingApplied, Bests!processor, Bests!OfThisSession
<1>3. BestsTypes BY DEF BestsSound
<1>4. asked \in Seq(Request) BY <1>3 DEF BestsTypes
<1>5. /\ asked' \in Seq(Request) /\ 1 \in DOMAIN asked /\ Head(asked) = asked[1]
      /\ \A i \in DOMAIN asked' : i \in Nat \ {0} /\ i + 1 \in DOMAIN asked /\ asked'[i] = asked[i + 1]
      /\ \A i \in DOMAIN asked : i \in Nat /\ (i # 1 => i - 1 \in DOMAIN asked' /\ asked'[i - 1] = asked[i])
  BY <1>1, <1>4, OneLess
<1>6. r \in Request /\ r.over \in {"none", "in", "out"}
  <2>1. asked[1] \in Request BY <1>4, <1>5
  <2> QED BY <1>5, <2>1 DEF Request
<1>7. Bests!Stored' = Bests!Stored /\ Bests!Stored \subseteq DOMAIN overrides
      /\ \A n \in Bests!Stored : n \in Nat
  BY <1>1, <1>3, StoredLaps DEF Bests!Stored
<1>8. r.session = session => r.n \in Bests!Stored BY <1>5 DEF BestsSound
<1> HIDE DEF r
<1>9. overrides \in Seq({"none", "in", "out"}) /\ Len(overrides) = Len(laps) BY <1>3 DEF BestsTypes
<1>10. overrides' \in Seq({"none", "in", "out"}) /\ Len(overrides') = Len(overrides)
  <2>1. CASE overrides' = over /\ r.session = session
    <3>1. r.n \in DOMAIN overrides BY <1>7, <1>8, <2>1
    <3> QED BY <1>6, <1>9, <2>1, <3>1
  <2> QED BY <1>2, <1>9, <2>1
<1>11. BestsTypes' BY <1>1, <1>2, <1>3, <1>5, <1>9, <1>10 DEF BestsTypes
<1>12. ASSUME NEW n \in Bests!Stored
       PROVE  /\ (r.session = session /\ r.n = n) => overrides'[n] = r.over
              /\ ~(r.session = session /\ r.n = n) => overrides'[n] = overrides[n]
  <2>1. n \in DOMAIN overrides BY <1>7
  <2> QED BY <1>2, <2>1
<1>13. \A n \in Bests!Stored' : Said(asked, overrides, n)'
  <2> SUFFICES ASSUME NEW n \in Bests!Stored PROVE Said(asked, overrides, n)' BY <1>7
  <2>1. Said(asked, overrides, n) /\ n \in Nat BY <1>7 DEF BestsSound
  <2>2. /\ (Head(asked).session = session /\ Head(asked).n = n) => overrides'[n] = Head(asked).over
        /\ ~(Head(asked).session = session /\ Head(asked).n = n) => overrides'[n] = overrides[n]
    BY <1>12 DEF r
  <2> QED BY <1>1, <1>3, <2>1, <2>2, SaidMovesUp
<1>14. \A i \in DOMAIN asked' :
          /\ asked'[i].session <= session'
          /\ asked'[i].session = session' => asked'[i].n \in Bests!Stored'
  BY <1>1, <1>5, <1>7 DEF BestsSound
<1>15. Settled /\ Settled' BY <1>1, <1>2 DEF Settled
<1>16. /\ partial' = Bests!Partial(laps')
       /\ best' = Bests!Fastest(laps', DOMAIN laps' \ Condemned')
  BY <1>1, <1>2 DEF BestsSound, Condemned
<1>17. ~torn' => \A n \in Bests!Stored' : marks'[n].full = (n \notin partial')
  BY <1>1, <1>7, <1>15 DEF BestsSound
<1>18. ref' = 0 \/ ref' \in Bests!Stored' BY <1>1, <1>7 DEF BestsSound
<1>19. CASE r.session = session /\ shown' = best' /\ busy' = "reloading"
  BY <1>11, <1>13, <1>14, <1>16, <1>17, <1>18, <1>19 DEF BestsSound
<1>20. CASE r.session # session /\ UNCHANGED <<overrides, best, shown, busy>>
  <2>1. Quiet' => Quiet
    <3> SUFFICES ASSUME Quiet', NEW i \in DOMAIN asked PROVE asked[i].session # session
      BY DEF Quiet
    <3>1. CASE i = 1 BY <1>5, <1>20, <3>1 DEF r
    <3>2. CASE i # 1
      <4>1. i - 1 \in DOMAIN asked' /\ asked'[i - 1] = asked[i] BY <1>5, <3>2
      <4> QED BY <1>1, <4>1 DEF Quiet
    <3> QED BY <3>1, <3>2
  <2>2. Condemned' = Condemned BY <1>1, <1>20 DEF Condemned
  <2>3. ~torn' /\ Quiet' /\ ref' # 0 => ref' \notin Condemned'
    BY <1>1, <1>15, <2>1, <2>2 DEF BestsSound
  <2>4. ~torn' => shown' = best' /\ busy' = "no" BY <1>1, <1>20 DEF BestsSound
  <2>5. busy' = "no" BY <1>1, <1>20
  <2> QED BY <1>11, <1>13, <1>14, <1>16, <1>17, <1>18, <2>3, <2>4, <2>5 DEF BestsSound
<1> QED BY <1>2, <1>19, <1>20

\* The newest of the fastest laps that count is one of them.
LEMMA LastFastestIsIn ==
    ASSUME BestsTypes, NEW counting, counting \subseteq DOMAIN laps, counting # {}
    PROVE  Bests!LastFastest(counting) \in counting
<1> DEFINE times == {laps[n].time : n \in counting}
           fastest == {n \in counting : laps[n].time = Bests!Fastest(laps, counting)}
<1>1. DOMAIN laps = 1..Len(laps) /\ Len(laps) \in Nat BY StoredLaps
<1>2. \A n \in DOMAIN laps : laps[n].time \in Nat
  <2>1. \A n \in DOMAIN laps : laps[n] \in LapRec BY DEF BestsTypes
  <2> QED BY <2>1 DEF LapRec
<1>3. times \subseteq Nat /\ times # {} BY <1>2
<1>4. Bests!Fastest(laps, counting) = Bests!Min(times) BY DEF Bests!Fastest
<1>5. Bests!Min(times) \in times
  <2> HIDE DEF times
  <2> QED BY <1>3, LeastIsIn
<1>6. fastest # {} BY <1>4, <1>5
<1>7. fastest \subseteq 1..Len(laps) BY <1>1
<1>8. Bests!Max(fastest) \in fastest
  <2> HIDE DEF fastest
  <2> QED BY <1>1, <1>6, <1>7, GreatestIsIn
<1> QED BY <1>8 DEF Bests!LastFastest

LEMMA RefReloadedKept == BestsSound /\ Bests!RefReloaded => BestsSound'
<1> SUFFICES ASSUME BestsSound, Bests!RefReloaded PROVE BestsSound' OBVIOUS
<1> DEFINE counting == {n \in Bests!Stored : Bests!Counts(marks[n])}
<1>1. /\ busy = "reloading" /\ busy' = "no"
      /\ UNCHANGED <<laps, partial, overrides, best, marks, shown, lap, asked, session, torn>>
  BY DEF Bests!RefReloaded, Bests!processor
<1>2. ref' = IF counting = {} THEN 0 ELSE Bests!LastFastest(counting)
  BY DEF Bests!RefReloaded, Bests!Reloaded, Bests!None
<1>3. BestsTypes /\ BestsTypes' BY <1>1 DEF BestsSound, BestsTypes
<1>4. counting \subseteq DOMAIN laps BY <1>3, StoredLaps
<1>5. ref' = 0 \/ ref' \in counting
  <2> HIDE DEF counting
  <2> QED BY <1>2, <1>3, <1>4, LastFastestIsIn
<1>6. Bests!Stored' = Bests!Stored /\ Condemned' = Condemned /\ (Quiet' <=> Quiet)
  BY <1>1 DEF Bests!Stored, Condemned, Quiet
<1>7. \A n \in Bests!Stored' : Said(asked, overrides, n)'
  BY <1>1, <1>6 DEF BestsSound, Said, Waits, LastOf
<1>8. Settled /\ Settled' BY <1>1 DEF Settled
<1>9. ASSUME ~torn, Quiet, NEW n \in counting
      PROVE  n \notin Condemned
  <2>1. marks[n].full = (n \notin partial) BY <1>8, <1>9 DEF BestsSound
  <2>2. marks[n].over = overrides[n]
    <3>1. Waits(asked, n) = {} BY <1>9 DEF Quiet, Waits
    <3> QED BY <3>1 DEF BestsSound, Said, LastOf
  <2>3. overrides[n] \in {"none", "in", "out"}
    <3>1. n \in DOMAIN overrides BY <1>3, <1>4, StoredLaps
    <3> QED BY <1>3, <3>1 DEF BestsTypes
  <2> QED BY <2>1, <2>2, <2>3 DEF Bests!Counts, Condemned, Bests!Excluded
<1>10. ~torn' /\ Quiet' /\ ref' # 0 => ref' \notin Condemned' BY <1>1, <1>5, <1>6, <1>9
<1>11. ref' = 0 \/ ref' \in Bests!Stored' BY <1>5, <1>6
<1> HIDE DEF counting
<1> QED BY <1>1, <1>3, <1>6, <1>7, <1>8, <1>10, <1>11 DEF BestsSound

LEMMA NextSessionKept == BestsSound /\ Bests!NextSession => BestsSound'
<1> SUFFICES ASSUME BestsSound, Bests!NextSession PROVE BestsSound' OBVIOUS
<1>1. /\ laps' = <<>> /\ overrides' = <<>> /\ marks' = <<>> /\ partial' = {}
      /\ session' = session + 1 /\ torn' = FALSE /\ best' = 0 /\ shown' = 0 /\ ref' = 0
      /\ busy = "no" /\ busy' = "no" /\ asked' = asked
  BY DEF Bests!NextSession, Bests!ServiceCleared, Bests!None
<1>2. session \in Nat /\ asked \in Seq(Request) BY DEF BestsSound, BestsTypes
<1>3. BestsTypes'
  <2>1. /\ laps' \in Seq(LapRec) /\ overrides' \in Seq({"none", "in", "out"})
        /\ marks' \in Seq(Mark) /\ asked' \in Seq(Request)
        /\ Len(laps') = 0 /\ Len(overrides') = 0 /\ Len(marks') = 0
    BY <1>1, <1>2
  <2>2. session' \in Nat BY <1>1, <1>2
  <2>3. torn' \in BOOLEAN /\ busy' = "no" BY <1>1
  <2> QED BY <2>1, <2>2, <2>3 DEF BestsTypes
<1>4. DOMAIN laps' = {} /\ DOMAIN marks' = {} BY <1>1
<1>5. Bests!Timed(laps') = {} /\ Bests!Stored' = {} BY <1>4 DEF Bests!Timed, Bests!Stored
<1>6. partial' = Bests!Partial(laps')
  <2>1. Bests!Cardinality({}) = 0 BY SameCount, FS_EmptySet
  <2>2. Bests!Partial(laps') = (IF Bests!Cardinality({}) <= 1 THEN {} ELSE {})
    BY <1>4, <1>5 DEF Bests!Partial
  <2> QED BY <1>1, <2>2
<1>7. best' = Bests!Fastest(laps', DOMAIN laps' \ Condemned') BY <1>1, <1>4 DEF Bests!Fastest, Bests!None
<1>8. \A i \in DOMAIN asked' : asked'[i].session <= session' /\ asked'[i].session # session'
  <2> SUFFICES ASSUME NEW i \in DOMAIN asked
               PROVE  asked[i].session <= session + 1 /\ asked[i].session # session + 1
    BY <1>1
  <2>1. asked[i].session <= session BY DEF BestsSound
  <2>2. asked[i].session \in Nat
    <3>1. asked[i] \in Request BY <1>2
    <3> QED BY <3>1 DEF Request
  <2> QED BY <1>2, <2>1, <2>2
<1> QED BY <1>1, <1>3, <1>5, <1>6, <1>7, <1>8 DEF BestsSound

LEMMA BestsKept == BestsSound /\ [Bests!Next]_(Bests!vars) => BestsSound'
<1> SUFFICES ASSUME BestsSound, [Bests!Next]_(Bests!vars) PROVE BestsSound' OBVIOUS
<1>1. CASE UNCHANGED Bests!vars
  <2>1. UNCHANGED <<laps, partial, overrides, best, marks, shown, ref, busy, lap, asked, session, torn>>
    BY <1>1 DEF Bests!vars, Bests!processor, Bests!service
  <2>2. BestsTypes' /\ Bests!Stored' = Bests!Stored /\ Condemned' = Condemned
        /\ (Quiet' <=> Quiet) /\ (Settled' <=> Settled)
    BY <2>1 DEF BestsSound, BestsTypes, Bests!Stored, Condemned, Quiet, Settled
  <2>3. \A n \in Bests!Stored' : Said(asked, overrides, n)'
    BY <2>1, <2>2 DEF BestsSound, Said, Waits, LastOf
  <2> QED BY <2>1, <2>2, <2>3 DEF BestsSound
<1>2. CASE Bests!LapCompletes BY <1>2, LapCompletesKept
<1>3. CASE Bests!LapSaved BY <1>3, LapSavedKept
<1>4. CASE Bests!LapNotSaved BY <1>4, LapNotSavedKept
<1>5. CASE Bests!RowsMarked BY <1>5, RowsMarkedKept
<1>6. CASE Bests!RowsNotMarked BY <1>6, RowsNotMarkedKept
<1>7. CASE Bests!Rules BY <1>7, RulesKept
<1>8. CASE Bests!RulingApplied BY <1>8, RulingAppliedKept
<1>9. CASE Bests!RefReloaded BY <1>9, RefReloadedKept
<1>10. CASE Bests!NextSession BY <1>10, NextSessionKept
<1> QED
  BY <1>1, <1>2, <1>3, <1>4, <1>5, <1>6, <1>7, <1>8, <1>9, <1>10 DEF Bests!Next

\* At rest, whatever was refused before the last change of a verdict, the rows
\* say of every stored lap what the processor says, ruling by ruling, the best
\* shown is that of the laps the database counts, the reference is a lap that
\* counts; and when most of the recent laps ran the circuit, exactly those that
\* did not are partial (_on_lap, apply_best_override, _apply_span_guard).
THEOREM RowsSayTheVerdicts == Bests!Spec => []VerdictsHold
<1>1. Bests!Spec => []BestsSound BY BestsBegin, BestsKept, PTL DEF Bests!Spec
<1> QED BY <1>1, BestsPromise, PTL

=============================================================================
