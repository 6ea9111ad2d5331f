------------------------------ MODULE DemandProofs ------------------------------
(***************************************************************************)
(* Proofs about Reconciler: the types of its variables, and that, for any  *)
(* sources, windows, capacities and numbers of steps, the pods are never   *)
(* sized for less than was fetched in the last reconciles.                 *)
(***************************************************************************)
EXTENDS Reconciler, SequenceTheorems, WellFoundedInduction, FiniteSetTheorems, TLAPS

W == DefaultRecentPeakWindow

-------------------------------------------------------------------------------
(* The peak of a series *)

LEMMA LeastElement ==
  ASSUME NEW S \in SUBSET Nat, S # {}
  PROVE  \E x \in S : \A y \in S : x <= y
<1> DEFINE Less == {pair \in Nat \X Nat : pair[1] < pair[2]}
<1>1. IsWellFoundedOn(Less, Nat) BY NatLessThanWellFounded, Zenon DEF OpToRel
<1>2. \A y, x \in Nat : <<y, x>> \notin Less => x <= y OBVIOUS
<1> HIDE DEF Less
<1>3. PICK x \in S : \A y \in S : <<y, x>> \notin Less BY <1>1, WFMin, Zenon
<1> QED BY <1>2, <1>3

\* The values in some places of a series have a peak, which is at least zero.
LEMMA PeakIsReached ==
  ASSUME NEW n \in Nat, NEW v, \A i \in 1 .. n : v[i] \in Int, NEW J \in SUBSET (1 .. n)
  PROVE  /\ PeakOf({v[i] : i \in J}) \in Nat
         /\ \A k \in J : v[k] <= PeakOf({v[i] : i \in J})
<1> DEFINE Peaked(m) ==
             \E x \in Int : /\ x = 0 \/ \E i \in J : i <= m /\ x = v[i]
                            /\ x >= 0 /\ \A i \in J : i <= m => x >= v[i]
           bad == {m \in 0 .. n : ~Peaked(m)}
<1>1. \A i \in J : i \in 1 .. n /\ v[i] \in Int OBVIOUS
<1>2. bad = {}
  <2> SUFFICES ASSUME bad # {} PROVE FALSE OBVIOUS
  <2>1. bad \in SUBSET Nat OBVIOUS
  <2>2. PICK m \in bad : \A k \in bad : m <= k
    <3> HIDE DEF bad
    <3> QED BY <2>1, LeastElement
  <2>3. Peaked(0)
    <3>1. \A i \in J : ~(i <= 0) BY <1>1
    <3>2. 0 \in Int /\ 0 >= 0 OBVIOUS
    <3> QED BY <3>1, <3>2, Zenon
  <2>4. m \in 1 .. n /\ ~Peaked(m)
    <3> HIDE DEF Peaked
    <3> QED BY <2>2, <2>3
  <2>5. Peaked(m - 1)
    <3>1. m - 1 \in 0 .. n /\ ~(m <= m - 1) BY <2>4
    <3> HIDE DEF Peaked
    <3> QED BY <2>2, <3>1
  <2>6. PICK x \in Int : /\ x = 0 \/ \E i \in J : i <= m - 1 /\ x = v[i]
                         /\ x >= 0 /\ \A i \in J : i <= m - 1 => x >= v[i]
    BY <2>5
  <2>7. \A i \in J : i <= m => i <= m - 1 \/ i = m BY <1>1, <2>4
  <2>8. CASE m \in J /\ v[m] > x
    <3>1. v[m] \in Int /\ v[m] >= 0 /\ m <= m BY <1>1, <2>4, <2>6, <2>8
    <3>2. \A i \in J : i <= m => v[m] >= v[i] BY <1>1, <2>6, <2>7, <2>8
    <3> QED BY <2>4, <2>8, <3>1, <3>2
  <2>9. CASE ~(m \in J /\ v[m] > x)
    <3>1. \A i \in J : i <= m => x >= v[i] BY <1>1, <2>6, <2>7, <2>9
    <3>2. x = 0 \/ \E i \in J : i <= m /\ x = v[i] BY <1>1, <2>4, <2>6
    <3> QED BY <2>4, <2>6, <3>1, <3>2
  <2> QED BY <2>8, <2>9
<1>3. Peaked(n)
  <2> HIDE DEF Peaked
  <2> QED BY <1>2
<1>4. PICK x \in Int : /\ x = 0 \/ \E i \in J : x = v[i]
                       /\ x >= 0 /\ \A i \in J : x >= v[i]
  BY <1>1, <1>3
<1> DEFINE S == {0} \cup {v[i] : i \in J}
<1>5. \A y \in S : y \in Int BY <1>1
<1>6. x \in S /\ \A y \in S : x >= y BY <1>4
<1>7. 0 \in S /\ \A i \in J : v[i] \in S BY Zenon
<1>8. PeakOf({v[i] : i \in J}) = Max(S) BY DEF PeakOf
<1> HIDE DEF S
<1>9. Max(S) \in S /\ \A y \in S : Max(S) >= y BY <1>6 DEF Max
<1> QED BY <1>1, <1>5, <1>7, <1>8, <1>9

\* One or two lengths have a peak too.
LEMMA PeakOfTwo ==
  ASSUME NEW f, DOMAIN f \subseteq ResourceMetrics, \A r \in DOMAIN f : f[r] \in Nat
  PROVE  PeakOf({f[r] : r \in DOMAIN f}) \in Nat
<1> DEFINE S == {0} \cup {f[r] : r \in DOMAIN f}
<1>1. \A x \in S : x \in Nat OBVIOUS
<1>2. \E x \in S : \A y \in S : x >= y
  <2> DEFINE c == IF "cpu" \in DOMAIN f THEN f["cpu"] ELSE 0
             m == IF "memory" \in DOMAIN f THEN f["memory"] ELSE 0
  <2>1. c \in S /\ m \in S OBVIOUS
  <2>2. \A y \in S : y = 0 \/ y = c \/ y = m BY DEF ResourceMetrics
  <2>3. c \in Nat /\ m \in Nat BY <1>1, <2>1
  <2> HIDE DEF S, c, m
  <2>4. CASE c >= m BY <2>1, <2>2, <2>3, <2>4
  <2>5. CASE m >= c BY <2>1, <2>2, <2>3, <2>5
  <2> QED BY <2>3, <2>4, <2>5
<1>3. PeakOf({f[r] : r \in DOMAIN f}) = Max(S) BY DEF PeakOf
<1> HIDE DEF S
<1> QED BY <1>1, <1>2, <1>3 DEF Max

-------------------------------------------------------------------------------
(* What is remembered of the last samples *)

Shorter(n) == IF n > W THEN W ELSE n

LEMMA WindowPlaces ==
  ASSUME NEW n \in Nat
  PROVE  /\ W \in Nat \ {0} /\ Shorter(n) \in 0 .. n /\ Shorter(n) <= W
         /\ \A i \in 1 .. Shorter(n) : n - Shorter(n) + i \in 1 .. n
         /\ \A i \in 1 .. Shorter(n) : n - Shorter(n) + i > n - W
BY DefaultWindowAssumption DEF W, Shorter

LEMMA LastOfCells ==
  ASSUME NEW s \in Seq(Int)
  PROVE  /\ LastOf(s, W) \in Seq(Int)
         /\ Len(LastOf(s, W)) = Shorter(Len(s))
         /\ \A i \in 1 .. Shorter(Len(s)) :
              LastOf(s, W)[i] = s[Len(s) - Shorter(Len(s)) + i]
<1>1. Len(s) \in Nat /\ \A i \in 1 .. Len(s) : s[i] \in Int BY LenProperties, ElementOfSeq
<1>2. PICK n \in Nat : n = Len(s) BY <1>1
<1> DEFINE first == n - Shorter(n) + 1
<1>3. first \in Int /\ first >= 1 /\ first <= n + 1
  <2>1. Shorter(n) \in 0 .. n BY WindowPlaces
  <2> QED BY <2>1
<1>4. first = IF n > W THEN n - W + 1 ELSE 1 BY WindowPlaces DEF Shorter
<1>5. LastOf(s, W) = SubSeq(s, first, n) BY <1>2, <1>4 DEF LastOf
<1> HIDE DEF first
<1>6. \A i \in first .. n : s[i] \in Int BY <1>1, <1>2, <1>3
<1>7. /\ SubSeq(s, first, n) \in Seq(Int)
      /\ Len(SubSeq(s, first, n)) = IF first <= n THEN n - first + 1 ELSE 0
      /\ \A i \in 1 .. n - first + 1 : SubSeq(s, first, n)[i] = s[first + i - 1]
  BY <1>3, <1>6, SubSeqProperties
<1>8. n - first + 1 = Shorter(n) /\ Shorter(n) \in Nat BY WindowPlaces DEF first
<1>9. \A i \in 1 .. Shorter(n) : first + i - 1 = n - Shorter(n) + i BY <1>8 DEF first
<1> QED BY <1>2, <1>3, <1>5, <1>7, <1>8, <1>9

Sample == [value : Int, of : 1 .. MaxEvents]

LEMMA ValuesAreInts ==
  ASSUME NEW h \in Seq(Sample)
  PROVE  /\ ValuesOf(h) \in Seq(Int) /\ Len(ValuesOf(h)) = Len(h)
         /\ \A i \in 1 .. Len(h) : ValuesOf(h)[i] = h[i].value
<1>1. Len(h) \in Nat /\ DOMAIN h = 1 .. Len(h) /\ \A i \in 1 .. Len(h) : h[i] \in Sample
  BY LenProperties, ElementOfSeq
<1>2. PICK n \in Nat : n = Len(h) BY <1>1
<1>3. \A i \in 1 .. n : h[i].value \in Int BY <1>1, <1>2 DEF Sample
<1>4. ValuesOf(h) = [i \in 1 .. n |-> h[i].value] BY <1>1, <1>2 DEF ValuesOf
<1>5. [i \in 1 .. n |-> h[i].value] \in Seq(Int) BY <1>3
<1> QED BY <1>2, <1>4, <1>5

LEMMA RememberCells ==
  ASSUME NEW h \in Seq(Sample), NEW x \in Sample, Len(h) <= Capacity
  PROVE  /\ Log!Remember(h, x) \in Seq(Sample)
         /\ Len(Log!Remember(h, x)) = IF Len(h) < Capacity THEN Len(h) + 1 ELSE Len(h)
         /\ Len(Log!Remember(h, x)) <= Capacity
         /\ Log!Remember(h, x)[Len(Log!Remember(h, x))] = x
         /\ \A i \in 1 .. Len(Log!Remember(h, x)) - 1 :
              Log!Remember(h, x)[i] = h[i + Len(h) + 1 - Len(Log!Remember(h, x))]
<1>1. Len(h) \in Nat /\ Capacity \in Nat \ {0} BY LenProperties, HistoryAssumption
<1>2. CASE Len(h) < Capacity BY <1>1, <1>2 DEF Log!Remember
<1>3. CASE Len(h) = Capacity
  <2>1. h # << >> BY <1>1, <1>3
  <2>2. /\ Tail(h) \in Seq(Sample) /\ Len(Tail(h)) = Len(h) - 1
        /\ \A i \in 1 .. Len(Tail(h)) : Tail(h)[i] = h[i + 1]
    BY <2>1, HeadTailProperties
  <2>3. Log!Remember(h, x) = Append(Tail(h), x) BY <1>1, <1>3 DEF Log!Remember
  <2> QED BY <1>1, <1>3, <2>2, <2>3
<1> QED BY <1>1, <1>2, <1>3

\* One more cell at the end of a row, and at the end of a copy of its last cells.
Grown(n, m, old, new, copy, x) ==
  /\ m = n + 1 \/ (m = n /\ n >= W)
  /\ new[m] = x /\ \A i \in 1 .. m - 1 : new[i] = old[i + n + 1 - m]
  /\ copy[Shorter(n) + 1] = x
  /\ \A i \in 1 .. Shorter(n) : copy[i] = old[n - Shorter(n) + i]

EndAlike(n, m, new, copy) ==
  /\ Shorter(Shorter(n) + 1) = Shorter(m)
  /\ \A i \in 1 .. Shorter(m) :
       new[m - Shorter(m) + i] = copy[Shorter(n) + 1 - Shorter(m) + i]

LEMMA GrownEndAlike ==
  ASSUME NEW n \in Nat, NEW m \in Nat, NEW old, NEW new, NEW copy, NEW x,
         Grown(n, m, old, new, copy, x)
  PROVE  EndAlike(n, m, new, copy)
<1> USE DEF Grown
<1>1. W \in Nat \ {0} BY DefaultWindowAssumption DEF W
<1>2. Shorter(Shorter(n) + 1) = Shorter(m) BY <1>1 DEF Shorter
<1>3. ASSUME NEW i \in 1 .. Shorter(m)
      PROVE  new[m - Shorter(m) + i] = copy[Shorter(n) + 1 - Shorter(m) + i]
  <2>1. CASE i = Shorter(m)
    <3>1. m - Shorter(m) + i = m /\ Shorter(n) + 1 - Shorter(m) + i = Shorter(n) + 1
      BY <1>1, <2>1 DEF Shorter
    <3> QED BY <3>1
  <2>2. CASE i < Shorter(m)
    <3> DEFINE k == m - Shorter(m) + i
               l == Shorter(n) + 1 - Shorter(m) + i
    <3>1. k \in 1 .. m - 1 /\ l \in 1 .. Shorter(n) BY <1>1, <2>2 DEF Shorter
    <3>2. k + n + 1 - m = n - Shorter(n) + l BY <1>1, <2>2 DEF Shorter
    <3> HIDE DEF k, l
    <3>3. new[k] = old[k + n + 1 - m] /\ copy[l] = old[n - Shorter(n) + l] BY <3>1
    <3>4. new[k] = copy[l] BY <3>2, <3>3
    <3> QED BY <3>4 DEF k, l
  <2> QED BY <1>1, <2>1, <2>2 DEF Shorter
<1> QED BY <1>2, <1>3 DEF EndAlike

\* The buffer, whose capacity is no less than the window, ends in what was
\* fetched last.
LEMMA RememberKeepsRecent ==
  ASSUME NEW h \in Seq(Sample), NEW x \in Sample, Len(h) <= Capacity
  PROVE  LastOf(ValuesOf(Log!Remember(h, x)), W)
           = LastOf(Append(LastOf(ValuesOf(h), W), x.value), W)
<1> DEFINE new == Log!Remember(h, x)
           old == ValuesOf(h)
           last == LastOf(old, W)
           longer == Append(last, x.value)
<1>1. x.value \in Int /\ Capacity \in Nat /\ W <= Capacity
  BY HistoryAssumption DEF W, Sample
<1>2. /\ new \in Seq(Sample) /\ Len(new) = IF Len(h) < Capacity THEN Len(h) + 1 ELSE Len(h)
      /\ new[Len(new)] = x
      /\ \A i \in 1 .. Len(new) - 1 : new[i] = h[i + Len(h) + 1 - Len(new)]
  BY RememberCells
<1>3. /\ old \in Seq(Int) /\ Len(old) = Len(h)
      /\ \A i \in 1 .. Len(h) : old[i] = h[i].value
  BY ValuesAreInts
<1> HIDE DEF new
<1>4. /\ ValuesOf(new) \in Seq(Int) /\ Len(ValuesOf(new)) = Len(new)
      /\ \A i \in 1 .. Len(new) : ValuesOf(new)[i] = new[i].value
  BY <1>2, ValuesAreInts
<1> HIDE DEF old
<1>5. /\ last \in Seq(Int) /\ Len(last) = Shorter(Len(old))
      /\ \A i \in 1 .. Shorter(Len(old)) : last[i] = old[Len(old) - Shorter(Len(old)) + i]
  BY <1>3, LastOfCells
<1> HIDE DEF last
<1>6. PICK n \in Nat : n = Len(h) BY LenProperties
<1>7. PICK m \in Nat : m = Len(new) BY <1>2, LenProperties
<1>8. m = n + 1 \/ (m = n /\ n >= W) BY <1>1, <1>2, <1>6, <1>7
<1>9. /\ longer \in Seq(Int) /\ Len(longer) = Shorter(n) + 1
      /\ longer[Shorter(n) + 1] = x.value
      /\ \A i \in 1 .. Shorter(n) : longer[i] = last[i]
  BY <1>1, <1>3, <1>5, <1>6
<1> HIDE DEF longer
<1>10. ValuesOf(new)[m] = x.value
  <2>1. m \in 1 .. m
    <3>1. n + 1 >= 1 /\ W >= 1 BY DefaultWindowAssumption DEF W
    <3>2. m >= 1 BY <1>8, <3>1, DefaultWindowAssumption DEF W
    <3> QED BY <3>2
  <2> QED BY <1>2, <1>4, <1>7, <2>1
<1>11. ASSUME NEW i \in 1 .. m - 1 PROVE ValuesOf(new)[i] = old[i + n + 1 - m]
  <2>1. i \in 1 .. m /\ i + n + 1 - m \in 1 .. n BY <1>8
  <2>2. new[i] = h[i + n + 1 - m] BY <1>2, <1>6, <1>7
  <2> QED BY <1>3, <1>4, <1>6, <1>7, <2>1, <2>2
<1>12. \A i \in 1 .. Shorter(n) : longer[i] = old[n - Shorter(n) + i]
  BY <1>3, <1>5, <1>6, <1>9
<1>13. EndAlike(n, m, ValuesOf(new), longer)
  <2>1. Grown(n, m, old, ValuesOf(new), longer, x.value)
    BY <1>8, <1>9, <1>10, <1>11, <1>12 DEF Grown
  <2> QED BY <2>1, GrownEndAlike
<1>14. /\ LastOf(ValuesOf(new), W) \in Seq(Int) /\ Len(LastOf(ValuesOf(new), W)) = Shorter(m)
       /\ \A i \in 1 .. Shorter(m) :
            LastOf(ValuesOf(new), W)[i] = ValuesOf(new)[m - Shorter(m) + i]
  BY <1>4, <1>7, LastOfCells
<1>15. /\ LastOf(longer, W) \in Seq(Int) /\ Len(LastOf(longer, W)) = Shorter(m)
       /\ \A i \in 1 .. Shorter(m) :
            LastOf(longer, W)[i] = longer[Shorter(n) + 1 - Shorter(m) + i]
  <2>1. Len(longer) = Shorter(n) + 1 /\ Shorter(Len(longer)) = Shorter(m)
    BY <1>9, <1>13 DEF EndAlike
  <2>2. /\ LastOf(longer, W) \in Seq(Int)
        /\ Len(LastOf(longer, W)) = Shorter(Len(longer))
        /\ \A i \in 1 .. Shorter(Len(longer)) :
             LastOf(longer, W)[i] = longer[Len(longer) - Shorter(Len(longer)) + i]
    BY <1>9, LastOfCells
  <2> DEFINE length == Len(longer)
  <2>3. /\ length = Shorter(n) + 1 /\ Shorter(length) = Shorter(m)
        /\ LastOf(longer, W) \in Seq(Int) /\ Len(LastOf(longer, W)) = Shorter(length)
        /\ \A i \in 1 .. Shorter(length) :
             LastOf(longer, W)[i] = longer[length - Shorter(length) + i]
    BY <2>1, <2>2
  <2> HIDE DEF length
  <2> DEFINE ending == LastOf(longer, W)
  <2> HIDE DEF ending
  <2>4. \A i \in 1 .. Shorter(m) : ending[i] = longer[length - Shorter(m) + i]
    BY <2>3 DEF ending
  <2>5. \A i \in 1 .. Shorter(m) : ending[i] = longer[Shorter(n) + 1 - Shorter(m) + i]
    <3>1. Shorter(n) \in Int /\ Shorter(m) \in Int BY WindowPlaces
    <3>2. \A i \in 1 .. Shorter(m) :
            length - Shorter(m) + i = Shorter(n) + 1 - Shorter(m) + i
      BY <2>3, <3>1
    <3> QED BY <2>4, <3>2
  <2> QED BY <2>3, <2>5 DEF ending
<1>16. LastOf(ValuesOf(new), W) = LastOf(longer, W)
  BY <1>13, <1>14, <1>15, SeqEqual DEF EndAlike
<1> QED BY <1>16 DEF new, longer, last, old

\* The floor that Apply takes from a buffer is not below what it ends in.
LEMMA RecentPeakIsAFloor ==
  ASSUME NEW s \in Seq(Int)
  PROVE  /\ RecentPeak(s, W) \in Nat
         /\ \A i \in DOMAIN LastOf(s, W) : LastOf(s, W)[i] <= RecentPeak(s, W)
<1>1. PICK n \in Nat : n = Len(s) BY LenProperties
<1>2. DOMAIN s = 1 .. n /\ \A i \in 1 .. n : s[i] \in Int BY <1>1, LenProperties, ElementOfSeq
<1>3. Cardinality(1 .. n) = n
  <2>1. 1 \in Int /\ n \in Int OBVIOUS
  <2>2. Cardinality(1 .. n) = IF 1 > n THEN 0 ELSE n - 1 + 1 BY <2>1, FS_Interval, Zenon
  <2> QED BY <2>2
<1> DEFINE J == {j \in 1 .. n : j > n - W}
<1>4. RecentPeak(s, W) = PeakOf({s[i] : i \in J})
  <2>1. Cardinality(DOMAIN s) = n BY <1>2, <1>3
  <2>2. J = {j \in DOMAIN s : j > n - DefaultRecentPeakWindow} BY <1>2 DEF W
  <2>3. RecentPeak(s, W)
          = PeakOf({s[i] : i \in {j \in DOMAIN s : j > n - DefaultRecentPeakWindow}})
    <3>1. ~(DefaultRecentPeakWindow <= 0) BY DefaultWindowAssumption
    <3> QED BY <2>1, <3>1, Zenon DEF RecentPeak, W
  <2> QED BY <2>2, <2>3
<1>5. J \in SUBSET (1 .. n) OBVIOUS
<1>6. \A i \in 1 .. Shorter(n) : n - Shorter(n) + i \in J BY WindowPlaces
<1> HIDE DEF J
<1>7. RecentPeak(s, W) \in Nat /\ \A i \in J : s[i] <= RecentPeak(s, W)
  BY <1>2, <1>4, <1>5, PeakIsReached
<1>8. /\ DOMAIN LastOf(s, W) = 1 .. Shorter(n)
      /\ \A i \in 1 .. Shorter(n) : LastOf(s, W)[i] = s[n - Shorter(n) + i]
  BY <1>1, LastOfCells, LenProperties
<1> QED BY <1>6, <1>7, <1>8

-------------------------------------------------------------------------------
(* The invariant *)

\* A fetch that is no error has samples of known resources.
LEMMA FetchAnswers ==
  ASSUME NEW spec \in Specs, NEW c \in Clusters,
         NEW answer, answer = Fetch(spec.metrics, Namespace, c), answer # Error
  PROVE  /\ DOMAIN answer.byResource \subseteq ResourceMetrics
         /\ \A r \in DOMAIN answer.byResource :
              answer.byResource[r] \in Seq(Int) /\ answer.byResource[r] # << >>
<1>1. \A r \in DOMAIN answer.byResource : answer.byResource[r] \in Seq(Int)
  BY ClustersAssumption
<1> DEFINE namespace == FetchNamespace(spec.metrics, Namespace)
           server == spec.metrics.metricsServer
           prometheus == spec.metrics.prometheus
<1>2. ValidateMetricsSource(spec.metrics) BY DEF Fetch
<1>3. CASE spec.metrics.type = "MetricsServer"
  <2>1. answer = FetchMetricsServer(server, namespace, c) BY <1>2, <1>3 DEF Fetch
  <2>2. Range(server.resources) \subseteq ResourceMetrics
    BY <1>2, <1>3 DEF ValidateMetricsSource, ValidMetricsServer, ValidResourceMetrics
  <2> DEFINE pods == ResolvePodNames(c, namespace, server.targetRef)
             matched == pods \cap DOMAIN c.usage
             sums == [r \in Range(server.resources) |->
                        <<MapThenSumSet(LAMBDA p : c.usage[p][r], matched)>>]
  <2>3. answer = [byResource |-> sums, podNames |-> pods]
    BY <2>1, Zenon DEF FetchMetricsServer
  <2>4. DOMAIN sums = Range(server.resources) BY Zenon
  <2>5. \A r \in Range(server.resources) : sums[r] # << >> OBVIOUS
  <2> HIDE DEF sums
  <2> QED BY <1>1, <2>2, <2>3, <2>4, <2>5
<1>4. CASE spec.metrics.type # "MetricsServer"
  <2>1. answer = FetchPrometheus(prometheus, namespace, c) BY <1>2, <1>4 DEF Fetch
  <2>2. prometheus # None /\ ValidPrometheus(prometheus)
    BY <1>2, <1>4 DEF ValidateMetricsSource
  <2> DEFINE resources == IF prometheus.targetRef = None THEN {prometheus.query}
                          ELSE Range(prometheus.resources)
  <2>3. resources \subseteq ResourceMetrics
    BY <2>2, SpecsAssumption DEF ValidPrometheus, ValidResourceMetrics
  <2> DEFINE legacy == prometheus.targetRef = None
             pods == IF legacy THEN {}
                     ELSE ResolvePodNames(c, namespace, prometheus.targetRef)
             matched == PodMatcher(pods, c, namespace, prometheus.targetRef)
             streams(r) == IF legacy THEN c.answers[r]
                                     ELSE BuildPrometheusQuery(r, matched, c)
             measured == [r \in resources |-> ToSeries(streams(r), prometheus.queryType)]
  <2>4. /\ answer = [byResource |-> measured, podNames |-> pods]
        /\ ~(\E r \in resources : measured[r] = << >>)
    BY <2>1, Zenon DEF FetchPrometheus
  <2>5. DOMAIN measured = resources BY Zenon
  <2> HIDE DEF measured
  <2> QED BY <1>1, <2>3, <2>4, <2>5
<1> QED BY <1>3, <1>4

\* The objects and what is known of them.
ObjectsOK ==
  /\ api \in [Autoscalers -> Objects] /\ cache \in [Autoscalers -> Objects]
  /\ events \in 0 .. MaxEvents /\ restarts \in 0 .. MaxRestarts
  /\ cluster \in Clusters
  /\ queue \subseteq Autoscalers /\ waiting \subseteq Autoscalers
  /\ \A n \in Autoscalers :
       /\ api[n] # None => api[n].generation <= events
       /\ cache[n] # None => cache[n].generation <= events

\* What was fetched since the history was last empty is what the buffers end in.
HistoryOK ==
  /\ history \in [Autoscalers -> [ResourceMetrics -> Seq(Sample)]]
  /\ recent \in [Autoscalers -> [ResourceMetrics -> Seq(Int)]]
  /\ \A n \in Autoscalers, r \in ResourceMetrics :
       /\ Len(history[n][r]) <= Capacity
       /\ recent[n][r] = LastOf(ValuesOf(history[n][r]), W)

\* A reconcile, by its phase.
Answered ==
  result # Error /\ \E c \in Clusters : result = Fetch(object.spec.metrics, Namespace, c)

WorkOK ==
  /\ status \in Status
  /\ phase \in {"idle", "fetching", "processing", "resizing", "patching"}
  /\ phase = "idle" => active = None /\ object = None
  /\ phase # "idle" => active \in Autoscalers /\ object \in Object /\ ~object.deleting
  /\ phase \in {"processing", "resizing"} => Answered
  /\ DOMAIN series \subseteq ResourceMetrics
  /\ \A r \in DOMAIN series : series[r] \in Seq(Int)
  /\ phase \in {"idle", "fetching"} => series = << >> /\ forecasts = << >>
  /\ DOMAIN forecasts \subseteq DOMAIN series
  /\ \A r \in DOMAIN forecasts : forecasts[r] \in Forecasts
  /\ forecasts # << >> => object.spec.forecast

DemandOK ==
  /\ phase # "patching" => demand = << >>
  /\ phase = "resizing" \/ demand # << >> => object.spec.resize /\ forecasts # << >>
  /\ DOMAIN demand \subseteq DOMAIN forecasts
  /\ \A r \in DOMAIN demand : demand[r] \in Nat
  /\ RecentPeakFloors

DemandInv == ObjectsOK /\ HistoryOK /\ WorkOK /\ DemandOK

LEMMA InvariantImplies == DemandInv => TypeOK /\ RecentPeakFloors
BY DEF DemandInv, ObjectsOK, HistoryOK, WorkOK, DemandOK, TypeOK

LEMMA NothingIsRecent == LastOf(ValuesOf(<< >>), W) = << >>
<1>1. /\ << >> \in Seq(Sample) /\ Len(<< >>) = 0 BY EmptySeq
<1>2. ValuesOf(<< >>) \in Seq(Int) /\ Len(ValuesOf(<< >>)) = 0 BY <1>1, ValuesAreInts
<1>3. /\ LastOf(ValuesOf(<< >>), W) \in Seq(Int)
      /\ Len(LastOf(ValuesOf(<< >>), W)) = Shorter(0)
  BY <1>2, LastOfCells
<1>4. Shorter(0) = 0 BY DefaultWindowAssumption DEF Shorter, W
<1> QED BY <1>3, <1>4, EmptySeq

LEMMA EmptyHistory ==
  ASSUME history = NothingRecent, recent = NothingRecent
  PROVE  HistoryOK
<1>1. \A S : << >> \in Seq(S) /\ Len(<< >>) = 0 BY EmptySeq
<1>2. \A n \in Autoscalers, r \in ResourceMetrics : NothingRecent[n][r] = << >>
  BY DEF NothingRecent
<1>3. \A S : NothingRecent \in [Autoscalers -> [ResourceMetrics -> Seq(S)]]
  BY <1>1 DEF NothingRecent
<1>4. 0 <= Capacity BY HistoryAssumption
<1> QED BY <1>1, <1>2, <1>3, <1>4, NothingIsRecent DEF HistoryOK

LEMMA NoStatusTyped == NoStatus \in Status
BY BoundsAssumption DEF NoStatus, Status

LEMMA InitDemand == Init => DemandInv
<1> SUFFICES ASSUME Init PROVE DemandInv OBVIOUS
<1>1. ObjectsOK BY BoundsAssumption DEF Init, ObjectsOK, Objects
<1>2. HistoryOK BY EmptyHistory DEF Init, Log!Init, NothingRecent
<1>3. WorkOK BY NoStatusTyped DEF Init, Idle, WorkOK
<1>4. DemandOK BY DEF Init, Idle, DemandOK, RecentPeakFloors
<1> QED BY <1>1, <1>2, <1>3, <1>4 DEF DemandInv

-------------------------------------------------------------------------------
(* The steps *)

LEMMA WorkUnchanged ==
  ASSUME DemandInv, ObjectsOK', UNCHANGED <<history, recent, work>>
  PROVE  DemandInv'
<1>1. HistoryOK' BY DEF DemandInv, HistoryOK
<1>2. WorkOK' BY DEF DemandInv, WorkOK, Answered, work
<1>3. DemandOK' BY DEF DemandInv, DemandOK, RecentPeakFloors, work
<1> QED BY <1>1, <1>2, <1>3 DEF DemandInv

LEMMA UserSteps ==
  ASSUME DemandInv, NEW n \in Autoscalers,
         Create(n) \/ Update(n) \/ Delete(n) \/ RemoveFinalizer(n)
  PROVE  DemandInv'
<1>1. ObjectsOK BY DEF DemandInv
<1>2. UNCHANGED <<cache, cluster, queue, waiting, restarts, history, recent, work>>
  BY DEF Create, Update, Delete, RemoveFinalizer, ApiStep
<1>3. events \in Nat /\ events' \in 0 .. MaxEvents /\ events <= events'
  BY <1>1, BoundsAssumption DEF Create, Update, Delete, RemoveFinalizer, Event, ObjectsOK
<1>4. PICK new \in Objects :
        api' = [api EXCEPT ![n] = new] /\ (new # None => new.generation <= events')
  <2>1. CASE Create(n)
    <3>1. PICK spec \in Specs, finalizer \in BOOLEAN :
            api' = [api EXCEPT ![n] = [uid |-> events + 1, generation |-> 1, spec |-> spec,
                                       finalizer |-> finalizer, deleting |-> FALSE,
                                       status |-> NoStatus]]
      BY <2>1 DEF Create
    <3>2. events' = events + 1 /\ events + 1 \in 1 .. MaxEvents /\ 1 \in 1 .. MaxEvents
      BY <1>3, <2>1, BoundsAssumption DEF Create, Event
    <3> DEFINE new == [uid |-> events + 1, generation |-> 1, spec |-> spec,
                       finalizer |-> finalizer, deleting |-> FALSE, status |-> NoStatus]
    <3>3. new \in Object /\ new.generation = 1 BY <3>2, NoStatusTyped DEF Object
    <3>4. api' = [api EXCEPT ![n] = new] BY <3>1
    <3> HIDE DEF new
    <3>5. new \in Objects /\ new.generation <= events' BY <1>3, <3>2, <3>3 DEF Objects
    <3> QED BY <3>4, <3>5
  <2>2. CASE Update(n)
    <3>1. PICK spec \in Specs : api' = [api EXCEPT ![n].spec = spec, ![n].generation = @ + 1]
      BY <2>2 DEF Update
    <3>2. api[n] \in Object /\ api[n].generation <= events /\ events' = events + 1
      BY <1>1, <2>2 DEF Update, Event, ObjectsOK, Objects
    <3> DEFINE new == [api[n] EXCEPT !.spec = spec, !.generation = @ + 1]
    <3>3. api[n].generation + 1 \in 1 .. MaxEvents /\ api[n].generation + 1 <= events'
      BY <1>3, <3>2, BoundsAssumption DEF Object
    <3>4. new \in Object /\ new.generation = api[n].generation + 1
      BY <3>2, <3>3 DEF Object
    <3>5. api' = [api EXCEPT ![n] = new] BY <1>1, <3>1 DEF ObjectsOK
    <3> HIDE DEF new
    <3> QED BY <3>3, <3>4, <3>5 DEF Objects
  <2>3. CASE Delete(n) /\ api[n].finalizer
    <3>1. api' = [api EXCEPT ![n].deleting = TRUE, ![n].generation = @ + 1]
      BY <2>3 DEF Delete
    <3>2. api[n] \in Object /\ api[n].generation <= events /\ events' = events + 1
      BY <1>1, <2>3 DEF Delete, Event, ObjectsOK, Objects
    <3> DEFINE new == [api[n] EXCEPT !.deleting = TRUE, !.generation = @ + 1]
    <3>3. api[n].generation + 1 \in 1 .. MaxEvents /\ api[n].generation + 1 <= events'
      BY <1>3, <3>2, BoundsAssumption DEF Object
    <3>4. new \in Object /\ new.generation = api[n].generation + 1
      BY <3>2, <3>3 DEF Object
    <3>5. api' = [api EXCEPT ![n] = new] BY <1>1, <3>1 DEF ObjectsOK
    <3> HIDE DEF new
    <3> QED BY <3>3, <3>4, <3>5 DEF Objects
  <2>4. CASE (Delete(n) /\ ~api[n].finalizer) \/ RemoveFinalizer(n)
    <3>1. api' = [api EXCEPT ![n] = None] BY <2>4 DEF Delete, RemoveFinalizer
    <3> QED BY <3>1 DEF Objects
  <2> QED BY <2>1, <2>2, <2>3, <2>4
<1>5. api' \in [Autoscalers -> Objects] BY <1>1, <1>4 DEF ObjectsOK
<1>6. ASSUME NEW m \in Autoscalers
      PROVE  /\ api'[m] # None => api'[m].generation <= events'
             /\ cache[m] # None => cache[m].generation <= events'
  <2>1. api'[m] = new \/ api'[m] = api[m] BY <1>1, <1>4 DEF ObjectsOK
  <2>2. /\ api[m] # None => api[m].generation \in Nat /\ api[m].generation <= events
        /\ cache[m] # None => cache[m].generation \in Nat /\ cache[m].generation <= events
    BY <1>1 DEF ObjectsOK, Objects, Object
  <2> QED BY <1>3, <1>4, <2>1, <2>2
<1>7. ObjectsOK' BY <1>1, <1>2, <1>3, <1>5, <1>6 DEF ObjectsOK
<1> QED BY <1>2, <1>7, WorkUnchanged

LEMMA QueueSteps ==
  ASSUME DemandInv, NEW n \in Autoscalers,
         CacheSync(n) \/ TimerFires(n) \/ ReconcileGone(n) \/ ScopeFails(n)
  PROVE  DemandInv'
<1>1. ObjectsOK' /\ UNCHANGED <<history, recent, work>>
  BY DEF DemandInv, ObjectsOK, CacheSync, TimerFires, ReconcileGone, ScopeFails, Take
<1> QED BY <1>1, WorkUnchanged

LEMMA StartStep == ASSUME DemandInv, NEW n \in Autoscalers, StartReconcile(n) PROVE DemandInv'
<1> USE DEF StartReconcile, Take
<1>1. ObjectsOK' BY DEF DemandInv, ObjectsOK
<1>2. HistoryOK' BY DEF DemandInv, HistoryOK
<1>3. phase = "idle" BY AutoscalersAssumption DEF DemandInv, WorkOK
<1>4. cache[n] \in Object BY DEF DemandInv, ObjectsOK, Objects
<1>5. status' \in Status BY <1>4 DEF Object
<1>6. WorkOK' BY <1>3, <1>4, <1>5 DEF DemandInv, WorkOK
<1>7. DemandOK' BY <1>3 DEF DemandInv, DemandOK, RecentPeakFloors, WorkOK
<1> QED BY <1>1, <1>2, <1>6, <1>7 DEF DemandInv

LEMMA DeletedStep == ASSUME DemandInv, NEW n \in Autoscalers, ReconcileDeleted(n) PROVE DemandInv'
<1> USE DEF ReconcileDeleted, Take
<1>1. ObjectsOK' BY DEF DemandInv, ObjectsOK
<1>2. active = None /\ UNCHANGED work OBVIOUS
<1>3. /\ history' = [history EXCEPT ![n] = NothingRecent[n]]
      /\ recent' = [recent EXCEPT ![n] = NothingRecent[n]]
  BY DEF Log!Forget, NothingRecent
<1>4. HistoryOK'
  <2>1. \A S : << >> \in Seq(S) /\ Len(<< >>) = 0 BY EmptySeq
  <2>2. /\ NothingRecent[n] \in [ResourceMetrics -> Seq(Sample)]
        /\ NothingRecent[n] \in [ResourceMetrics -> Seq(Int)]
        /\ \A r \in ResourceMetrics : NothingRecent[n][r] = << >>
    BY <2>1 DEF NothingRecent
  <2>3. 0 <= Capacity BY HistoryAssumption
  <2>4. /\ history' \in [Autoscalers -> [ResourceMetrics -> Seq(Sample)]]
        /\ recent' \in [Autoscalers -> [ResourceMetrics -> Seq(Int)]]
    BY <1>3, <2>2 DEF DemandInv, HistoryOK
  <2>5. \A m \in Autoscalers :
          IF m = n THEN history'[m] = NothingRecent[n] /\ recent'[m] = NothingRecent[n]
                   ELSE history'[m] = history[m] /\ recent'[m] = recent[m]
    BY <1>3 DEF DemandInv, HistoryOK
  <2>6. ASSUME NEW m \in Autoscalers, NEW r \in ResourceMetrics
        PROVE  /\ Len(history'[m][r]) <= Capacity
               /\ recent'[m][r] = LastOf(ValuesOf(history'[m][r]), W)
    BY <2>1, <2>2, <2>3, <2>5, NothingIsRecent DEF DemandInv, HistoryOK
  <2> QED BY <2>4, <2>6 DEF HistoryOK
<1>5. WorkOK' BY <1>2 DEF DemandInv, WorkOK, Answered, work
<1>6. DemandOK'
  <2>1. phase = "idle" BY <1>2, AutoscalersAssumption DEF DemandInv, WorkOK
  <2>2. demand = << >> BY <2>1 DEF DemandInv, DemandOK
  <2> QED BY <1>2, <2>1, <2>2 DEF DemandInv, DemandOK, RecentPeakFloors, work
<1> QED BY <1>1, <1>4, <1>5, <1>6 DEF DemandInv

LEMMA ResetDemand ==
  ASSUME DemandInv, ObjectsOK', HistoryOK', ResetWork
  PROVE  DemandInv'
<1>1. WorkOK' BY NoStatusTyped DEF WorkOK, ResetWork
<1>2. DemandOK' BY DEF DemandOK, RecentPeakFloors, ResetWork
<1> QED BY <1>1, <1>2 DEF DemandInv

LEMMA RestartStep == ASSUME DemandInv, Restart PROVE DemandInv'
<1>1. ObjectsOK' BY BoundsAssumption DEF DemandInv, ObjectsOK, Restart
<1>2. HistoryOK'
  <2>1. (history = NothingRecent)' /\ (recent = NothingRecent)'
    BY DEF Restart, NothingRecent
  <2>2. (history = NothingRecent /\ recent = NothingRecent => HistoryOK)'
    BY EmptyHistory, PTL
  <2> QED BY <2>1, <2>2
<1> QED BY <1>1, <1>2, ResetDemand DEF Restart

LEMMA FetchSteps ==
  ASSUME DemandInv, FetchFails \/ FetchSucceeds \/ SkipResource
  PROVE  DemandInv'
<1> USE DEF FetchFails, FetchSucceeds, SkipResource, WorkerStep
<1>1. ObjectsOK' BY DEF DemandInv, ObjectsOK
<1>2. HistoryOK' BY DEF DemandInv, HistoryOK
<1>3. object \in Object BY DEF DemandInv, WorkOK
<1>4. status' \in Status
  <2>1. CASE FetchFails
    <3>1. status' = [status EXCEPT !.ready = "False", !.observed = object.generation]
      BY <2>1 DEF SetMetricsReady
    <3>2. object.generation \in 0 .. MaxEvents BY <1>3, BoundsAssumption DEF Object
    <3> QED BY <3>1, <3>2 DEF DemandInv, WorkOK, Status
  <2> QED BY <2>1 DEF DemandInv, WorkOK
<1>5. Answered' \/ phase' = "patching"
  BY DEF DemandInv, WorkOK, ObjectsOK, Answered, Fetched
<1>6. WorkOK' BY <1>4, <1>5 DEF DemandInv, WorkOK
<1>7. DemandOK' BY DEF DemandInv, DemandOK, RecentPeakFloors
<1> QED BY <1>1, <1>2, <1>6, <1>7 DEF DemandInv

LEMMA ProcessStep == ASSUME DemandInv, ProcessResource PROVE DemandInv'
<1> DEFINE r == Head(todo)
           fetched == result.byResource[r]
           buffer == history[active][r]
           sample == Latest(fetched)
<1> USE DEF WorkerStep
<1>1. ObjectsOK' BY DEF DemandInv, ObjectsOK, ProcessResource
<1>2. active \in Autoscalers /\ object \in Object /\ Answered /\ phase = "processing"
  BY DEF DemandInv, WorkOK, ProcessResource
<1>3. r \in ResourceMetrics /\ fetched \in Seq(Int) /\ fetched # << >>
  <2>1. object.spec \in Specs BY <1>2 DEF Object
  <2>2. PICK c \in Clusters : result = Fetch(object.spec.metrics, Namespace, c)
    BY <1>2 DEF Answered
  <2>3. result # Error BY <1>2 DEF Answered
  <2>4. r \in DOMAIN result.byResource BY DEF ProcessResource
  <2> QED BY <2>1, <2>2, <2>3, <2>4, FetchAnswers
<1>4. Last(fetched) \in Int
  <2>1. Len(fetched) \in 1 .. Len(fetched) BY <1>3, EmptySeq
  <2> QED BY <1>3, <2>1, ElementOfSeq DEF Last
<1>5. sample \in Sample /\ sample.value = Last(fetched)
  BY <1>2, <1>4 DEF Latest, Sample, Object
<1>6. buffer \in Seq(Sample) /\ Len(buffer) <= Capacity
      /\ recent[active][r] = LastOf(ValuesOf(buffer), W)
  BY <1>2, <1>3 DEF DemandInv, HistoryOK
<1> DEFINE new == Log!Remember(buffer, sample)
           latest == LastOf(Append(recent[active][r], Last(fetched)), W)
<1>7. new \in Seq(Sample) /\ Len(new) <= Capacity BY <1>5, <1>6, RememberCells
<1>8. latest = LastOf(ValuesOf(new), W) BY <1>5, <1>6, RememberKeepsRecent
<1>9. latest \in Seq(Int)
  <2>1. ValuesOf(new) \in Seq(Int) BY <1>7, ValuesAreInts
  <2> QED BY <1>8, <2>1, LastOfCells
<1>10. /\ history' = [history EXCEPT ![active][r] = new]
       /\ recent' = [recent EXCEPT ![active][r] = latest]
  BY DEF ProcessResource, Log!Record, W
<1>11. series' = With(series, r, ForecastSeries(r, fetched)) BY DEF ProcessResource
<1>12. \/ forecasts' = forecasts
       \/ /\ object.spec.forecast
          /\ \E response \in Forecasts : forecasts' = With(forecasts, r, response)
  BY DEF ProcessResource, Responses
<1>13. UNCHANGED <<active, object, status, phase, result, demand>> BY DEF ProcessResource
<1> HIDE DEF r, fetched, buffer, sample, new, latest
<1>14. HistoryOK'
  <2>1. \A m \in Autoscalers, q \in ResourceMetrics :
          /\ history'[m][q] = IF m = active /\ q = r THEN new ELSE history[m][q]
          /\ recent'[m][q] = IF m = active /\ q = r THEN latest ELSE recent[m][q]
    BY <1>2, <1>3, <1>10 DEF DemandInv, HistoryOK
  <2>2. /\ history' \in [Autoscalers -> [ResourceMetrics -> Seq(Sample)]]
        /\ recent' \in [Autoscalers -> [ResourceMetrics -> Seq(Int)]]
    BY <1>2, <1>3, <1>7, <1>9, <1>10 DEF DemandInv, HistoryOK
  <2>3. ASSUME NEW m \in Autoscalers, NEW q \in ResourceMetrics
        PROVE  /\ Len(history'[m][q]) <= Capacity
               /\ recent'[m][q] = LastOf(ValuesOf(history'[m][q]), W)
    BY <1>7, <1>8, <2>1 DEF DemandInv, HistoryOK
  <2> QED BY <2>2, <2>3 DEF HistoryOK
<1>15. ForecastSeries(r, fetched) \in Seq(Int)
  <2>1. history'[active][r] \in Seq(Sample) BY <1>2, <1>3, <1>14 DEF HistoryOK
  <2>2. ValuesOf(history'[active][r]) \in Seq(Int) BY <2>1, ValuesAreInts
  <2> QED BY <1>3, <2>2 DEF ForecastSeries
<1>16. /\ DOMAIN series' = DOMAIN series \cup {r}
       /\ \A q \in DOMAIN series' : series'[q] \in Seq(Int)
  <2>1. DOMAIN series' = DOMAIN series \cup {r} BY <1>11 DEF With
  <2>2. \A q \in DOMAIN series' :
          series'[q] = IF q = r THEN ForecastSeries(r, fetched) ELSE series[q]
    BY <1>11 DEF With
  <2> QED BY <1>15, <2>1, <2>2 DEF DemandInv, WorkOK
<1>17. /\ DOMAIN forecasts' \subseteq DOMAIN forecasts \cup {r}
       /\ \A q \in DOMAIN forecasts' : forecasts'[q] \in Forecasts
       /\ forecasts' # << >> => object.spec.forecast
  BY <1>12 DEF With, DemandInv, WorkOK
<1>18. WorkOK' BY <1>2, <1>3, <1>13, <1>16, <1>17 DEF DemandInv, WorkOK, Answered
<1>19. DemandOK' BY <1>2, <1>13 DEF DemandInv, DemandOK, RecentPeakFloors
<1> QED BY <1>1, <1>14, <1>18, <1>19 DEF DemandInv

LEMMA ConcludeStep == ASSUME DemandInv, ConcludeFetch PROVE DemandInv'
<1> USE DEF ConcludeFetch, WorkerStep
<1>1. ObjectsOK' BY DEF DemandInv, ObjectsOK
<1>2. HistoryOK' BY DEF DemandInv, HistoryOK
<1>3. status' \in Status
  <2> DEFINE lengths == [r \in DOMAIN series |-> Len(series[r])]
             samples == PeakOf({Len(series[r]) : r \in DOMAIN series})
  <2>1. samples \in Nat
    <3>1. /\ DOMAIN lengths = DOMAIN series /\ DOMAIN lengths \subseteq ResourceMetrics
          /\ \A r \in DOMAIN lengths : lengths[r] \in Nat
      BY LenProperties DEF DemandInv, WorkOK
    <3>2. PeakOf({lengths[r] : r \in DOMAIN lengths}) \in Nat
      <4> HIDE DEF lengths
      <4> QED BY <3>1, PeakOfTwo
    <3>3. {lengths[r] : r \in DOMAIN lengths} = {Len(series[r]) : r \in DOMAIN series}
      OBVIOUS
    <3> QED BY <3>2, <3>3
  <2>2. object.generation \in 0 .. MaxEvents
    BY BoundsAssumption DEF DemandInv, WorkOK, Object
  <2>3. status' = [[status EXCEPT !.ready = "True", !.observed = object.generation]
                     EXCEPT !.samples = samples]
    BY DEF SetMetricsReady
  <2> HIDE DEF samples
  <2> QED BY <2>1, <2>2, <2>3 DEF DemandInv, WorkOK, Status
<1>4. WorkOK' BY <1>3 DEF DemandInv, WorkOK, Answered
<1>5. DemandOK' BY DEF DemandInv, WorkOK, DemandOK, RecentPeakFloors
<1> QED BY <1>1, <1>2, <1>4, <1>5 DEF DemandInv

LEMMA ApplyStep == ASSUME DemandInv, Apply PROVE DemandInv'
<1> USE DEF Apply, WorkerStep
<1>1. ObjectsOK' BY DEF DemandInv, ObjectsOK
<1>2. HistoryOK' BY DEF DemandInv, HistoryOK
<1>3. WorkOK' BY DEF DemandInv, WorkOK, Answered
<1>4. active \in Autoscalers /\ UNCHANGED <<recent, active, object, forecasts>>
  BY DEF DemandInv, WorkOK
<1>5. CASE demand' = << >>
  <2>1. DemandOK' BY <1>5 DEF DemandInv, DemandOK, RecentPeakFloors
  <2> QED BY <1>1, <1>2, <1>3, <2>1 DEF DemandInv
<1>6. CASE demand' = [r \in DOMAIN forecasts |->
                        EffectivePeak(forecasts[r], RecentPeak(RecentPeakSamples(r), W))]
  <2>1. ASSUME NEW r \in DOMAIN forecasts, NEW i \in DOMAIN recent[active][r]
        PROVE  recent[active][r][i] <= demand'[r]
    <3> DEFINE buffer == history[active][r]
               floor == RecentPeak(RecentPeakSamples(r), W)
    <3>1. r \in ResourceMetrics BY DEF DemandInv, WorkOK
    <3>2. /\ buffer \in Seq(Sample)
          /\ recent[active][r] = LastOf(ValuesOf(buffer), W)
      BY <1>4, <3>1 DEF DemandInv, HistoryOK
    <3>3. ValuesOf(buffer) \in Seq(Int) BY <3>2, ValuesAreInts
    <3>4. buffer # << >>
      <4>1. recent[active][r] # << >> BY EmptySeq
      <4> QED BY <3>2, <4>1, NothingIsRecent
    <3>5. RecentPeakSamples(r) = ValuesOf(buffer) BY <3>4 DEF RecentPeakSamples
    <3>6. floor \in Nat /\ recent[active][r][i] <= floor
      BY <3>2, <3>3, <3>5, RecentPeakIsAFloor
    <3>7. recent[active][r][i] \in Int
      <4>1. LastOf(ValuesOf(buffer), W) \in Seq(Int) BY <3>3, LastOfCells
      <4> QED BY <3>2, <4>1, LenProperties, ElementOfSeq
    <3>8. forecasts[r] \in Int BY ForecastsAssumption DEF DemandInv, WorkOK
    <3>9. demand'[r] = EffectivePeak(forecasts[r], floor) BY <1>6
    <3> HIDE DEF floor
    <3> QED BY <3>6, <3>7, <3>8, <3>9 DEF EffectivePeak
  <2>2. RecentPeakFloors' BY <1>4, <1>6, <2>1 DEF RecentPeakFloors
  <2>3. ASSUME NEW r \in DOMAIN forecasts PROVE demand'[r] \in Nat
    <3> DEFINE floor == RecentPeak(RecentPeakSamples(r), W)
    <3>1. r \in ResourceMetrics /\ forecasts[r] \in Int /\ series[r] \in Seq(Int)
      BY ForecastsAssumption DEF DemandInv, WorkOK
    <3>2. ValuesOf(history[active][r]) \in Seq(Int)
      BY <1>4, <3>1, ValuesAreInts DEF DemandInv, HistoryOK
    <3>3. floor \in Nat BY <3>1, <3>2, RecentPeakIsAFloor DEF RecentPeakSamples
    <3>4. demand'[r] = EffectivePeak(forecasts[r], floor) BY <1>6
    <3> HIDE DEF floor
    <3> QED BY <3>1, <3>3, <3>4 DEF EffectivePeak
  <2>4. DemandOK' BY <1>6, <2>2, <2>3 DEF DemandInv, DemandOK
  <2> QED BY <1>1, <1>2, <1>3, <2>4 DEF DemandInv
<1> QED BY <1>5, <1>6 DEF W

LEMMA PatchSteps == ASSUME DemandInv, PatchStatus \/ PatchFails PROVE DemandInv'
<1> USE DEF PatchStatus, PatchFails, Finish
<1>1. active \in Autoscalers /\ object \in Object /\ status \in Status
  BY DEF DemandInv, WorkOK
<1>2. /\ api' \in [Autoscalers -> Objects]
      /\ \A n \in Autoscalers : api'[n] # None => api'[n].generation <= events
  <2>1. CASE PatchStatus
    <3>1. api \in [Autoscalers -> Objects] /\ api[active] \in Object
      BY <1>1, <2>1 DEF DemandInv, ObjectsOK, Objects
    <3> DEFINE new == [api[active] EXCEPT !.status = Patched(@)]
    <3>2. Patched(api[active].status) \in Status
      BY <1>1, <3>1 DEF Patched, Status, Object
    <3>3. new \in Object /\ new.generation = api[active].generation
      BY <3>1, <3>2 DEF Object
    <3>4. api' = [api EXCEPT ![active] = new] BY <2>1, <3>1
    <3> HIDE DEF new
    <3> QED BY <1>1, <2>1, <3>1, <3>3, <3>4 DEF DemandInv, ObjectsOK, Objects
  <2>2. CASE PatchFails BY <2>2 DEF DemandInv, ObjectsOK
  <2> QED BY <2>1, <2>2
<1>3. ObjectsOK' BY <1>1, <1>2 DEF DemandInv, ObjectsOK
<1>4. HistoryOK' BY DEF DemandInv, HistoryOK
<1> QED BY <1>3, <1>4, ResetDemand

LEMMA DemandKept == DemandInv /\ [Next]_vars => DemandInv'
<1> SUFFICES ASSUME DemandInv, [Next]_vars PROVE DemandInv' OBVIOUS
<1>1. CASE UNCHANGED vars
  <2>1. ObjectsOK' BY <1>1 DEF vars, DemandInv, ObjectsOK
  <2> QED BY <1>1, <2>1, WorkUnchanged DEF vars
<1>2. CASE Restart BY <1>2, RestartStep
<1>3. CASE Worker
  BY <1>3, FetchSteps, ProcessStep, ConcludeStep, ApplyStep, PatchSteps DEF Worker
<1>4. CASE ChangeCluster
  <2>1. ObjectsOK' /\ UNCHANGED <<history, recent, work>>
    BY <1>4 DEF DemandInv, ObjectsOK, ChangeCluster
  <2> QED BY <2>1, WorkUnchanged
<1>5. ASSUME NEW n \in Autoscalers,
             \/ Create(n) \/ Update(n) \/ Delete(n) \/ RemoveFinalizer(n)
             \/ CacheSync(n) \/ TimerFires(n)
             \/ ReconcileGone(n) \/ ReconcileDeleted(n) \/ ScopeFails(n)
             \/ StartReconcile(n)
      PROVE  DemandInv'
  BY <1>5, UserSteps, QueueSteps, DeletedStep, StartStep
<1> QED BY <1>1, <1>2, <1>3, <1>4, <1>5 DEF Next

LEMMA DemandInvariant == Spec => []DemandInv
BY InitDemand, DemandKept, PTL DEF Spec

-------------------------------------------------------------------------------
(* The theorems *)

\* The variables of the controller keep their types, and those of a reconcile
\* fit its phase (neuralautoscaler_controller.go:79-197).
THEOREM TypeCorrect == Spec => []TypeOK
<1>1. DemandInv => TypeOK BY InvariantImplies
<1> QED BY <1>1, DemandInvariant, PTL

\* Whatever is fetched, edited, deleted or restarted: no sample of the last
\* DefaultRecentPeakWindow reconciles is above what the pods are sized for
\* (neuralautoscaler_controller.go:69-71, RecentPeakSamples of
\* internal/metrics/history.go, RecentPeak of internal/resize/peak.go).
THEOREM BurstsAreFloors == Spec => []RecentPeakFloors
<1>1. DemandInv => RecentPeakFloors BY InvariantImplies
<1> QED BY <1>1, DemandInvariant, PTL

\* The peaks that Apply divides are natural numbers, also when a forecast is
\* negative: what PeaksAssumption of PodActuator takes for granted.
THEOREM DemandIsNatural == Spec => [](\A r \in DOMAIN demand : demand[r] \in Nat)
<1>1. DemandInv => \A r \in DOMAIN demand : demand[r] \in Nat BY DEF DemandInv, DemandOK
<1> QED BY <1>1, DemandInvariant, PTL
===============================================================================
