------------------------ MODULE ContainerResizeProofs ------------------------
(***************************************************************************)
(* Proofs about ContainerResize, for every set of specs, containers, peaks *)
(* and pod counts, and for every size of the units and of the integers.    *)
(***************************************************************************)
EXTENDS ContainerResize, ResizeTargetsProofs, TLAPS

-------------------------------------------------------------------------------
(* One resize *)

TypeInv ==
  /\ spec \in Specs
  /\ DOMAIN limits \subseteq DOMAIN requests /\ DOMAIN requests \subseteq ResourceMetrics
  /\ \A r \in DOMAIN requests : requests[r] \in Nat
  /\ \A r \in DOMAIN limits : limits[r] \in Nat

IInv == TypeInv /\ RequestsWithinLimits

LEMMA DesiredInt ==
  ASSUME TypeInv, NEW peaks \in Peaks, NEW n \in Nat \ {0}, NEW r
  PROVE  DesiredQuantity(r, peaks, n, requests) \in Int
<1>1. AllNat(peaks) BY PeaksAssumption DEF AllNat
<1>2. AllInt(requests) BY DEF TypeInv, AllInt
<1> QED BY <1>1, <1>2, DesiredIsInt

\* A target is an integer, inside the bounds of its resource.
LEMMA TargetInBounds ==
  ASSUME TypeInv, NEW peaks \in Peaks, NEW podCount \in PodCounts,
         NEW r \in DOMAIN spec.resources \cap ResourceMetrics
  PROVE  LET b == spec.resources[r]
             t == ComputeTargets(peaks, podCount, requests, spec.resources)[r] IN
         /\ t \in Int
         /\ b.max # None => t <= b.max
         /\ b.min # None /\ ValidBounds(b) => t >= b.min
<1> DEFINE b == spec.resources[r]
           n == IF podCount <= 0 THEN 1 ELSE podCount
           d == DesiredQuantity(r, peaks, n, requests)
           c == ClampQuantity(d, b)
           m == NormalizeMemoryQuantity(c)
           t == ComputeTargets(peaks, podCount, requests, spec.resources)[r]
<1>1. b \in ResourceBounds
  BY SpecsAssumption DEF TypeInv
<1>2. n \in Nat \ {0}
  BY PodCountsAssumption
<1>3. t = IF r = "memory" THEN ClampQuantity(m, b) ELSE c
  BY DEF ComputeTargets
<1> HIDE DEF n
<1>4. d \in Int
  BY <1>2, DesiredInt
<1> HIDE DEF d, b
<1>5. /\ c \in Int
      /\ b.max # None => c <= b.max
      /\ b.min # None /\ ValidBounds(b) => c >= b.min
  BY <1>1, <1>4, ClampInBounds
<1> HIDE DEF c
<1>6. m \in Int
  BY <1>5, NormalizeNeverShrinks
<1> HIDE DEF m
<1>7. LET e == ClampQuantity(m, b) IN
      /\ e \in Int
      /\ b.max # None => e <= b.max
      /\ b.min # None /\ ValidBounds(b) => e >= b.min
  BY <1>1, <1>6, ClampInBounds
<1> HIDE DEF t
<1> QED BY <1>3, <1>5, <1>7 DEF t, b

\* After thresholding, a target is a computed one or the current request.
LEMMA PlannedTarget ==
  ASSUME TypeInv, NEW peaks \in Peaks, NEW podCount \in PodCounts
  PROVE  LET targets == ComputeTargets(peaks, podCount, requests, spec.resources)
             planned == PlannedTargets(peaks, podCount, requests, spec) IN
         /\ DOMAIN planned = DOMAIN spec.resources \cap ResourceMetrics
         /\ \A r \in DOMAIN planned :
              /\ planned[r] \in Int
              /\ planned[r] = targets[r] \/ planned[r] = At(requests, r, 0)
<1> DEFINE targets == ComputeTargets(peaks, podCount, requests, spec.resources)
           planned == PlannedTargets(peaks, podCount, requests, spec)
<1>1. DOMAIN targets = DOMAIN spec.resources \cap ResourceMetrics
  BY DEF ComputeTargets
<1>2. \A r \in DOMAIN targets : targets[r] \in Int
  BY <1>1, TargetInBounds
<1>3. \A r : At(requests, r, 0) \in Int
  BY DEF At, TypeInv
<1> HIDE DEF targets
<1>4. /\ DOMAIN planned = DOMAIN targets
      /\ \A r \in DOMAIN planned :
           planned[r] = targets[r] \/ planned[r] = At(requests, r, 0)
  BY DEF PlannedTargets, ApplyMinChangeThreshold, targets
<1> HIDE DEF planned
<1> QED BY <1>1, <1>2, <1>3, <1>4 DEF targets, planned

\* What a resize does to each request and each limit.
LEMMA ResizeEffect ==
  ASSUME TypeInv, NEW peaks \in Peaks, NEW podCount \in PodCounts,
         Resize(peaks, podCount)
  PROVE  LET t == PlannedTargets(peaks, podCount, requests, spec) IN
         /\ DOMAIN t \subseteq DOMAIN spec.resources \cap ResourceMetrics
         /\ \A r \in DOMAIN t : t[r] \in Int
         /\ DOMAIN requests' = DOMAIN requests \cup DOMAIN t
         /\ \A r \in DOMAIN requests' :
              requests'[r] = IF r \in DOMAIN t THEN t[r] ELSE requests[r]
         /\ \A r \in DOMAIN requests' : requests'[r] >= 0
         /\ DOMAIN limits' = DOMAIN limits
         /\ \A r \in DOMAIN limits :
              limits'[r] = IF r \in DOMAIN t /\ limits[r] < t[r] THEN t[r] ELSE limits[r]
         /\ spec' = spec /\ ValidateResize(spec)
<1> DEFINE t == PlannedTargets(peaks, podCount, requests, spec)
<1>1. /\ DOMAIN t = DOMAIN spec.resources \cap ResourceMetrics
      /\ \A r \in DOMAIN t : t[r] \in Int
  BY PlannedTarget
<1>2. /\ requests' = NewRequests(requests, t)
      /\ limits' = NewLimits(limits, t)
      /\ \A r \in DOMAIN requests' : requests'[r] >= 0
      /\ spec' = spec /\ ValidateResize(spec)
  BY DEF Resize, Accepts
<1> HIDE DEF t
<1>3. /\ DOMAIN requests' = DOMAIN requests \cup DOMAIN t
      /\ \A r \in DOMAIN requests' :
           requests'[r] = IF r \in DOMAIN t THEN t[r] ELSE requests[r]
  BY <1>2 DEF NewRequests
<1>4. /\ DOMAIN limits' = DOMAIN limits
      /\ \A r \in DOMAIN limits :
           limits'[r] = IF r \in DOMAIN t /\ limits[r] < t[r] THEN t[r] ELSE limits[r]
  BY <1>2 DEF NewLimits
<1> QED BY <1>1, <1>2, <1>3, <1>4 DEF t

-------------------------------------------------------------------------------
(* Invariants *)

LEMMA InitIInv == Init => IInv
BY ContainersAssumption DEF Init, IInv, TypeInv, RequestsWithinLimits

LEMMA NextIInv == IInv /\ [Next]_vars => IInv'
<1> SUFFICES ASSUME IInv, [Next]_vars PROVE IInv'
  OBVIOUS
<1> USE DEF IInv
<1>1. ASSUME NEW peaks \in Peaks, NEW podCount \in PodCounts, Resize(peaks, podCount)
      PROVE  IInv'
  <2> DEFINE t == PlannedTargets(peaks, podCount, requests, spec)
  <2>1. /\ DOMAIN t \subseteq DOMAIN spec.resources \cap ResourceMetrics
        /\ \A r \in DOMAIN t : t[r] \in Int
        /\ DOMAIN requests' = DOMAIN requests \cup DOMAIN t
        /\ \A r \in DOMAIN requests' :
             requests'[r] = IF r \in DOMAIN t THEN t[r] ELSE requests[r]
        /\ \A r \in DOMAIN requests' : requests'[r] >= 0
        /\ DOMAIN limits' = DOMAIN limits
        /\ \A r \in DOMAIN limits :
             limits'[r] = IF r \in DOMAIN t /\ limits[r] < t[r] THEN t[r] ELSE limits[r]
        /\ spec' = spec
    BY <1>1, ResizeEffect
  <2> HIDE DEF t
  <2>2. TypeInv'
    <3>1. \A r \in DOMAIN requests' : requests'[r] \in Nat
      BY <2>1 DEF TypeInv
    <3>2. \A r \in DOMAIN limits' : limits'[r] \in Nat
      BY <2>1 DEF TypeInv
    <3> QED BY <2>1, <3>1, <3>2 DEF TypeInv
  <2>3. RequestsWithinLimits'
    BY <2>1 DEF TypeInv, RequestsWithinLimits
  <2> QED BY <2>2, <2>3
<1>2. CASE EditSpec
  BY <1>2 DEF EditSpec, TypeInv, RequestsWithinLimits
<1>3. CASE UNCHANGED vars
  BY <1>3 DEF vars, TypeInv, RequestsWithinLimits
<1> QED BY <1>1, <1>2, <1>3 DEF Next

\* Requests and limits stay quantities of the two resources (buildResizePod
\* and what the API admits).
THEOREM TypeCorrect == Spec => []TypeOK
<1>1. IInv => TypeOK
  BY DEF IInv, TypeInv, TypeOK
<1> QED BY <1>1, InitIInv, NextIInv, PTL DEF Spec

\* No reconcile ever submits a container whose request exceeds its limit
\* (buildResizePod, internal/resize/actuator.go).
THEOREM RequestsStayWithinLimits == Spec => []RequestsWithinLimits
<1>1. IInv => RequestsWithinLimits
  BY DEF IInv
<1> QED BY <1>1, InitIInv, NextIInv, PTL DEF Spec

\* A larger peak never gives a smaller target, whatever units and bounds are
\* between them (ComputeTargets, internal/resize/target.go).
THEOREM TargetsFollowPeaks == Spec => []LargerPeakLargerTarget
<1>1. IInv => LargerPeakLargerTarget
  <2> SUFFICES ASSUME IInv, NEW low \in Peaks, NEW high \in Peaks, NEW podCount \in PodCounts,
                      ValidateResize(spec), podCount > 0,
                      NEW r \in DOMAIN low \cap DOMAIN high \cap DOMAIN spec.resources,
                      0 < low[r], low[r] <= high[r],
                      CeilDiv(6 * high[r], 5 * podCount) <= MaxInt64
               PROVE  ComputeTargets(low, podCount, requests, spec.resources)[r] <=
                        ComputeTargets(high, podCount, requests, spec.resources)[r]
    BY DEF LargerPeakLargerTarget
  <2> DEFINE x == CeilDiv(6 * low[r], 5 * podCount)
             y == CeilDiv(6 * high[r], 5 * podCount)
  <2>1. r \in ResourceMetrics /\ spec.resources[r] \in ResourceBounds
    BY SpecsAssumption DEF ValidateResize, IInv, TypeInv
  <2>2. low[r] \in Nat /\ high[r] \in Nat /\ podCount \in Nat \ {0}
    BY PeaksAssumption, PodCountsAssumption
  <2>3. x \in Int /\ y \in Int /\ x <= y
    <3>1. /\ 6 * low[r] \in Int /\ 6 * high[r] \in Int /\ 6 * low[r] <= 6 * high[r]
          /\ 5 * podCount \in Nat \ {0}
      BY <2>2
    <3> QED BY <3>1, CeilDivTimes, CeilDivMonotone
  <2>4. DesiredQuantity(r, low, podCount, requests) = x
    BY <2>2, <2>3, MaxInt64Assumption DEF DesiredQuantity, At, ToInt64
  <2>5. DesiredQuantity(r, high, podCount, requests) = y
    BY <2>2, <2>3, MaxInt64Assumption DEF DesiredQuantity, At, ToInt64
  <2> HIDE DEF x, y
  <2>6. /\ ComputeTargets(low, podCount, requests, spec.resources)[r] =
             SettledQuantity(r, x, spec.resources[r])
        /\ ComputeTargets(high, podCount, requests, spec.resources)[r] =
             SettledQuantity(r, y, spec.resources[r])
    BY <2>1, <2>2, <2>4, <2>5, TargetOf
  <2> QED BY <2>1, <2>3, <2>6, SettledMonotone
<1> QED BY <1>1, InitIInv, NextIInv, PTL DEF Spec

-------------------------------------------------------------------------------
(* Action properties *)

\* A limit only moves up, to exactly the new request, and none is added
\* (buildResizePod, internal/resize/actuator.go).
THEOREM LimitsOnlyRise == Spec => LimitsRiseToRequests
<1> DEFINE A == /\ DOMAIN limits' = DOMAIN limits
                /\ \A r \in DOMAIN limits :
                     limits'[r] # limits[r] =>
                       limits'[r] > limits[r] /\ limits'[r] = requests'[r]
<1>1. ASSUME IInv, [Next]_vars PROVE [A]_vars
  <2> USE <1>1 DEF IInv
  <2>1. ASSUME NEW peaks \in Peaks, NEW podCount \in PodCounts, Resize(peaks, podCount)
        PROVE  A
    <3> DEFINE t == PlannedTargets(peaks, podCount, requests, spec)
    <3>1. /\ \A r \in DOMAIN t : t[r] \in Int
          /\ DOMAIN requests' = DOMAIN requests \cup DOMAIN t
          /\ \A r \in DOMAIN requests' :
               requests'[r] = IF r \in DOMAIN t THEN t[r] ELSE requests[r]
          /\ DOMAIN limits' = DOMAIN limits
          /\ \A r \in DOMAIN limits :
               limits'[r] = IF r \in DOMAIN t /\ limits[r] < t[r] THEN t[r] ELSE limits[r]
      BY <2>1, ResizeEffect
    <3> HIDE DEF t
    <3> QED BY <3>1 DEF TypeInv
  <2>2. CASE EditSpec
    BY <2>2 DEF EditSpec
  <2>3. CASE UNCHANGED vars
    BY <2>3
  <2> QED BY <2>1, <2>2, <2>3 DEF Next
<1> QED BY <1>1, InitIInv, NextIInv, PTL DEF Spec, LimitsRiseToRequests

\* A request that moves moves inside the min and max of its resource, whatever
\* the conversion to int64 and the rounding of memory made of the peak
\* (ComputeTargets, internal/resize/target.go).
THEOREM RequestsMoveInBounds == Spec => MovedRequestsInBounds
<1> DEFINE A == \A r \in DOMAIN requests :
                  requests'[r] # requests[r] =>
                    /\ r \in DOMAIN spec.resources /\ ValidateResize(spec)
                    /\ spec.resources[r].min # None => requests'[r] >= spec.resources[r].min
                    /\ spec.resources[r].max # None => requests'[r] <= spec.resources[r].max
<1>1. ASSUME IInv, [Next]_vars PROVE [A]_vars
  <2> USE <1>1 DEF IInv
  <2>1. ASSUME NEW peaks \in Peaks, NEW podCount \in PodCounts, Resize(peaks, podCount)
        PROVE  A
    <3> SUFFICES ASSUME NEW r \in DOMAIN requests, requests'[r] # requests[r]
                 PROVE  /\ r \in DOMAIN spec.resources /\ ValidateResize(spec)
                        /\ spec.resources[r].min # None => requests'[r] >= spec.resources[r].min
                        /\ spec.resources[r].max # None => requests'[r] <= spec.resources[r].max
      OBVIOUS
    <3> DEFINE t == PlannedTargets(peaks, podCount, requests, spec)
               c == ComputeTargets(peaks, podCount, requests, spec.resources)
    <3>1. /\ DOMAIN t \subseteq DOMAIN spec.resources \cap ResourceMetrics
          /\ DOMAIN requests' = DOMAIN requests \cup DOMAIN t
          /\ \A q \in DOMAIN requests' :
               requests'[q] = IF q \in DOMAIN t THEN t[q] ELSE requests[q]
          /\ ValidateResize(spec)
      BY <2>1, ResizeEffect
    <3>2. \A q \in DOMAIN t : t[q] = c[q] \/ t[q] = At(requests, q, 0)
      BY PlannedTarget
    <3> HIDE DEF t
    <3>3. r \in DOMAIN t /\ requests'[r] = t[r]
      BY <3>1
    <3>4. requests'[r] = c[r]
      BY <3>2, <3>3 DEF At
    <3>5. r \in DOMAIN spec.resources \cap ResourceMetrics /\ ValidBounds(spec.resources[r])
      BY <3>1, <3>3 DEF ValidateResize
    <3> DEFINE b == spec.resources[r]
    <3>6. /\ b.max # None => c[r] <= b.max
          /\ b.min # None /\ ValidBounds(b) => c[r] >= b.min
      BY <3>5, TargetInBounds
    <3> QED BY <3>1, <3>4, <3>5, <3>6
  <2>2. CASE EditSpec
    BY <2>2 DEF EditSpec
  <2>3. CASE UNCHANGED vars
    BY <2>3
  <2> QED BY <2>1, <2>2, <2>3 DEF Next
<1> QED BY <1>1, InitIInv, NextIInv, PTL DEF Spec, MovedRequestsInBounds

\* A request that moves moves by the threshold of its own resource, which
\* ApplyMinChangeThreshold compares (internal/resize/threshold.go).
THEOREM MovesAreWorthTheirThreshold == Spec => MovesAreWorthwhile
<1> DEFINE percent(r) == EffectiveMinChangePercent(spec.minChangePercent,
                                                   spec.resources[r].minChangePercent)
           A == \A r \in DOMAIN requests :
                  requests'[r] # requests[r] /\ requests[r] > 0 =>
                    Distance(requests[r], requests'[r]) * 100 >= requests[r] * percent(r)
<1>1. ASSUME IInv, [Next]_vars PROVE [A]_vars
  <2> USE <1>1 DEF IInv
  <2>1. ASSUME NEW peaks \in Peaks, NEW podCount \in PodCounts, Resize(peaks, podCount),
               NEW r \in DOMAIN requests, requests'[r] # requests[r], requests[r] > 0
        PROVE  Distance(requests[r], requests'[r]) * 100 >= requests[r] * percent(r)
    <3> DEFINE c == ComputeTargets(peaks, podCount, requests, spec.resources)
               t == PlannedTargets(peaks, podCount, requests, spec)
    <3>1. /\ DOMAIN requests' = DOMAIN requests \cup DOMAIN t
          /\ \A q \in DOMAIN requests' :
               requests'[q] = IF q \in DOMAIN t THEN t[q] ELSE requests[q]
          /\ DOMAIN t \subseteq DOMAIN spec.resources
      BY <2>1, ResizeEffect
    <3>2. t = [q \in DOMAIN c |-> IF q \in Exceeding(requests, c, spec) THEN c[q]
                                  ELSE At(requests, q, 0)]
      BY DEF PlannedTargets, ApplyMinChangeThreshold
    <3> HIDE DEF t, c
    <3>3. r \in DOMAIN t /\ requests'[r] = t[r] BY <2>1, <3>1
    <3>4. r \in Exceeding(requests, c, spec) /\ requests'[r] = c[r]
      BY <2>1, <3>2, <3>3 DEF At
    <3>5. ExceedsMinChangeThreshold(requests[r], c[r], percent(r))
      BY <2>1, <3>4 DEF Exceeding, At
    <3>6. requests[r] \in Int /\ percent(r) \in Int
      <4>1. spec.minChangePercent \in Int \cup {None} /\ spec.resources[r] \in ResourceBounds
        BY <3>1, <3>3, SpecsAssumption DEF TypeInv
       <4> QED
         BY <4>1, DefaultPercentAssumption DEF TypeInv, EffectiveMinChangePercent, ResourceBounds
    <3> HIDE DEF percent
    <3>7. Distance(requests[r], c[r]) * 100 >= percent(r) * requests[r]
      BY <2>1, <3>5 DEF ExceedsMinChangeThreshold
    <3>8. percent(r) * requests[r] = requests[r] * percent(r)
      <4>1. \A a, b \in Int : a * b = b * a OBVIOUS
      <4> QED BY <3>6, <4>1
    <3> QED BY <3>4, <3>7, <3>8
  <2>2. ASSUME NEW peaks \in Peaks, NEW podCount \in PodCounts, Resize(peaks, podCount) PROVE A
    BY <2>1, <2>2
  <2>3. CASE EditSpec BY <2>3 DEF EditSpec
  <2>4. CASE UNCHANGED vars BY <2>4
  <2> QED BY <2>2, <2>3, <2>4 DEF Next
<1> QED BY <1>1, InitIInv, NextIInv, PTL DEF Spec, MovesAreWorthwhile

\* What keeps the class Guaranteed keeps requests and limits equal, and limits
\* only move up (buildResizePod, internal/resize/actuator.go).
THEOREM GuaranteedRatchet == Spec => GuaranteedOnlyGrows
<1> DEFINE A == QoSClass(requests, limits) = "Guaranteed" =>
                  \A r \in DOMAIN requests : requests'[r] >= requests[r]
<1>1. ASSUME IInv, [Next]_vars PROVE [A]_vars
  <2> USE <1>1 DEF IInv
  <2>1. ASSUME NEW peaks \in Peaks, NEW podCount \in PodCounts, Resize(peaks, podCount),
               QoSClass(requests, limits) = "Guaranteed", NEW r \in DOMAIN requests
        PROVE  requests'[r] >= requests[r]
    <3> DEFINE t == PlannedTargets(peaks, podCount, requests, spec)
    <3>1. /\ \A q \in DOMAIN t : t[q] \in Int
          /\ DOMAIN requests' = DOMAIN requests \cup DOMAIN t
          /\ DOMAIN limits' = DOMAIN limits
          /\ \A q \in DOMAIN limits :
               limits'[q] = IF q \in DOMAIN t /\ limits[q] < t[q] THEN t[q] ELSE limits[q]
      BY <2>1, ResizeEffect
    <3> HIDE DEF t
    <3>2. QoSClass(requests', limits') = QoSClass(requests, limits)
      BY <2>1 DEF Resize, Accepts
    <3>3. /\ Positive(limits) = ResourceMetrics
          /\ \A q \in ResourceMetrics : At(requests, q, 0) = limits[q]
      BY <2>1 DEF QoSClass
    <3>4. \A q \in ResourceMetrics : At(requests', q, 0) = limits'[q]
      BY <2>1, <3>2 DEF QoSClass
    <3>5. r \in ResourceMetrics /\ r \in DOMAIN limits /\ limits[r] \in Nat
      BY <3>3 DEF TypeInv, Positive
    <3>6. requests[r] = limits[r] /\ requests'[r] = limits'[r]
      BY <3>1, <3>3, <3>4, <3>5 DEF At
    <3> QED BY <3>1, <3>5, <3>6
  <2>2. ASSUME NEW peaks \in Peaks, NEW podCount \in PodCounts, Resize(peaks, podCount) PROVE A
    BY <2>1, <2>2
  <2>3. CASE EditSpec BY <2>3 DEF EditSpec, TypeInv
  <2>4. CASE UNCHANGED vars BY <2>4
  <2> QED BY <2>2, <2>3, <2>4 DEF Next
<1> QED BY <1>1, InitIInv, NextIInv, PTL DEF Spec, GuaranteedOnlyGrows

\* A container that was just resized is not worth another resize to the same
\* peaks: what rounding and clamping made of a peak, or of the request that
\* stands in for it, they make of it again (resizePod, internal/resize/actuator.go).
THEOREM ResizeSettles == Spec => OneResizeSettles
<1> DEFINE A == \A peaks \in Peaks, podCount \in PodCounts :
                  Resize(peaks, podCount) => ~WorthResizing(peaks, podCount, requests', spec')
<1>1. ASSUME IInv, NEW peaks \in Peaks, NEW podCount \in PodCounts, Resize(peaks, podCount)
      PROVE  ~WorthResizing(peaks, podCount, requests', spec')
  <2> DEFINE n == IF podCount = 0 THEN 1 ELSE podCount
             planned(k) == PlannedTargets(peaks, k, requests, spec)
  <2>1. /\ requests' = NewRequests(requests, planned(podCount)) /\ spec' = spec
        /\ ValidateResize(spec)
    BY <1>1 DEF Resize
  <2>2. podCount \in Nat /\ n \in Nat \ {0} BY PodCountsAssumption
  <2>3. /\ planned(podCount) = planned(n)
        /\ \A req : WorthResizing(peaks, podCount, req, spec)
                      <=> WorthResizing(peaks, n, req, spec)
    <3>1. CASE podCount = 0 BY <3>1, NoPodsIsOne DEF PlannedTargets, WorthResizing
    <3>2. CASE podCount # 0 BY <3>2
    <3> QED BY <3>1, <3>2
  <2>4. ValidSpec(spec) /\ AllNat(peaks) /\ AllInt(requests)
    BY <1>1, <2>1, SpecsAssumption, PeaksAssumption
    DEF IInv, TypeInv, ValidSpec, AllNat, AllInt
  <2> HIDE DEF n
  <2>5. ~WorthResizing(peaks, n, NewRequests(requests, planned(n)), spec)
    BY <2>2, <2>4, PlanSettles
  <2> QED BY <2>1, <2>3, <2>5
<1>2. ASSUME IInv, [Next]_vars PROVE [A]_vars BY <1>1, <1>2
<1> QED BY <1>2, InitIInv, NextIInv, PTL DEF Spec, OneResizeSettles
==============================================================================
