---------------------------- MODULE ResizeTargets ----------------------------
(***************************************************************************)
(* The arithmetic of package internal/resize: from a forecast peak to the  *)
(* requests of one container, and from those to the container submitted    *)
(* to the API (target.go, threshold.go, peak.go, buildResizePod of         *)
(* actuator.go, and the validation and clamping of api/v1alpha1).          *)
(*                                                                         *)
(* CPU is in millicores and memory in bytes, both integers.  The lists of  *)
(* requests, limits, targets and bounds are partial functions on resource  *)
(* names; an optional field of a record is None when unset.                *)
(***************************************************************************)
EXTENDS Metrics, UsagePeaks

CONSTANTS Kilo,               \* 1024: Ki, and the steps to Mi and to Gi
          MaxInt64,           \* 2^63 - 1
          OutOfRangeInt64,    \* what int64(f) is for a float64 f past MaxInt64
          DefaultMinChangePercent  \* 10

ASSUME NoneAssumption == None \notin Int
ASSUME KiloAssumption == Kilo \in Nat /\ Kilo > 1
ASSUME MaxInt64Assumption ==
  MaxInt64 \in Nat /\ (MaxInt64 + 1) % (Kilo * Kilo * Kilo) = 0

\* The Go specification leaves the conversion to the implementation: amd64
\* yields the smallest int64, arm64 the largest; images are built for both.
ASSUME OutOfRangeAssumption == OutOfRangeInt64 \in {-MaxInt64 - 1, MaxInt64}

ASSUME DefaultPercentAssumption == DefaultMinChangePercent \in 0 .. 100

CeilDiv(x, y) == (x + y - 1) \div y

\* Lookup in a partial function, with a value for the keys it does not have.
At(f, x, default) == IF x \in DOMAIN f THEN f[x] ELSE default

-------------------------------------------------------------------------------
(* Bounds *)

\* parses tells whether min and max are quantities; a negative one is, too.
ResourceBounds ==
  [min : Int \cup {None}, max : Int \cup {None}, parses : BOOLEAN,
   minChangePercent : Int \cup {None}]

ValidPercent(p) == p = None \/ p \in 0 .. 100

ValidBounds(b) ==
  /\ b.parses
  /\ b.min # None /\ b.max # None => b.min <= b.max
  /\ ValidPercent(b.minChangePercent)

\* A ResizeSpec; its containerName is None when unset and Blank when it has no
\* character but spaces.
Blank == ""
ValidateResize(spec) ==
  /\ spec.containerName # Blank
  /\ ValidPercent(spec.minChangePercent)
  /\ DOMAIN spec.resources # {}
  /\ \A r \in DOMAIN spec.resources :
       r \in ResourceMetrics /\ ValidBounds(spec.resources[r])

EffectiveMinChangePercent(global, perResource) ==
  IF perResource # None THEN perResource
  ELSE IF global # None THEN global ELSE DefaultMinChangePercent

ClampQuantity(q, b) ==
  LET raised == IF b.min # None /\ q < b.min THEN b.min ELSE q
  IN  IF b.max # None /\ raised > b.max THEN b.max ELSE raised

-------------------------------------------------------------------------------
(* Targets *)

ToInt64(x) == IF x <= MaxInt64 THEN x ELSE OutOfRangeInt64

\* Memory is rounded up to whole Ki, Mi or Gi, by the size it has.  When the
\* sum or the result leaves int64 the quantity is kept as it is.
Unit(bytes) ==
  IF bytes >= Kilo * Kilo * Kilo THEN Kilo * Kilo * Kilo
  ELSE IF bytes >= Kilo * Kilo THEN Kilo * Kilo
  ELSE IF bytes >= Kilo THEN Kilo
  ELSE 1

\* Faults: a whole number of units is rounded up all the same; the sum wraps
\* around in int64 and the result is not compared with the quantity.
NormalizeMemoryPastWhole(bytes) ==
  IF bytes <= 0 THEN bytes ELSE (bytes \div Unit(bytes) + 1) * Unit(bytes)
NormalizeMemoryUnguarded(bytes) ==
  LET sum == bytes + Unit(bytes) - 1
  IN  IF bytes <= 0 THEN bytes
      ELSE ((IF sum > MaxInt64 THEN sum - 2 * (MaxInt64 + 1) ELSE sum) \div Unit(bytes))
             * Unit(bytes)

NormalizeMemoryQuantity(bytes) ==
  IF bytes <= 0 \/ bytes + Unit(bytes) - 1 > MaxInt64
    THEN bytes
    ELSE CeilDiv(bytes, Unit(bytes)) * Unit(bytes)

\* peak * 1.2 / podCount, rounded up.  A peak of zero is no forecast: then
\* the current request is the starting point, zero when it is unset.
DesiredQuantity(r, peaks, podCount, requests) ==
  IF At(peaks, r, 0) > 0
    THEN ToInt64(CeilDiv(6 * peaks[r], 5 * podCount))
    ELSE At(requests, r, 0)

\* Fault: memory is not clamped again after it was rounded.
ComputeTargetsClampedOnce(peaks, podCount, requests, resources) ==
  [r \in DOMAIN resources \cap ResourceMetrics |->
     LET n       == IF podCount <= 0 THEN 1 ELSE podCount
         clamped == ClampQuantity(DesiredQuantity(r, peaks, n, requests), resources[r])
     IN  IF r = "memory" THEN NormalizeMemoryQuantity(clamped) ELSE clamped]

ComputeTargets(peaks, podCount, requests, resources) ==
  [r \in DOMAIN resources \cap ResourceMetrics |->
     LET b       == resources[r]
         n       == IF podCount <= 0 THEN 1 ELSE podCount
         clamped == ClampQuantity(DesiredQuantity(r, peaks, n, requests), b)
     IN  IF r = "memory" THEN ClampQuantity(NormalizeMemoryQuantity(clamped), b)
                         ELSE clamped]

-------------------------------------------------------------------------------
(* Which targets are worth a resize *)

Distance(x, y) == IF x < y THEN y - x ELSE x - y

ExceedsMinChangeThreshold(old, new, percent) ==
  IF old = 0 THEN new > 0
             ELSE old # new /\ Distance(old, new) * 100 >= percent * old

Exceeding(requests, targets, spec) ==
  {r \in DOMAIN targets :
     ExceedsMinChangeThreshold(At(requests, r, 0), targets[r],
       EffectiveMinChangePercent(spec.minChangePercent,
                                 spec.resources[r].minChangePercent))}

\* Fault: once one resource exceeds its threshold, all targets are applied.
AllTargetsOnceExceeding(requests, targets, spec) == targets

\* A target below the threshold is replaced by the current request, which
\* is an explicit zero for a container that requests none.
ApplyMinChangeThreshold(requests, targets, spec) ==
  [r \in DOMAIN targets |->
     IF r \in Exceeding(requests, targets, spec) THEN targets[r] ELSE At(requests, r, 0)]

TargetsChanged(requests, targets) ==
  \E r \in DOMAIN targets : At(requests, r, None) # targets[r]

\* The body of resizePod for one container: its targets after thresholding.
PlannedTargets(peaks, podCount, requests, spec) ==
  ApplyMinChangeThreshold(
    requests, ComputeTargets(peaks, podCount, requests, spec.resources), spec)

\* Whether resizePod has a plan for the container.
WorthResizing(peaks, podCount, requests, spec) ==
  /\ Exceeding(requests, ComputeTargets(peaks, podCount, requests, spec.resources), spec) # {}
  /\ TargetsChanged(requests, PlannedTargets(peaks, podCount, requests, spec))

-------------------------------------------------------------------------------
(* The container submitted to the resize subresource *)

\* Fault: the container is given a new list of requests.
NewRequestsOnlyTargets(requests, targets) == targets

\* Every target becomes a request.
NewRequests(requests, targets) ==
  [r \in DOMAIN requests \cup DOMAIN targets |->
     IF r \in DOMAIN targets THEN targets[r] ELSE requests[r]]

NewLimitsKept(limits, targets) == limits  \* Fault: limits are left behind.
NewLimitsFollow(limits, targets) ==       \* Fault: limits follow the requests.
  [r \in DOMAIN limits |-> At(targets, r, limits[r])]

\* A limit below the new request is raised to it; no limit is lowered or added.
NewLimits(limits, targets) ==
  [r \in DOMAIN limits |->
     IF r \in DOMAIN targets /\ limits[r] < targets[r] THEN targets[r] ELSE limits[r]]
==============================================================================
