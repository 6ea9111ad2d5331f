--------------------------- MODULE ContainerResize ---------------------------
(***************************************************************************)
(* The life of the resources of one container under resizePod and          *)
(* buildResizePod (internal/resize/actuator.go): one reconcile after       *)
(* another computes targets from its peaks and its number of pods and      *)
(* submits the container, while the user edits spec.resize.  What happens  *)
(* between the copy a reconcile read and the API is module PodActuator.    *)
(***************************************************************************)
EXTENDS ResizeTargets

CONSTANTS Specs,       \* the spec.resize values a user may write, valid or not
          Containers,  \* the [requests, limits] a container may be created with
          Peaks,       \* the maps from resource to effective peak
          PodCounts    \* the numbers of eligible pods

\* The schema of the API types: what a spec, a container and a peak can be.
ASSUME SpecsAssumption ==
  \A s \in Specs :
    /\ s.containerName \in STRING \cup {None}
    /\ s.minChangePercent \in Int \cup {None}
    /\ \A r \in DOMAIN s.resources : s.resources[r] \in ResourceBounds
\* The API server makes a limit the request of a container that states none, and
\* admits no container that requests more than its limit.
ASSUME ContainersAssumption ==
  \A c \in Containers :
    /\ DOMAIN c.limits \subseteq DOMAIN c.requests /\ DOMAIN c.requests \subseteq ResourceMetrics
    /\ \A r \in DOMAIN c.requests : c.requests[r] \in Nat
    /\ \A r \in DOMAIN c.limits : c.limits[r] \in Nat
    /\ \A r \in DOMAIN c.limits : c.requests[r] <= c.limits[r]
ASSUME PeaksAssumption == \A p \in Peaks : \A r \in DOMAIN p : p[r] \in Nat
ASSUME PodCountsAssumption == PodCounts \subseteq Nat

VARIABLES requests, limits, spec
vars == <<requests, limits, spec>>

Init ==
  /\ spec \in Specs
  /\ \E c \in Containers : requests = c.requests /\ limits = c.limits

-------------------------------------------------------------------------------
(* The API server (external): a resize may not change the QoS class of the *)
(* pod and no quantity is negative.  The pod has this one container.       *)

Positive(f) == {r \in DOMAIN f : f[r] > 0}

QoSClass(req, lim) ==
  IF Positive(req) \cup Positive(lim) = {} THEN "BestEffort"
  ELSE IF /\ Positive(lim) = ResourceMetrics
          /\ \A r \in ResourceMetrics : At(req, r, 0) = lim[r]
    THEN "Guaranteed"
    ELSE "Burstable"

Accepts(req, lim) ==
  /\ \A r \in DOMAIN req : req[r] >= 0
  /\ QoSClass(req, lim) = QoSClass(requests, limits)

-------------------------------------------------------------------------------

\* Apply validates the spec, resizePod plans, buildResizePod builds; a resize
\* the API refuses is logged and changes nothing.
Resize(peaks, podCount) ==
  LET targets == PlannedTargets(peaks, podCount, requests, spec)
      req     == NewRequests(requests, targets)
      lim     == NewLimits(limits, targets)
  IN  /\ ValidateResize(spec)
      /\ WorthResizing(peaks, podCount, requests, spec)
      /\ Accepts(req, lim)
      /\ requests' = req
      /\ limits' = lim
      /\ UNCHANGED spec

EditSpec ==
  /\ spec' \in Specs \ {spec}
  /\ UNCHANGED <<requests, limits>>

Next ==
  \/ \E peaks \in Peaks, podCount \in PodCounts : Resize(peaks, podCount)
  \/ EditSpec

Spec == Init /\ [][Next]_vars

-------------------------------------------------------------------------------
(* Properties *)

\* A limit always has a request below it: buildResizePod writes into the list of
\* requests that it finds.
TypeOK ==
  /\ spec \in Specs
  /\ DOMAIN limits \subseteq DOMAIN requests /\ DOMAIN requests \subseteq ResourceMetrics
  /\ \A r \in DOMAIN requests : requests[r] \in Nat
  /\ \A r \in DOMAIN limits : limits[r] \in Nat

\* buildResizePod never submits a request above its limit, which the API
\* would refuse for good; limits are written after the requests they bound.
RequestsWithinLimits ==
  \A r \in DOMAIN limits : requests[r] <= limits[r]

\* "Limits are raised only when they would fall below the new request": a
\* limit that moves moves up, to exactly the new request, and none is added.
LimitsRiseToRequests ==
  [][/\ DOMAIN limits' = DOMAIN limits
     /\ \A r \in DOMAIN limits :
          limits'[r] # limits[r] => limits'[r] > limits[r] /\ limits'[r] = requests'[r]]_vars

\* A request that a resize moves is inside the bounds of a valid spec, also
\* when the rounding of memory or an integer conversion left them before.
MovedRequestsInBounds ==
  [][\A r \in DOMAIN requests :
       requests'[r] # requests[r] =>
         /\ r \in DOMAIN spec.resources /\ ValidateResize(spec)
         /\ spec.resources[r].min # None => requests'[r] >= spec.resources[r].min
         /\ spec.resources[r].max # None => requests'[r] <= spec.resources[r].max]_vars

\* A request moves by the effective minChangePercent of its own resource or
\* not at all, also when the other resource alone makes the resize worth it.
MovesAreWorthwhile ==
  [][\A r \in DOMAIN requests :
       requests'[r] # requests[r] /\ requests[r] > 0 =>
         Distance(requests[r], requests'[r]) * 100 >=
           requests[r] * EffectiveMinChangePercent(spec.minChangePercent,
                                                   spec.resources[r].minChangePercent)]_vars

\* One resize settles a container: as long as the peaks and the number of pods
\* stay, no later reconcile moves it again (no resize loop by rounding, by
\* clamping or by resources that were kept below the threshold).
OneResizeSettles ==
  [][\A peaks \in Peaks, podCount \in PodCounts :
       Resize(peaks, podCount) => ~WorthResizing(peaks, podCount, requests', spec')]_vars

\* With a larger peak, the target is not smaller (between peaks whose
\* conversion stays in int64): neither the step from Ki to Mi to Gi nor the
\* second clamp of memory turns the order round.
LargerPeakLargerTarget ==
  \A low, high \in Peaks, podCount \in PodCounts :
    ValidateResize(spec) /\ podCount > 0 =>
      LET t(p) == ComputeTargets(p, podCount, requests, spec.resources) IN
        \A r \in DOMAIN low \cap DOMAIN high \cap DOMAIN spec.resources :
          /\ 0 < low[r] /\ low[r] <= high[r]
          /\ CeilDiv(6 * high[r], 5 * podCount) <= MaxInt64
          => t(low)[r] <= t(high)[r]

\* A container in a pod of class Guaranteed only ever grows: its limits never
\* come down, so the API refuses every smaller request (a ratchet that
\* follows the largest peak ever seen).
GuaranteedOnlyGrows ==
  [][QoSClass(requests, limits) = "Guaranteed" =>
       \A r \in DOMAIN requests : requests'[r] >= requests[r]]_vars

\* target.go:37, "Current requests are retained when no forecast peak exists
\* for a resource": a request inside its bounds, with no peak for it, stays.
RetainedWithoutPeak ==
  [][\A peaks \in Peaks, podCount \in PodCounts :
       Resize(peaks, podCount) =>
         \A r \in DOMAIN requests \cap DOMAIN spec.resources :
           /\ At(peaks, r, 0) = 0
           /\ ClampQuantity(requests[r], spec.resources[r]) = requests[r]
           => requests'[r] = requests[r]]_vars
==============================================================================
