# neural-autoscaler in TLA+

The neural-autoscaler is a Kubernetes operator. For each `NeuralAutoscaler` object it
fetches the usage of a workload every 20 seconds, keeps it in memory, forecasts it with an
ONNX model, and resizes the requests of the workload's pods in place. This directory
models the operator, model-checks it on small instances and proves what matters most for
instances of every size. Paths in this file are relative to `src/`.

1. [The system](#1-the-system): components, state, interactions, what is hard
2. [The modules](#2-the-modules): which module stands for which code
3. [The runs](#3-the-runs): what is checked, within which bounds, under which fairness
4. [The proofs](#4-the-proofs)
5. [Where code and documentation disagree](#5-where-code-and-documentation-disagree)
6. [What is not modelled](#6-what-is-not-modelled)
7. [Plan](#7-plan)

Commands, in this directory: `tlc -config MCHistory.cfg MCHistory`, `tlapm HistoryProofs.tla`.
`PROJECT.json` lists the runs, the lines of code behind each definition, a fault for each
property that makes it fail, the hazards and the theorems.

## 1. The system

| component | state | operations | talks to |
|---|---|---|---|
| Controller, `internal/controller` | none of its own; a copy of the object during a reconcile | `Reconcile`, status patch at its end | API server through the informer cache, workqueue, all below |
| Metric sources, `internal/metrics` `factory.go`, `metrics_server.go`, `prometheus.go`, `workload_pods.go`; `api/v1alpha1/metrics_source_validation.go` | none | validate, `NewFetcher`, `Fetch`, `ResolvePodNames` | metrics-server, Prometheus, the cache for targets, pods and secrets |
| History store, `internal/metrics/history.go` | a map from `namespace/name/resource` to a ring of samples, under a mutex, in memory only | `AppendLatest`, `Get`, `Delete`, `DeleteByPrefix` | called by the controller |
| Forecasters, `internal/forecast` | an ONNX session, fixed at start | configuration and discovery, `Forecast`, `Ready`, `Close` | called by the controller and by `cmd/main.go` |
| Resize arithmetic, `internal/resize` `target.go`, `threshold.go`, `peak.go`; `api/v1alpha1/resize_validation.go`, `policy_clamp.go`, `min_change_percent.go` | none | `ComputeTargets`, `ApplyMinChangeThreshold`, peaks, validation, clamping | called by the actuator |
| Pod actuator, `internal/resize/actuator.go` | copies of pods during an `Apply` | `Apply`, `listEligiblePods`, `resizePod`, `buildResizePod` | the cache (reads), the API server's `resize` subresource (writes) |
| Process, `cmd` | the above | start, flags, probes | |
| Formatting, logging, API registration, charts, manifests | none | | |

A reconcile runs through: get the object (from the cache); if it is being deleted, evict its
history; fetch; for each resource append the newest sample to the history and forecast from
the history (metrics-server) or from the fetched range (Prometheus); if a forecast came
out, take the larger of its peak and the peak of the last nine samples, divide by
the eligible pods, add headroom, clamp, round, drop changes below the threshold, and update
each pod; patch the status; come back after 20 s, or after a backoff if the fetch failed.

What is hard, and the properties that say it is right:

* **Copies.** Objects and pods are read from an informer cache that lags. Decisions are
  made on copies and written later, pod after pod, while the kubelet, users and other
  controllers move (`ResizesOnlySteadyPods`, `NoLostUpdate`, and both in one:
  `ImplementsAtomicResizes`); the status is patched as a difference to a copy
  (`ReadyTellsTruth`).
* **One cause of progress.** The predicate on the watch drops all but new generations, so
  that an object only comes back because each reconcile puts it back (`NeverForgotten`).
* **Memory that outlives or does not outlive its object.** The history is keyed by name:
  deletions, recreations and restarts decide whose samples are forecast
  (`DeletionForgets`, `RecentPeakFloors`, and the finding `WarmsUpAfresh`).
* **A feedback loop.** What one reconcile requests is the current request of the next;
  rounding, two clamps and a threshold per resource must not move a container for ever
  (`OneResizeSettles`, `UpdatesSettle`, `ConstantLoadSettles`, `MovesAreWorthwhile`), and the pods that are
  being resized change the divisor for the others (`PodsCoverPeak`, finding
  `SharesByMatchingPods`).
* **Numbers that look like any other.** A series is cut or padded to the context of a model,
  scaled, and read back from a flat array whose layout differs between the two
  families: a slip gives a plausible forecast of another time, step or quantile
  (`ModelSeesNewest`, `ScaleIsPositive`, `QuantilesAreRead`, `DiscoveredModelsFit`, and the
  finding `PredictsEachStep`).
* **Boundaries.** Sums that leave int64, units that change with the size, bounds that no unit
  divides, a ring that wraps around after three hours
  (`MovedRequestsInBounds`, `LargerPeakLargerTarget`, `RingsWellFormed`).
* **Rules of the API server.** A request above its limit or a changed QoS class is refused,
  on every later pass too (`RequestsWithinLimits`, `GuaranteedOnlyGrows`).

## 2. The modules

```
Metrics ── UsagePeaks ──── ResizeTargets ── ContainerResize   (one container)
   │           │                 └───────── PodActuator       (pods, cache, kubelet)
   │           │                                │ implements
   │           │                            AtomicResizes     (pods)
   │           │
   └─ MetricSources ────── Reconciler ── INSTANCE SampleLog   (objects, queue, worker)
                                              ↑ implemented by
                                           History            (rings behind string keys)

ForecastTensors ── Forecaster   (loading a model; a request, from samples to response)
```

**`Metrics`** has the two resources and `None`, the unset optional field.

**`UsagePeaks`** (`peak.go`, `ForecastPeaks`) has the peak of a forecast, of the recent
samples and of both. Loops that start from zero ignore what is negative.

**`ResizeTargets`** is the arithmetic, one operator per function of `target.go`,
`threshold.go`, `resize_validation.go`, `policy_clamp.go`, `min_change_percent.go`, and the
two halves of `buildResizePod`. CPU is in millicores, memory in bytes, a resource list is a
partial function, so that "no request" and "request of zero" stay different things, as
in `targetsChanged`. `* 1.2` is `* 6 / 5`. `ToInt64` and the guard in
`NormalizeMemoryQuantity` keep the width of int64: `MaxInt64` is a constant, and
`OutOfRangeInt64` is what the platform's conversion yields beyond it, the least integer on
amd64 and the largest on arm64.

**`ContainerResize`** is the life of one container's `requests` and `limits` under
`Resize`, which is `resizePod` with its validation, thresholds and build, and
`EditSpec`, in which a user writes another `spec.resize`, valid or not. The API server
accepts what keeps the pod's QoS class and has no negative quantity. A bound may be negative,
or not parse at all.

**`PodActuator`** is `Apply` over several pods. `api` has the pods, `cache` the copies that
`client.Get` returns; each read of `listEligiblePods` (`ListPod`), each update
(`ResizePod`, `ResizePodFails`) and each skip (`SkipPod`) is a step. Between any two of them
pods are deleted, removed, recreated under their name, resized by others, and moved on
by the kubelet, and the cache catches up or does not. The update carries the
version of the copy, and the API server takes it only at that version. Versions are reused
when nobody holds them, which leaves equality, all that is ever asked of them, intact.

**`AtomicResizes`** is what the actuator promises to the pods: no cache, no versions, no loops
and no failing calls. `Resize` takes a pod that is neither terminating nor being resized, and gives
it, in one step, the containers that `buildResizePod` makes of those it has; all else is up to
others. `PodActuator` implements it: the mapping (`Visible`) forgets the versions, and an
`Apply` that is under way, or an update that is refused, is no step at all.

**`MetricSources`** is validation and fetching as functions of a spec and of the state of the
cluster: which pods a target selects, what metrics-server and Prometheus answer, which
secrets there are. A PromQL query is what it selects, `BuildPrometheusQuery`: the sum, at each time,
over the matched pods that have a sample; `PodMatcher` falls back to names that look like the
target's when there are no pods. Errors are a value, `Error`. It also has the two functions by which
the controller reads the same spec once more, `ResourcesToProcess` and
`MetricsTargetNamespace`.

**`Reconciler`** is the controller. Objects have a UID, a generation, a spec, perhaps
a finalizer of somebody else, and a status. `CacheSync` delivers a change and queues the name
if the predicate lets it pass. `ScopeFails`, `StartReconcile`, `FetchFails` / `FetchSucceeds`,
`ProcessResource` / `SkipResource`, `ConcludeFetch`, `Apply`, and `PatchStatus` / `PatchFails`
are the parts of `Reconcile` between the calls at which others can move; `Finish` is
common to its endings. `Patched` is what the patch helper does: conditions and the other
fields are sent where they differ from the copy. `Restart` is a crash, an upgrade or a change of
leader. A sample is a value and the UID of the object whose reconcile recorded it. `recent`
is not in the code: it remembers what was fetched, for `RecentPeakFloors`. `Apply`
stops where `PodActuator` starts.

**`ForecastTensors`** (`preprocess.go`, `chronos2_preprocess.go`) is what goes into the
tensors and what is cut out of them. A flat slice is a function on `0 .. n - 1`. The numbers
of the model are not computed: a cell of an output is the quantile and the step that the export's
layout has there, so that a wrong offset reads a wrong cell; a cell of the Chronos-2 input is the
sample and its scale. Insertion sort and median are characterised by ranks.

**`Forecaster`** is `cmd/main.go` as far as it loads and closes a model (`Start`, `Stop`,
`Restart`, with `ConfigFromForecast`, discovery, `NewTimesFM`, `NewChronos2`) and one request at a time:
`Ask` is `runForecast`, `Refuse` the validation, `Prepare`, `Run` / `RunFails` and `Read` the
`Forecast` of either family, `Return` the way back to `Reconcile`. ONNX Runtime and the two
exports are external: a session runs if it is given exactly the inputs that its file declares.
Whether its quantiles have the shape that `Read` looks for is a field of the file (`regular`).
It meets `Reconciler` at `Forecasts`, the peaks of the responses.

**`SampleLog`** is what the history promises: per autoscaler and resource a log, cut to its
last samples; forgetting one autoscaler leaves the others alone. **`History`** is the code: rings
with a start and a count in a map from string keys, deletion by prefix. Strings are
sequences of tokens, so that one name can be the beginning of another. Each method holds
the mutex throughout and is one action. `HistoryStore.Append` and `Len` are only reached
through `AppendLatest` and in tests.

The operators marked *Fault* stand beside the definition they distort; each is a mistake that
could be made in that code, and with it in place the property named in
`PROJECT.json` fails.

## 3. The runs

| run | states | bounds |
|---|---|---|
| `history` | 961 | two names, `web` and `web-blue`, one resource, rings of 3, snapshots of up to 2 samples of 2 values |
| `container_resize` | 5,640 | 10 specs, 6 containers, 10 maps of peaks, 1 or 2 pods; Ki = 4 bytes, integers of ten bits |
| `pod_races` | 308,669 | one pod, two containers, 4 steps of others, failing calls |
| `pod_settles` | 205,657 | two pods, the second of their two containers, no steps of others, fairness |
| `reconciler` | 2,278,857 | one name, 3 specs, 3 clusters, 3 steps of users, 1 restart, buffers of 2 |
| `reconciler_status` | 203,416 | one name, a good and a bad target, a cluster that is up or down, fairness |
| `forecaster` | 17,280 | both families, 11 model files under 4 family flags, contexts and horizons of 3 and 4, 7 series, 4 horizons |

Why they are enough, and what they show:

* **`history`** A ring of 3 wraps, is full, and is dropped and refilled; the names
  are those that a careless prefix confuses. `RingsWellFormed` says that
  `Series` never reads a cell that no `Append` wrote. `ImplementsSampleLog` is a refinement: `Get`, as
  a mapping, turns every behaviour of the store into one of `SampleLog`.
* **`container_resize`** With units of 4, 16 and 64 bytes and 1023 as the largest
  integer, the peaks reach each unit, each rounding and each overflow; the containers
  are of all three QoS classes, with limits on none, one and both resources; the
  specs have bounds that no unit divides, thresholds from 0 to 100, an override, negative
  bounds, and five kinds of mistake. `OneResizeSettles` says that a second pass with the same peaks has
  nothing to do. `GuaranteedOnlyGrows` is a consequence of limits that only rise together
  with the API server's rule, and worth knowing: such a pod never comes down.
* **`pod_races`** One pod is enough, as the updates of two pods share nothing but
  their number. Four steps of others are enough for a deletion, a recreation and a foreign
  resize between a read and the update made from it. The
  code's check at `actuator.go:94` is on an old copy; it holds at the update because the
  kubelet's start and a deletion both change the version. `ImplementsAtomicResizes` is the
  refinement: whatever happened since the read, the pod only ever goes through states that
  atomic resizes bring it to. `UpdatesSettle` says of each update, with every container of the
  pod named by `*`, that the same share would not move any of them again.
* **`pod_settles`** Each pass divides the peak by the pods that are eligible in it, and its
  resizes change who is eligible in the next one; the first pass may already find the kubelet
  at work on a pod. `PodsCoverPeak`: what one pass leaves its pods with, resized or skipped, covers
  the peak together, or is within the headroom of the upper bound. It says nothing of a pod whose
  update failed, which keeps what it had until the next reconcile. It speaks of thresholds
  up to 20 %: the headroom of a fifth makes up for a change of so much that is not made, a wider
  threshold keeps requests that are too small.
  `ConstantLoadSettles`: if the divisor comes to be the number of matching pods for good
  (`<>[]SharesByMatchingPods`), the requests of both pods come to rest. Without that antecedent it
  does not hold: TLC then finds a lasso in which each pod is being resized whenever the
  other is sized, and the shares flap for ever. Fairness (`FairSpec`): the requeue after 20 s
  starts another `Apply`, the loops of its one worker run to
  their end, watches deliver, and the kubelet finishes a
  resize that it has begun. That it begins one is not assumed: it may be deferred for
  ever, as the code never looks at `PodResizePending`. Calls do not fail for ever, which is why
  `ServerFails` is off. The largest integer of the pod runs is 2^30 - 1.
* **`reconciler`** Three specs: metrics-server; a Prometheus range, whose coarse values
  miss a burst; and a query whose resource is inferred as another than the one listed, so
  that the loop skips it. Three clusters: a burst, calm without metrics, and a workload scaled to zero, beside another workload
  whose pods' names look alike. The three
  steps of users are enough for creation, deletion (with and without a finalizer) and
  recreation, or edits, while a reconcile is under way. `DeletionForgets` covers the
  in-flight reconcile: the queue hands out a name to one worker at a time, so the
  eviction waits for it. `RecentPeakFloors` compares the demand with the samples that were
  really fetched since the last restart; a burst before it is forgotten with the history.
* **`reconciler_status`** `ReadyTellsTruth` is liveness: if the source stays broken (or
  stays good), the condition comes to say so of the latest generation and stays. Fairness:
  the worker and each timer and watch go on, every queued name is taken
  (strong, because the single worker may be busy with others), and for no object
  making the scope or the patch fails for ever (strong, because either may fail many times).

* **`forecaster`** Series are shorter than, as long as and longer than the context; one is idle, one
  idle for more than half of it; horizons exceed a row, and both rows of a batch. The files have the
  names of the exports, other names, a misleading path, a missing output, quantiles of another shape,
  or do not open.
  `QuantilesAreRead` names, for each value of a response, the cell it came from; 99 percent is
  a level of one family only. `DiscoveredModelsFit` is about files with the inputs of one of the
  two exports (`Exports`); what a file with other inputs is taken for is a matter of its path.

`CHECK_DEADLOCK FALSE` is set for `PodActuator` alone: when its pods are gone and the bounded
steps of others are used up, nothing is left to do. Every run checks without
symmetry: pods and names are few, and liveness is checked.

## 4. The proofs

Each `...Proofs` module extends its module and proves, for all values of the constants that
satisfy its assumptions:

* **`HistoryProofs`** `TypeCorrect`, `RingsStayWellFormed`, `HistoryImplementsSampleLog` and
  `KeyPrefixes`, for every capacity, every set of samples and all names without a
  slash. The invariant is `TypeOK /\ RingsWellFormed`: for the refinement one
  needs that a ring that is not full starts at 0, or an `Append` would not go to the end of
  what `Get` returns. `KeyPrefixes` is the string lemma: as neither a namespace nor a
  name holds a slash, the prefix of one autoscaler starts exactly its own keys.
* **`ResizeTargetsProofs`** has the arithmetic that the next two rest on, as lemmas for all
  quantities, unit sizes and both integer conversions: clamping ends in the bounds when the spec is
  valid; division rounded up is the least multiple that is enough, so that rounding is monotone
  (also across the change of units) and never makes memory smaller; what was rounded and clamped
  once stays as it is when it is rounded and clamped again (`SettledIdempotent`), so that a plan
  that was carried out leaves none (`PlanSettles`); a request that a threshold of up to 20 % keeps is
  less than a sixth below its target (`KeptIsNear`), so that `n` pods that are planned for a
  share of a peak cover it (`PlanCoversPeak`).
* **`ContainerResizeProofs`** every property of the run: `TypeCorrect`, `RequestsStayWithinLimits`,
  `LimitsOnlyRise`, `RequestsMoveInBounds`, `TargetsFollowPeaks`, `MovesAreWorthTheirThreshold`,
  `GuaranteedRatchet`, `ResizeSettles`, for all specs, containers, peaks, unit sizes and both
  integer conversions. `MaxInt64Assumption` says that the largest integer is one less than a
  multiple of Gi, as 2^63 - 1 is. `ContainersAssumption` is what
  the API server guarantees of a pod: a limit without a request becomes the request, and no
  request exceeds its limit.
* **`ForecasterProofs`** `TypeCorrect`, `NewestReachModel`, `ScalesArePositive`,
  `QuantilesReadWell`, `DiscoveryFits`, for all files, flags, series, levels and lengths. The invariant is
  `OnItsWay`: what is in the input, and later in the output and in the response, is what the request
  and the loaded model make of it. The median needs no sorting: the value in a place is one
  with fewer than that many below it, and one exists since a set of numbers has a
  least element (well-foundedness takes the place of an induction). `DiscoveryFits` needs `Loaded`,
  that a loaded model is what `Start` made of a file: the family it was taken for follows from
  the names of its inputs before its path is looked at.
* **`PodActuatorProofs`** every safety property of the two passing runs: `TypeCorrect`,
  `OnlySteadyPodsAreResized`, `NoUpdateIsLost`, `ResizesAreAtomic`, `UpdatesLeaveNothing`,
  `PeakIsCovered`, for any pods, containers, resize spec, peaks and number of steps of others. The
  invariant is that a copy with
  the version of the pod *is* the pod (`CopiesAreVersions`), also when the pod was
  deleted and recreated since, and that all kept copies were eligible (`EligibleCopies`). The
  properties themselves are about a step and say nothing about the copies; these two do. For
  what is requested, `SizesInv` adds that all copies have sizes and that the divisor is the number
  of the kept copies, which is why it is not zero and why the shares add up. For the refinement
  these invariants give: `ResizePod` finds the pod as the copy has it, so that the step is a
  `Resize` of `AtomicResizes`; each step of others is its namesake; all other steps leave the
  pods alone. `TemplatesAssumption`, `PeaksAssumption` and `ResizeSpecAssumption` are
  the schemas of the API types, but for an upper bound below zero, which the schema admits and no
  request can meet: with it the API server refuses every update. That peaks are natural numbers
  is the theorem `DemandIsNatural` of `DemandProofs`.
* **`ReconcilerProofs`** `NothingIsForgotten`, `DeletionsForget`, for any objects, sources
  and number of restarts. The invariant adds `GenerationsTell`: two copies of an
  object with one generation agree on whether it is being deleted. Without it, the
  predicate could drop the news of a deletion.
* **`DemandProofs`** `TypeCorrect`, `BurstsAreFloors` (`RecentPeakFloors`) and `DemandIsNatural` of
  `Reconciler`, for every window, capacity, source and number of steps; the last is what
  `PodActuator` assumes of its peaks, also when a forecast is negative. The invariant `DemandInv` has what the property
  leaves out: the buffer of each autoscaler and resource ends in what was fetched last
  (`HistoryOK`, which needs a window no longer than the buffer), also across evictions and
  restarts; a demand is only there while the reconcile that made it goes on; and forecasts are of
  resources that were fetched. That a floor bounds the samples is a lemma about `Max` of
  an image, by a least counterexample in place of an induction. `ClustersAssumption`, that a fetch yields
  numbers, stands for the folds that add them up.

Only model-checked: the liveness properties (`ReadyTellsTruth`, `ConstantLoadSettles`), which
are beyond this prover. Each safety and action property of the passing runs, and both refinements,
are theorems. No module declares a recursive operator; `MetricSources` folds, and what a fold
computes for every input cannot be proved without induction over data.

## 5. Where code and documentation disagree

Five runs expect a violation, each of what a comment or the documentation says:

* `retained_without_peak`: "current requests are retained when no forecast peak exists"
  (`target.go:37`), but such a memory request is rounded up like a target.
* `shares_by_matching_pods`: "divided by matching pod count"
  (`neuralautoscaler_controller.go:75`), but it is the count of pods that are eligible now.
* `warms_up_afresh`: the eviction of history is not reached when an object without finalizer is
  deleted (`neuralautoscaler_controller.go:82`), and its successor forecasts from its samples.
* `resizes_where_it_measures`: a `metricsServer` block that is not in use names the namespace
  of the resize (`neuralautoscaler_controller.go:330`).
* `predicts_each_step`: "Step is the interval between forecasted points"
  (`neuralautoscaler_types.go:200`), but no forecaster reads the step: the points are as far apart as
  the samples (`neuralautoscaler_controller.go:246`).

Read in the code and modelled, without a run:

* `status.lastMetricsCount` is documented as the length of the buffer
  (`neuralautoscaler_types.go:240`); for Prometheus it is that of the fetched series.
* "When the buffer holds at least MinForecastSamples points"
  (`neuralautoscaler_controller.go:72`): for Prometheus the fetched series counts, so an
  instant query, which has one value, never gets a forecast however full the buffer is.
* "Query is an optional PromQL expression override" (`neuralautoscaler_types.go:122`): with a
  targetRef it is never asked (`prometheus.go:52`).
* The Prometheus token's secret is documented to be in the object's namespace
  (`neuralautoscaler_types.go:142`); it is read from the namespace of the source
  (`prometheus.go:263`).

## 6. What is not modelled

* **What a model computes.** `Reconciler` takes as a forecast any peak of a constant set, or an error;
  `Forecaster` knows of each number which step and quantile it was predicted for. asinh, sinh and float32
  are not modelled. Options that the operator never sets (batch size, output patches, names of
  outputs) have their defaults. `Stop` waits for the worker: when workers do not
  end in time, `mgr.Start` returns an error and `os.Exit` skips the `Close`.
* **Floating point.** Quantities and series are integers. The threshold's comparison is
  exact, while the code compares float64 quotients.
* **Transport.** HTTP, TLS, tokens and the wording of PromQL queries; a request fails or answers.
* **Timestamps**, of samples and in the status: nothing in the code compares them.
* **The branch for a nil `MetricsFactory`** (`neuralautoscaler_controller.go:102`), which
  `cmd/main.go` never builds, and its nil checks for the clients.
* **Phases of pods, pending resizes.** The code looks at neither; a pending resize is a state of the
  model that no guard reads.
* **Leader election**: two processes at once are taken to be excluded by it. A change of leader is a `Restart`.
* **Logging, formatting, flags, probes, charts, manifests, generated code.**

## 7. Plan

Done, in the order of importance: the actuator's races, the reconcile loop, the
arithmetic, the history, the forecasters, and the theorems of section 4.

What would come next:

1. A composition of `Reconciler` and `PodActuator`: the fetch and the pods it resolved on one
   side, the reads of the actuator on the other, for a workload that rolls out meanwhile. Their
   product is beyond TLC at the bounds at which each is interesting.
2. Samples of one object under two target references, once a document says what should become of them.
3. Two pods with fairness and steps of others.
