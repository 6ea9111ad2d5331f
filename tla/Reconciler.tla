------------------------------ MODULE Reconciler ------------------------------
(***************************************************************************)
(* NeuralAutoscalerReconciler (internal/controller): the life of           *)
(* NeuralAutoscaler objects, the informer cache and the workqueue in front *)
(* of Reconcile, its steps from the fetch to the status patch, and the     *)
(* in-memory history that only lives as long as the process.               *)
(*                                                                         *)
(* All objects are in one namespace.  A single worker runs Reconcile       *)
(* (MaxConcurrentReconciles is 1), but users, the cluster and the cache    *)
(* move between any two of its steps.  The history is a SampleLog, which   *)
(* module History implements; the pods are resized as in PodActuator.      *)
(***************************************************************************)
EXTENDS MetricSources, UsagePeaks

CONSTANTS Autoscalers,         \* names of NeuralAutoscaler objects
          Namespace,           \* their namespace
          Specs,               \* [metrics, forecast, resize]: is there a forecast, a valid resize?
          Clusters,            \* what a fetch may find, see MetricSources
          Forecasts,           \* the peaks of the model's responses
          Capacity,            \* samples kept per autoscaler and resource, 512
          MinForecastSamples,  \* 16
          ForecasterLoaded,    \* a model was loaded at startup
          MaxEvents,           \* bounds what users do to the objects
          MaxRestarts          \* bounds the restarts of the process

ASSUME HistoryAssumption ==
  /\ Capacity \in Nat \ {0}
  /\ DefaultRecentPeakWindow <= Capacity /\ MinForecastSamples \in 1 .. Capacity

ASSUME AutoscalersAssumption == None \notin Autoscalers

ASSUME BoundsAssumption == MaxEvents \in Nat /\ MaxRestarts \in Nat
ASSUME ForecastsAssumption == Forecasts \subseteq Int
\* inferResourceFromQuery knows no other resources.
ASSUME SpecsAssumption ==
  \A spec \in Specs : spec.metrics.prometheus # None =>
    spec.metrics.prometheus.query \in ResourceMetrics \cup {None}
\* What the sources measure are numbers, and sums of them are.
ASSUME ClustersAssumption ==
  \A spec \in Specs, c \in Clusters :
    LET answer == Fetch(spec.metrics, Namespace, c) IN
      answer # Error => \A r \in DOMAIN answer.byResource : answer.byResource[r] \in Seq(Int)

VARIABLES
  api,        \* the objects of the API server; None when there is none of a name
  events,     \* what users have done so far, also the source of UIDs
  cache,      \* the informer's copies
  cluster,    \* what the sources of metrics would answer now
  queue,      \* the workqueue: the names that are ready
  waiting,    \* the names added after an interval or a backoff
  restarts,
  history,    \* the HistoryStore
  recent,     \* not in the code: what was fetched since history was last empty
  active,     \* the name being reconciled, or None
  object,     \* the copy that Reconcile got
  status,     \* its status as Reconcile changes it
  phase,      \* "idle", "fetching", "processing", "resizing" or "patching"
  result,     \* fetchResult, or Error
  todo,       \* the resources the loop has not come to yet
  series,     \* historyByResource
  forecasts,  \* the peaks of the successful forecasts, by resource
  demand      \* forecastPeaks of Apply, by resource

work == <<active, object, status, phase, result, todo, series, forecasts, demand>>
vars == <<api, events, cache, cluster, queue, waiting, restarts, history, recent, work>>

\* A sample and the UID of the object whose reconcile recorded it.
Log == INSTANCE SampleLog WITH log <- history, Resources <- ResourceMetrics,
                               Samples <- [value : Int, of : 1 .. MaxEvents]

NoStatus == [ready |-> None, observed |-> 0, samples |-> 0]

Idle ==
  /\ active = None /\ object = None /\ status = NoStatus /\ phase = "idle"
  /\ result = None /\ todo = << >> /\ series = << >> /\ forecasts = << >>
  /\ demand = << >>

ResetWork ==
  /\ active' = None /\ object' = None /\ status' = NoStatus /\ phase' = "idle"
  /\ result' = None /\ todo' = << >> /\ series' = << >> /\ forecasts' = << >>
  /\ demand' = << >>

NothingRecent == [n \in Autoscalers |-> [r \in ResourceMetrics |-> << >>]]

Init ==
  /\ api = [n \in Autoscalers |-> None] /\ events = 0
  /\ cache = api /\ cluster \in Clusters
  /\ queue = {} /\ waiting = {} /\ restarts = 0
  /\ Log!Init /\ recent = NothingRecent
  /\ Idle

-------------------------------------------------------------------------------
(* Users, the API server, the informer and the workqueue (external) *)

Event == events < MaxEvents /\ events' = events + 1

ApiStep == UNCHANGED <<cache, cluster, queue, waiting, restarts, history, recent, work>>

Create(n) ==
  /\ Event /\ api[n] = None
  /\ \E spec \in Specs, finalizer \in BOOLEAN :
       api' = [api EXCEPT ![n] = [uid |-> events + 1, generation |-> 1, spec |-> spec,
                                  finalizer |-> finalizer, deleting |-> FALSE,
                                  status |-> NoStatus]]
  /\ ApiStep

Update(n) ==
  /\ Event /\ api[n] # None
  /\ \E spec \in Specs \ {api[n].spec} :
       api' = [api EXCEPT ![n].spec = spec, ![n].generation = @ + 1]
  /\ ApiStep

\* The operator adds no finalizer: one that is there is somebody else's.
Delete(n) ==
  /\ Event /\ api[n] # None /\ ~api[n].deleting
  /\ api' = IF api[n].finalizer
              THEN [api EXCEPT ![n].deleting = TRUE, ![n].generation = @ + 1]
              ELSE [api EXCEPT ![n] = None]
  /\ ApiStep

RemoveFinalizer(n) ==
  /\ api[n] # None /\ api[n].deleting
  /\ api' = [api EXCEPT ![n] = None]
  /\ UNCHANGED events /\ ApiStep

\* Creations and deletions are queued, updates only with a new generation.
Identity(copy) == IF copy = None THEN <<0, 0>> ELSE <<copy.uid, copy.generation>>

CacheSync(n) ==
  /\ cache[n] # api[n]
  /\ cache' = [cache EXCEPT ![n] = api[n]]
  /\ queue' = IF Identity(cache[n]) # Identity(api[n]) THEN queue \cup {n} ELSE queue
  /\ UNCHANGED <<api, events, cluster, waiting, restarts, history, recent, work>>

TimerFires(n) ==
  /\ n \in waiting
  /\ waiting' = waiting \ {n} /\ queue' = queue \cup {n}
  /\ UNCHANGED <<api, events, cache, cluster, restarts, history, recent, work>>

ChangeCluster ==
  /\ cluster' \in Clusters \ {cluster}
  /\ UNCHANGED <<api, events, cache, queue, waiting, restarts, history, recent, work>>

\* A crash, an upgrade or a lost leader election: a new process starts with an
\* empty history, lists the objects and queues each of them.
Restart ==
  /\ restarts < MaxRestarts /\ restarts' = restarts + 1
  /\ cache' = api /\ queue' = {n \in Autoscalers : api[n] # None} /\ waiting' = {}
  /\ history' = NothingRecent /\ recent' = NothingRecent
  /\ ResetWork
  /\ UNCHANGED <<api, events, cluster>>

-------------------------------------------------------------------------------
(* Reconcile, up to the fetch *)

Take(n) ==
  /\ active = None /\ n \in queue
  /\ queue' = queue \ {n}
  /\ UNCHANGED <<api, events, cache, cluster, waiting, restarts>>

\* The object is gone: nothing is evicted, nothing is queued.  A Get from the
\* cache of a running manager has no other error.
ReconcileGone(n) ==
  /\ Take(n)
  /\ cache[n] = None
  /\ UNCHANGED <<history, recent, work>>

\* The deletion timestamp is set: the history is evicted.
DeletedWithoutEviction(n) ==  \* Fault
  /\ Take(n)
  /\ cache[n] # None /\ cache[n].deleting
  /\ UNCHANGED <<history, recent, work>>

ReconcileDeleted(n) ==
  /\ Take(n)
  /\ cache[n] # None /\ cache[n].deleting
  /\ Log!Forget(n)
  /\ recent' = [recent EXCEPT ![n] = NothingRecent[n]]
  /\ UNCHANGED work

StartUnchecked(n) ==  \* Fault: the deletion timestamp is not looked at.
  /\ Take(n)
  /\ cache[n] # None
  /\ active' = n /\ object' = cache[n] /\ status' = cache[n].status
  /\ phase' = "fetching"
  /\ UNCHANGED <<history, recent, result, todo, series, forecasts, demand>>

StartReconcile(n) ==
  /\ Take(n)
  /\ cache[n] # None /\ ~cache[n].deleting
  /\ active' = n /\ object' = cache[n] /\ status' = cache[n].status
  /\ phase' = "fetching"
  /\ UNCHANGED <<history, recent, result, todo, series, forecasts, demand>>

\* No scope can be made for the patch of the status: the error puts the name back
\* after a backoff, and the status stays as it is.
ScopeFails(n) ==
  /\ active = None /\ n \in queue
  /\ cache[n] # None /\ ~cache[n].deleting
  /\ queue' = queue \ {n} /\ waiting' = waiting \cup {n}
  /\ UNCHANGED <<api, events, cache, cluster, restarts, history, recent, work>>

WorkerStep == UNCHANGED <<api, events, cache, cluster, queue, waiting, restarts>>

\* Fault: the condition keeps the generation it was first set for.
SetReadyOfAnyGeneration(s, ready) == [s EXCEPT !.ready = ready]

SetMetricsReady(s, ready) == [s EXCEPT !.ready = ready, !.observed = object.generation]

Fetched == Fetch(object.spec.metrics, Namespace, cluster)

\* The source is misconfigured, out of reach or has nothing.
FetchFails ==
  /\ phase = "fetching" /\ Fetched = Error
  /\ result' = Error
  /\ status' = SetMetricsReady(status, "False")
  /\ phase' = "patching"
  /\ WorkerStep
  /\ UNCHANGED <<history, recent, active, object, todo, series, forecasts, demand>>

FetchSucceeds ==
  /\ phase = "fetching" /\ Fetched # Error
  /\ result' = Fetched
  /\ todo' = ResourcesToProcess(object.spec.metrics, Fetched)
  /\ phase' = "processing"
  /\ WorkerStep
  /\ UNCHANGED <<history, recent, active, object, status, series, forecasts, demand>>

-------------------------------------------------------------------------------
(* Reconcile, from the samples to the resize *)

With(f, x, value) == [y \in DOMAIN f \cup {x} |-> IF y = x THEN value ELSE f[y]]

ValuesOf(samples) == [i \in DOMAIN samples |-> samples[i].value]

Latest(fetched) == [value |-> Last(fetched), of |-> object.uid]

\* accumulateHistory and appendHistorySample record the newest sample; the
\* forecast is made of the buffer or of the fetched series.
ForecastSeries(r, fetched) ==
  IF object.spec.metrics.type = "MetricsServer" THEN ValuesOf(history'[active][r])
  ELSE fetched

\* runForecast, when it comes to it; Error also stands for no forecast.
Responses(samples) ==
  {Error} \cup IF /\ ForecasterLoaded /\ object.spec.forecast
                  /\ Len(samples) >= MinForecastSamples
                 THEN Forecasts ELSE {}

LastOf(samples, n) ==
  SubSeq(samples, IF Len(samples) > n THEN Len(samples) - n + 1 ELSE 1, Len(samples))

ProcessResource ==
  /\ phase = "processing" /\ todo # << >> /\ Head(todo) \in DOMAIN result.byResource
  /\ LET r       == Head(todo)
         fetched == result.byResource[r]
     IN  /\ Log!Record(active, r, Latest(fetched))
         /\ recent' = [recent EXCEPT ![active][r] =
                         LastOf(Append(@, Last(fetched)), DefaultRecentPeakWindow)]
         /\ series' = With(series, r, ForecastSeries(r, fetched))
         /\ \E response \in Responses(ForecastSeries(r, fetched)) :
              forecasts' = IF response = Error THEN forecasts
                                               ELSE With(forecasts, r, response)
  /\ todo' = Tail(todo)
  /\ WorkerStep
  /\ UNCHANGED <<active, object, status, phase, result, demand>>

SkipResource ==
  /\ phase = "processing" /\ todo # << >> /\ Head(todo) \notin DOMAIN result.byResource
  /\ todo' = Tail(todo)
  /\ WorkerStep
  /\ UNCHANGED <<history, recent, active, object, status, phase, result, series,
                 forecasts, demand>>

ConcludeFetch ==
  /\ phase = "processing" /\ todo = << >>
  /\ status' = [SetMetricsReady(status, "True") EXCEPT
                  !.samples = PeakOf({Len(series[r]) : r \in DOMAIN series})]
  /\ phase' = IF object.spec.resize /\ forecasts # << >> THEN "resizing" ELSE "patching"
  /\ WorkerStep
  /\ UNCHANGED <<history, recent, active, object, result, todo, series, forecasts, demand>>

\* The buffered samples, however coarse the series is that was fetched.
FetchedPeakSamples(r) == series[r]  \* Fault: the fetched series.
RecentPeakSamples(r) ==
  IF history[active][r] # << >> THEN ValuesOf(history[active][r]) ELSE series[r]

\* Apply, to the point where it looks at the pods.  Its error is only logged.
Apply ==
  /\ phase = "resizing"
  /\ demand' = IF result.podNames = {} THEN << >>
               ELSE [r \in DOMAIN forecasts |->
                       EffectivePeak(forecasts[r],
                                     RecentPeak(RecentPeakSamples(r), DefaultRecentPeakWindow))]
  /\ phase' = "patching"
  /\ WorkerStep
  /\ UNCHANGED <<history, recent, active, object, status, result, todo, series, forecasts>>

-------------------------------------------------------------------------------
(* The end of Reconcile *)

\* An error puts the name back after a backoff, and success after an interval.
FinishAfterFailure ==  \* Fault: a failed fetch ends like one for a deleted object.
  /\ waiting' = IF result = Error THEN waiting ELSE waiting \cup {active}
  /\ ResetWork
  /\ UNCHANGED <<events, cache, cluster, queue, restarts, history, recent>>

Finish ==
  /\ waiting' = waiting \cup {active}
  /\ ResetWork
  /\ UNCHANGED <<events, cache, cluster, queue, restarts, history, recent>>

\* The deferred patch sends what Reconcile changed in the copy it got, not what
\* differs from the object: a field set to the value of the copy is not sent.
Patched(current) ==
  LET sent == IF <<status.ready, status.observed>> = <<object.status.ready, object.status.observed>>
                THEN current ELSE status
  IN  [ready |-> sent.ready, observed |-> sent.observed,
       samples |-> IF status.samples = object.status.samples THEN current.samples
                                                             ELSE status.samples]

PatchStatus ==
  /\ phase = "patching" /\ api[active] # None
  /\ api' = [api EXCEPT ![active].status = Patched(@)]
  /\ Finish

\* The object is gone, or the API server is out of reach.
PatchFails ==
  /\ phase = "patching"
  /\ Finish
  /\ UNCHANGED api

Worker ==
  \/ FetchFails \/ FetchSucceeds
  \/ ProcessResource \/ SkipResource \/ ConcludeFetch \/ Apply
  \/ PatchStatus \/ PatchFails

Next ==
  \/ ChangeCluster
  \/ Restart
  \/ Worker
  \/ \E n \in Autoscalers :
       \/ Create(n) \/ Update(n) \/ Delete(n) \/ RemoveFinalizer(n)
       \/ CacheSync(n) \/ TimerFires(n)
       \/ ReconcileGone(n) \/ ReconcileDeleted(n) \/ ScopeFails(n) \/ StartReconcile(n)

Spec == Init /\ [][Next]_vars

\* The worker goes on and takes names in the order of the queue, timers fire,
\* watches deliver, and for no object making the scope or patching the status
\* fails for ever.
Fairness ==
  /\ WF_vars(Worker)
  /\ \A n \in Autoscalers :
       /\ SF_vars(active = n /\ PatchStatus)
       /\ WF_vars(TimerFires(n)) /\ WF_vars(CacheSync(n))
       /\ SF_vars(ReconcileGone(n) \/ ReconcileDeleted(n) \/ StartReconcile(n))

FairSpec == Spec /\ Fairness

-------------------------------------------------------------------------------
(* Properties *)

Status == [ready : {None, "True", "False"}, observed : 0 .. MaxEvents, samples : Nat]

Object == [uid : 1 .. MaxEvents, generation : 1 .. MaxEvents, spec : Specs,
           finalizer : BOOLEAN, deleting : BOOLEAN, status : Status]

Objects == Object \cup {None}

\* The variables have their types, and those of the worker fit its phase.
TypeOK ==
  /\ api \in [Autoscalers -> Objects] /\ cache \in [Autoscalers -> Objects]
  /\ events \in 0 .. MaxEvents /\ restarts \in 0 .. MaxRestarts
  /\ cluster \in Clusters
  /\ queue \subseteq Autoscalers /\ waiting \subseteq Autoscalers
  /\ \A n \in Autoscalers, r \in ResourceMetrics : Len(history[n][r]) <= Capacity
  /\ status \in Status
  /\ IF phase = "idle" THEN active = None /\ object = None
     ELSE /\ phase \in {"fetching", "processing", "resizing", "patching"}
          /\ active \in Autoscalers
          /\ object \in Object /\ ~object.deleting
  /\ DOMAIN demand \subseteq DOMAIN forecasts /\ DOMAIN forecasts \subseteq DOMAIN series
  /\ phase = "resizing" \/ demand # << >> =>
       object.spec.resize /\ object.spec.forecast /\ forecasts # << >>

\* Whatever a reconcile ran into, an object that is there and not about to go
\* is ready in the workqueue, comes back to it, or is being reconciled.
NeverForgotten ==
  \A n \in Autoscalers :
    cache[n] # None /\ ~cache[n].deleting => n \in queue \cup waiting \cup {active}

\* Once the queue has handed out the deletion of an object, nothing of its
\* history is left, and no reconcile that is still under way can bring any of
\* it back.
DeletionForgets ==
  \A n \in Autoscalers :
    cache[n] # None /\ cache[n].deleting /\ n \notin queue =>
      active # n /\ history[n] = NothingRecent[n]

\* neuralautoscaler_controller.go:70-71: no sample that was fetched in the last
\* DefaultRecentPeakWindow reconciles is above the demand the pods are sized
\* for, also where the fetched series is too coarse to show it.
RecentPeakFloors ==
  \A r \in DOMAIN demand, n \in {active} :
    \A i \in DOMAIN recent[n][r] : recent[n][r][i] <= demand[r]

\* The condition MetricsReady comes to tell, of the latest generation, whether
\* metrics can be fetched, although each patch is made from a copy that may be
\* older than the condition it replaces.
Present(n) == api[n] # None /\ ~api[n].deleting
Unfetchable(n) == Present(n) /\ Fetch(api[n].spec.metrics, Namespace, cluster) = Error
Fetchable(n) == Present(n) /\ Fetch(api[n].spec.metrics, Namespace, cluster) # Error
Reported(n, ready) ==
  Present(n) /\ api[n].status.ready = ready /\ api[n].status.observed = api[n].generation
ReadyTellsTruth ==
  \A n \in Autoscalers :
    /\ <>[]Unfetchable(n) => <>[]Reported(n, "False")
    /\ <>[]Fetchable(n) => <>[]Reported(n, "True")

\* README.md:122 "which warms up in ~16 reconciles": an autoscaler forecasts
\* from samples of its own, not from those of a namesake before it.
WarmsUpAfresh ==
  phase = "processing" /\ object.spec.metrics.type = "MetricsServer" =>
    \A r \in DOMAIN series : \A i \in DOMAIN history[active][r] :
      history[active][r][i].of = object.uid

\* neuralautoscaler_types.go, "Namespace overrides the NeuralAutoscaler
\* namespace for target resolution": the pods are resized where they were found.
ResizesWhereItMeasures ==
  phase = "resizing" =>
    MetricsTargetNamespace(object.spec.metrics, Namespace)
      = FetchNamespace(object.spec.metrics, Namespace)
==============================================================================
