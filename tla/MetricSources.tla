---------------------------- MODULE MetricSources ----------------------------
(***************************************************************************)
(* Where samples come from: the validation of spec.metrics                 *)
(* (api/v1alpha1/metrics_source_validation.go), the fetchers of            *)
(* internal/metrics, and the choices the controller makes from the same    *)
(* spec (resourcesToProcess, metricsTargetNamespace).                      *)
(*                                                                         *)
(* A fetch is a function of the spec and of the state of the cluster:      *)
(*   targets  partial function from <<namespace, targetRef>> to the names  *)
(*            of the pods it selects                                       *)
(*   usage    partial function from pods to what metrics-server says they  *)
(*            use of each resource; << >> also when it does not answer     *)
(*   named    partial function from <<namespace, targetRef>> to the pods   *)
(*            whose names begin with the target's name and a hyphen        *)
(*   ranges   partial function from pods to the samples that Prometheus    *)
(*            has of each resource; << >> also when it does not answer     *)
(*   answers  from resources to the streams, sequences of values, by which *)
(*            Prometheus answers the user's own query of that resource     *)
(*   secrets  the <<namespace, name, key>> that hold a usable bearer token      *)
(* A series is its sequence of values.  A query is the resource that       *)
(* inferResourceFromQuery reads out of it, a blank string is None.         *)
(***************************************************************************)
EXTENDS Metrics, Integers, FiniteSets, FiniteSetsExt, Sequences, SequencesExt, Functions

CONSTANT Error  \* what an operation that returns an error returns

Kinds == {"Deployment", "StatefulSet", "ReplicaSet", "Pod"}

-------------------------------------------------------------------------------
(* Validation *)

ValidTargetRef(ref) == ref.kind \in Kinds /\ ref.name # None

\* Supported and without duplicates.
ValidResourceMetrics(resources) ==
  Range(resources) \subseteq ResourceMetrics /\ IsInjective(resources)

ValidMetricsServer(source) ==
  /\ ValidTargetRef(source.targetRef)
  /\ source.resources # << >> /\ ValidResourceMetrics(source.resources)

\* auth is None or the [name, key] of a secret, each None when blank; durations
\* tells whether step and lookback parse.
ValidPrometheus(source) ==
  /\ source.url # None
  /\ IF source.targetRef = None THEN source.query # None
     ELSE /\ ValidTargetRef(source.targetRef)
          /\ source.resources # << >> /\ ValidResourceMetrics(source.resources)
  /\ source.queryType \in {None, "query", "query_range"}
  /\ source.auth # None => source.auth.name # None /\ source.auth.key # None
  /\ source.durations

ValidateMetricsSource(metrics) ==
  \/ /\ metrics.type = "MetricsServer" /\ metrics.metricsServer # None
     /\ ValidMetricsServer(metrics.metricsServer)
  \/ /\ metrics.type = "Prometheus" /\ metrics.prometheus # None
     /\ ValidPrometheus(metrics.prometheus)

-------------------------------------------------------------------------------
(* Fetching *)

OrDefault(namespace, default) == IF namespace = None THEN default ELSE namespace

\* The source a fetcher is built from, and the namespace it looks in.
Source(metrics) ==
  IF metrics.type = "MetricsServer" THEN metrics.metricsServer ELSE metrics.prometheus
FetchNamespace(metrics, crNamespace) == OrDefault(Source(metrics).namespace, crNamespace)

ResolvePodNames(cluster, namespace, ref) ==
  IF <<namespace, ref>> \in DOMAIN cluster.targets
    THEN cluster.targets[namespace, ref] ELSE Error

\* One sample per resource: the sum over the pods that have metrics, which
\* may be fewer than the pods the target selects, but not none.
FetchMetricsServer(source, namespace, cluster) ==
  LET pods    == ResolvePodNames(cluster, namespace, source.targetRef)
      matched == pods \cap DOMAIN cluster.usage
  IN  IF pods = Error THEN Error
      ELSE IF matched = {} THEN Error
      ELSE [byResource |-> [r \in Range(source.resources) |->
                              <<MapThenSumSet(LAMBDA p : cluster.usage[p][r], matched)>>],
            podNames   |-> pods]

\* Two streams are added value by value; of two streams of different lengths
\* the first is dropped.
MergeSeries(base, add) ==
  IF base = << >> THEN add
  ELSE IF add = << >> THEN base
  ELSE IF Len(base) # Len(add) THEN add
  ELSE [i \in DOMAIN base |-> base[i] + add[i]]

\* An instant query adds up the samples of a vector, a range query merges the
\* streams of a matrix.
ToSeries(streams, queryType) ==
  IF queryType = "query" /\ streams # << >>
    THEN <<FoldLeft(LAMBDA total, stream : total + Last(stream), 0, streams)>>
    ELSE FoldLeft(MergeSeries, << >>, streams)

\* The secret is looked up in the namespace of the fetcher.
AuthSecret(source, namespace) == <<namespace, source.auth.name, source.auth.key>>

\* Without pods, every pod will do whose name looks like one of the target's.
PodMatcher(pods, cluster, namespace, ref) ==
  IF pods # {} THEN pods ELSE cluster.named[namespace, ref]

\* One stream: the sum, at each time, over the matched pods that have a sample.
BuildPrometheusQuery(r, pods, cluster) ==
  LET samples(p) == cluster.ranges[p][r]
      measured   == pods \cap DOMAIN cluster.ranges
      length     == Max({Len(samples(p)) : p \in measured})
      since(i)   == {p \in measured : Len(samples(p)) >= i}
      ago(p, i)  == samples(p)[Len(samples(p)) - i + 1]
  IN  IF measured = {} THEN << >>
      ELSE <<[t \in 1 .. length |->
                MapThenSumSet(LAMBDA p : ago(p, length - t + 1), since(length - t + 1))]>>

\* The user's query is only asked when there is no target.
FetchPrometheus(source, namespace, cluster) ==
  LET legacy     == source.targetRef = None
      pods       == IF legacy THEN {}
                    ELSE ResolvePodNames(cluster, namespace, source.targetRef)
      matched    == PodMatcher(pods, cluster, namespace, source.targetRef)
      resources  == IF legacy THEN {source.query} ELSE Range(source.resources)
      streams(r) == IF legacy THEN cluster.answers[r]
                              ELSE BuildPrometheusQuery(r, matched, cluster)
      series     == [r \in resources |-> ToSeries(streams(r), source.queryType)]
  IN  IF pods = Error THEN Error
      ELSE IF source.auth # None /\ AuthSecret(source, namespace) \notin cluster.secrets
        THEN Error
      ELSE IF \E r \in resources : series[r] = << >> THEN Error
      ELSE [byResource |-> series, podNames |-> pods]

\* NewFetcher, then Fetch.
Fetch(metrics, crNamespace, cluster) ==
  LET namespace == FetchNamespace(metrics, crNamespace)
  IN  IF ~ValidateMetricsSource(metrics) THEN Error
      ELSE IF metrics.type = "MetricsServer"
        THEN FetchMetricsServer(metrics.metricsServer, namespace, cluster)
        ELSE FetchPrometheus(metrics.prometheus, namespace, cluster)

-------------------------------------------------------------------------------
(* The controller's reading of the same spec *)

\* Both look at the metricsServer block first, whatever the type.
ResourcesToProcess(metrics, result) ==
  IF metrics.metricsServer # None THEN metrics.metricsServer.resources
  ELSE IF metrics.prometheus # None /\ metrics.prometheus.resources # << >>
    THEN metrics.prometheus.resources
  ELSE SetToSeq(DOMAIN result.byResource)

MetricsTargetNamespace(metrics, crNamespace) ==
  LET named == {source \in {metrics.metricsServer, metrics.prometheus} \ {None} :
                  source.namespace # None}
  IN  IF named = {} THEN crNamespace
      ELSE IF metrics.metricsServer \in named THEN metrics.metricsServer.namespace
      ELSE metrics.prometheus.namespace
==============================================================================
