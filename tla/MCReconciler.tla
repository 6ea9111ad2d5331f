----------------------------- MODULE MCReconciler -----------------------------
(* Reconciler over a workload of one or two pods, with small numbers for      *)
(* what is 512, 16 and 9 in the code.                                         *)
EXTENDS Reconciler, TLC

Web == [kind |-> "Deployment", name |-> "web"]
Gone == [kind |-> "Deployment", name |-> "gone"]

FromMetricsServer(ref, resources, namespace) ==
  [type |-> "MetricsServer", prometheus |-> None,
   metricsServer |-> [namespace |-> namespace, targetRef |-> ref, resources |-> resources]]

Prometheus(resources, queryType) ==
  [url |-> "http://prometheus", namespace |-> None, targetRef |-> Web,
   resources |-> resources, query |-> None, queryType |-> queryType,
   auth |-> None, durations |-> TRUE]
FromPrometheus(block) ==
  [type |-> "Prometheus", metricsServer |-> None, prometheus |-> block]

Sized(metrics) == [metrics |-> metrics, forecast |-> TRUE, resize |-> TRUE]

Range1 == FromPrometheus(Prometheus(<<"cpu">>, None))
Instant == FromPrometheus(Prometheus(<<"cpu">>, "query"))
Elsewhere == [Range1 EXCEPT !.metricsServer =
                [namespace |-> "other", targetRef |-> Web, resources |-> <<"cpu">>]]

\* A cluster by the cpu in use now, and in the range of a coarse query, in which
\* one pod is younger.  A workload web-api has pods whose names look alike.
Cluster(now, range) ==
  [targets |-> (<<"shop", Web>> :> {"web-0", "web-1"} @@ <<"other", Web>> :> {"web-2"}),
   named   |-> (<<"shop", Web>> :> {"web-0", "web-1", "web-api-0"} @@ <<"other", Web>> :> {"web-2"}),
   usage   |-> ("web-0" :> [cpu |-> now, memory |-> 1]),
   ranges  |-> ("web-0" :> [cpu |-> range, memory |-> range]
                 @@ "web-1" :> [cpu |-> <<0>>, memory |-> <<1>>]
                 @@ "web-2" :> [cpu |-> range, memory |-> range]
                 @@ "web-api-0" :> [cpu |-> <<1, 3>>, memory |-> <<1>>]),
   answers |-> [cpu |-> <<range, range>>, memory |-> <<range>>],
   secrets |-> {<<"shop", "token", "bearer">>}]
Down == [targets |-> << >>, named |-> << >>, usage |-> << >>, ranges |-> << >>, secrets |-> {},
         answers |-> [cpu |-> << >>, memory |-> << >>]]

\* The workload is scaled to zero.
ScaledDown == [Cluster(0, <<0, 0>>) EXCEPT !.targets["shop", Web] = {}]

FromMetrics == Sized(FromMetricsServer(Web, <<"cpu">>, None))
\* The fetch knows the resource of the query, the loop only the one listed.
Misread == Sized(FromPrometheus([Prometheus(<<"memory">>, None) EXCEPT
                                   !.targetRef = None, !.query = "cpu"]))

MCSpecs == {FromMetrics, Sized(Range1), Misread}
MCStatusSpecs == {FromMetrics, Sized(FromMetricsServer(Gone, <<"cpu">>, None))}

\* A burst; then calm, while metrics-server does not answer; then no pods.
MCClusters ==
  {Cluster(3, <<1, 3>>), [Cluster(0, <<0, 0>>) EXCEPT !.usage = << >>], ScaledDown}
MCStatusClusters == {Cluster(1, <<1, 1>>), Down}
MCOneCluster == {Cluster(1, <<1, 2, 1>>)}

MCElsewhere == {Sized(Elsewhere)}
MCFromMetrics == {FromMetrics}
==============================================================================
