------------------------------- MODULE Metrics -------------------------------
(* What the packages api/v1alpha1, metrics and resize share. *)

CONSTANT None  \* an optional field that is not set

\* ResourceMetric: the metrics there are, and the resources that are resized.
ResourceMetrics == {"cpu", "memory"}
==============================================================================
