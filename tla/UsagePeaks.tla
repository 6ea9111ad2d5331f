------------------------------ MODULE UsagePeaks ------------------------------
(* The demand for a resource: the peaks of what is forecast and of what was  *)
(* used lately (internal/resize/peak.go, ForecastPeaks of target.go).        *)
EXTENDS Integers, FiniteSets, FiniteSetsExt

CONSTANT DefaultRecentPeakWindow  \* 9

ASSUME DefaultWindowAssumption == DefaultRecentPeakWindow \in Nat \ {0}

\* The loops start from a peak of zero: what is below zero never counts.
PeakOf(values) == Max({0} \cup values)

ForecastPeaks(points, quantiles) ==
  PeakOf({points[i] : i \in DOMAIN points}
           \cup UNION {{q[i] : i \in DOMAIN q} : q \in quantiles})

RecentPeak(values, window) ==
  LET n == Cardinality(DOMAIN values)
      w == IF window <= 0 THEN DefaultRecentPeakWindow ELSE window
  IN  PeakOf({values[i] : i \in {j \in DOMAIN values : j > n - w}})

EffectivePeak(forecastPeak, observedPeak) ==
  IF observedPeak > forecastPeak THEN observedPeak ELSE forecastPeak
==============================================================================
