SPECIFICATION Spec
CONSTANTS
  None = None
  Error = Error
  DefaultRecentPeakWindow = 2
  Autoscalers = {web}
  Namespace = "shop"
  Specs <- MCSpecs
  Clusters <- MCClusters
  Forecasts = {2}
  Capacity = 2
  MinForecastSamples = 2
  ForecasterLoaded = TRUE
  MaxEvents = 3
  MaxRestarts = 1
INVARIANTS TypeOK NeverForgotten DeletionForgets RecentPeakFloors
