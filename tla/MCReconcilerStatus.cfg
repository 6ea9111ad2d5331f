SPECIFICATION FairSpec
CONSTANTS
  None = None
  Error = Error
  DefaultRecentPeakWindow = 2
  Autoscalers = {web}
  Namespace = "shop"
  Specs <- MCStatusSpecs
  Clusters <- MCStatusClusters
  Forecasts = {2}
  Capacity = 2
  MinForecastSamples = 2
  ForecasterLoaded = FALSE
  MaxEvents = 3
  MaxRestarts = 1
PROPERTIES ReadyTellsTruth
