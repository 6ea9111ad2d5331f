SPECIFICATION Spec
CONSTANTS
  None = None
  Error = Error
  DefaultRecentPeakWindow = 2
  Autoscalers = {web}
  Namespace = "shop"
  Specs <- MCElsewhere
  Clusters <- MCOneCluster
  Forecasts = {2}
  Capacity = 2
  MinForecastSamples = 2
  ForecasterLoaded = TRUE
  MaxEvents = 1
  MaxRestarts = 0
INVARIANTS ResizesWhereItMeasures
