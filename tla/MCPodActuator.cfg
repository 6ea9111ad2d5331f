SPECIFICATION Spec
CONSTANTS
  None = None
  Kilo = 1024
  MaxInt64 = 1073741823
  OutOfRangeInt64 = 1073741823
  DefaultMinChangePercent = 10
  DefaultRecentPeakWindow = 9
  Pods = {p1}
  Templates <- MCTemplates
  ResizeSpec <- MCResizeSpecOfAll
  Peaks <- MCPeaks
  ServerFails = TRUE
  MaxEvents = 4
CHECK_DEADLOCK FALSE
PROPERTIES ResizesOnlySteadyPods NoLostUpdate UpdatesSettle ImplementsAtomicResizes
