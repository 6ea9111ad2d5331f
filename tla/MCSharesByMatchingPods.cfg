SPECIFICATION Spec
CONSTANTS
  None = None
  Kilo = 1024
  MaxInt64 = 1073741823
  OutOfRangeInt64 = 1073741823
  DefaultMinChangePercent = 10
  DefaultRecentPeakWindow = 9
  Pods = {p1, p2}
  Templates <- MCOneTemplate
  ResizeSpec <- MCResizeSpec
  Peaks <- MCPeaks
  ServerFails = TRUE
  MaxEvents = 0
CHECK_DEADLOCK FALSE
INVARIANTS SharesByMatchingPods
