SPECIFICATION Spec
CONSTANTS
  None = None
  Kilo = 4
  MaxInt64 = 1023
  OutOfRangeInt64 <- MCOutOfRangeAmd64
  DefaultMinChangePercent = 10
  DefaultRecentPeakWindow = 9
  Specs <- MCSpecs
  Containers <- MCContainers
  Peaks <- MCPeaks
  PodCounts <- MCPodCounts
INVARIANTS TypeOK RequestsWithinLimits LargerPeakLargerTarget
PROPERTIES LimitsRiseToRequests MovedRequestsInBounds MovesAreWorthwhile OneResizeSettles GuaranteedOnlyGrows
