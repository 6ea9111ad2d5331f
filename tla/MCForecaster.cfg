SPECIFICATION Spec
CONSTANTS
  None = None
  Error = Error
  Unscaled = Unscaled
  ChronosContextLen = 3
  ChronosHorizonLen = 3
  ChronosQuantileLevels <- MCLevels
  Flags <- MCFlags
  Series <- MCSeries
  Cadences <- MCCadences
  Steps <- MCSteps
  Horizons <- MCHorizons
  DefaultHorizon = 2
  DefaultStep = 60
  BatchSize = 2
  ModelHorizon = 4
INVARIANTS
  TypeOK
  ModelSeesNewest
  ScaleIsPositive
  QuantilesAreRead
  DiscoveredModelsFit
