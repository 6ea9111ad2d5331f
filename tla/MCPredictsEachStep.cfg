SPECIFICATION Spec
CONSTANTS
  None = None
  Error = Error
  Unscaled = Unscaled
  ChronosContextLen = 3
  ChronosHorizonLen = 3
  ChronosQuantileLevels <- MCLevels
  Flags <- MCDeployedFlags
  Series <- MCSeries
  Cadences <- MCReconcileCadence
  Steps <- MCDefault
  Horizons <- MCDefault
  DefaultHorizon = 2
  DefaultStep = 60
  BatchSize = 2
  ModelHorizon = 4
INVARIANT PredictsEachStep
