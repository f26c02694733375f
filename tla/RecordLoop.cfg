SPECIFICATION Spec
CONSTANTS
  Inputs <- MCInputs
  Priors <- MCPriors
  SourceStats <- MCSourceStats
  Known <- MCKnown
  Bounds <- MCBounds
  WindowEnd = 10
  Cutoff = 5
  MaxRecords = 6
  Registered <- MCRegistered
  MinSample = 2
  Threshold = 35
  SampleCap = 5
  CrossFitAbove = 4
INVARIANTS
  StreamingMatchesBatch
  EveryRecordAccounted
  SeenCoversOverlap
  PointsConserveObservations
  PercentilesTrackRanks
  PointsAccepted
  SamplesAreBounded
  AnomaliesAreOutliers
