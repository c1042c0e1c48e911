SPECIFICATION Spec
CONSTANTS
  NumUes = 2
  NumSats = 2
  StartTime <- FromStart
  EndTime <- NeverSets
  Metrics <- FourLinks
  Unmeasured = Unmeasured
  TimeToTrigger = 1
  MeasurementPeriod = 1
  ExecutionTtt = 1
  ValidityPeriod = 2
  ForcedReselect = TRUE
  Overrun = FALSE
  MaxTime = 3
  InPass <- ElevationInPass
  Detectable <- ElevationDetectable
  Selectable <- ElevationSelectable
  Initial <- ElevationBest
  Best <- ElevationBest
  Prepare <- ElevationPrepare
  NtnTrigger <- ElevationNtnTrigger
  NtnAccepts <- ElevationNtnAccepts
  ExecuteNow <- ElevationExecuteNow
  Viable <- ElevationViable
  ReportingOffset = 3
  ChoExecutionOffset = 10
  MinViableSinr = 0
  MaxViableDistance = 2500
PROPERTY ImplementsLifecycle
PROPERTY FailureIsNotHorizon
PROPERTY HandoverGainsElevation
CHECK_DEADLOCK FALSE
