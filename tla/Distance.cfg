SPECIFICATION HistorySpec
CONSTANTS
  NumUes = 1
  NumSats = 3
  StartTime <- FromStart
  EndTime <- FirstSets
  Metrics <- ThreeLinks
  Unmeasured = Unmeasured
  TimeToTrigger = 1
  MeasurementPeriod = 1
  ExecutionTtt = 1
  ValidityPeriod = 2
  ForcedReselect = TRUE
  Overrun = FALSE
  MaxTime = 8
  InPass <- DistanceInPass
  Detectable <- DistanceDetectable
  Selectable <- DistanceSelectable
  Initial <- DistanceBest
  Best <- DistanceBest
  Prepare <- DistancePrepare
  NtnTrigger <- DistanceNtnTrigger
  NtnAccepts <- DistanceNtnAccepts
  ExecuteNow <- DistanceExecuteNow
  Viable <- DistanceViable
  ReportingOffset = 100
  ChoExecutionOffset = 300
  MaxDistance = 1500
  MinViableSinr = 0
  MaxViableDistance = 2500
INVARIANT StrandingBounded
INVARIANT ProcedureLeavesServing
INVARIANT ExecutionSeesDecisionMetrics
PROPERTY ServingChangesByHandover
PROPERTY ReportAfterTtt
 
PROPERTY ExecutionAfterTtt
CHECK_DEADLOCK FALSE
