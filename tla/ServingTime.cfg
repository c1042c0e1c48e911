SPECIFICATION ServingTimeSpec
CONSTANTS
  NumUes = 1
  NumSats = 3
  StartTime <- FirstPoint
  EndTime <- LastPoint
  Metrics <- TwoLinks
  Unmeasured = Unmeasured
  TimeToTrigger = 1
  MeasurementPeriod = 1
  ExecutionTtt = 1
  ValidityPeriod = 2
  ForcedReselect = TRUE
  Overrun = FALSE
  MaxTime = 10
  InPass <- ServingTimeInPass
  Detectable <- ServingTimeDetectable
  Selectable <- ServingTimeSelectable
  Initial <- ServingTimeBest
  Best <- ServingTimeBest
  Prepare <- ServingTimePrepare
  NtnTrigger <- ServingTimeNtnTrigger
  NtnAccepts <- ServingTimeNtnAccepts
  ExecuteNow <- ServingTimeExecuteNow
  Viable <- ServingTimeViable
  ReportingOffset = 2
  ChoExecutionOffset = 2
  MinViableSinr = 0
  MaxViableDistance = 2500
  Points <- ThreePasses
  GapThreshold = 2
  MinServingTime = 2
  MaxDistance = 1800
  MinSnr = 0
INVARIANT ServiceTimeIsRestOfPass
INVARIANT CriticalReportInTime
PROPERTY ReportOutlastsServing
PROPERTY HandoverGainsService
PROPERTY NoReturnWithinPass
CHECK_DEADLOCK FALSE
