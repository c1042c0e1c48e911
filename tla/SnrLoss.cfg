SPECIFICATION Spec
CONSTANTS
  NumUes = 1
  NumSats = 2
  StartTime <- FromStart
  EndTime <- FirstSets
  Metrics <- FiveLinks
  Unmeasured = Unmeasured
  TimeToTrigger = 1
  MeasurementPeriod = 1
  ExecutionTtt = 1
  ValidityPeriod = 2
  ForcedReselect = FALSE
  Overrun = FALSE
  MaxTime = 9
  InPass <- SnrInPass
  Detectable <- SnrDetectable
  Selectable <- SnrSelectable
  Initial <- SnrBest
  Best <- SnrBest
  Prepare <- SnrPrepare
  NtnTrigger <- SnrNtnTrigger
  NtnAccepts <- SnrNtnAccepts
  ExecuteNow <- SnrExecuteNow
  Viable <- SnrViable
  ReportingOffset = 1
  ChoExecutionOffset = 3
  MinSnr = 0
  MinViableSinr = 0
  MaxViableDistance = 2500
INVARIANT LossOnlyInHandover
CHECK_DEADLOCK FALSE
