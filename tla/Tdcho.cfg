SPECIFICATION TdchoSpec
CONSTANTS
  NumUes = 1
  NumSats = 3
  StartTime <- ThirdRises
  EndTime <- TwoSet
  Metrics <- SixLinks
  Unmeasured = Unmeasured
  TimeToTrigger = 2
  MeasurementPeriod = 1
  ExecutionTtt = 1
  ValidityPeriod = 2
  ForcedReselect = FALSE
  Overrun = FALSE
  MaxTime = 9
  InPass <- SnrInPass
  Detectable <- SnrDetectable
  Selectable <- SnrSelectable
  Initial <- SnrBest
  Best <- SnrBest
  Prepare <- SnrPrepare
  NtnTrigger <- SnrNtnTrigger
  NtnAccepts <- SnrNtnAccepts
  ExecuteNow <- SnrExecuteNow
  Viable <- SnrViable
  ReportingOffset = 1
  ChoExecutionOffset = 3
  MinViableSinr = 0
  MaxViableDistance = 2
  Channel <- Passage
  MinSnr = 0
  FarAway = 1000
  TrendWindow = 1
  TrendHandoverMargin = 3
  ServingTrendThreshold = 1
  ValidationDelay = 3
  FollowupHorizons = {1, 3}
INVARIANT HistoryConsecutive
INVARIANT NothingOverdue
INVARIANT ValidatedByLaterSample
PROPERTY ExecutionReadsThisSecond
PROPERTY ReportPrefersApproaching
PROPERTY ImplementsLifecycle
CHECK_DEADLOCK FALSE
