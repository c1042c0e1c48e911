SPECIFICATION LogSpec
CONSTANTS
  NumUes = 2
  NumSats = 2
  StartTime <- FromStart
  EndTime <- SetsEarly
  Metrics <- ThreeLinks
  Unmeasured = Unmeasured
  TimeToTrigger = 0
  MeasurementPeriod = 1
  ExecutionTtt = 0
  ValidityPeriod = 2
  ForcedReselect = FALSE
  Overrun = TRUE
  MaxTime = 3
  InPass <- SnrInPass
  Detectable <- SnrDetectable
  Selectable <- SnrSelectable
  Initial <- SnrBest
  Best <- SnrBest
  Prepare <- SnrPrepare
  NtnTrigger <- SnrNtnTrigger
  NtnAccepts <- SnrNtnAccepts
  ExecuteNow <- SnrExecuteNow
  Viable <- SnrViable
  ReportingOffset = 1
  ChoExecutionOffset = 3
  MinSnr = 0
  MinViableSinr = 0
  MaxViableDistance = 2500
  PredictionDelay = 2
INVARIANT EventMatchesPhase
INVARIANT GlobalIsTotal
INVARIANT ContextOfProcedure
INVARIANT PendingMatchesScheduled
CHECK_DEADLOCK FALSE
