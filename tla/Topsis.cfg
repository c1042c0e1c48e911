SPECIFICATION Spec
CONSTANTS
  NumUes = 1
  NumSats = 4
  StartTime <- LastRises
  EndTime <- LastSets
  Metrics <- FourLinks
  Unmeasured = Unmeasured
  TimeToTrigger = 0
  MeasurementPeriod = 1
  ExecutionTtt = 0
  ValidityPeriod = 2
  ForcedReselect = FALSE
  Overrun = FALSE
  MaxTime = 3
  InPass <- TopsisInPass
  Detectable <- TopsisDetectable
  Selectable <- TopsisSelectable
  Initial <- TopsisInitial
  Best <- TopsisBest
  Prepare <- TopsisPrepare
  NtnTrigger <- TopsisNtnTrigger
  NtnAccepts <- TopsisNtnAccepts
  ExecuteNow <- TopsisExecuteNow
  Viable <- TopsisViable
  ReportingOffset = 1
  ChoExecutionOffset = 1
  MinViableSinr = 0
  MaxViableDistance = 2
  MinSnr <- BelowZero
PROPERTY ReportIsNotDominated
PROPERTY QuietOnlyByTradeOff
PROPERTY HandoverGainsSnr
CHECK_DEADLOCK FALSE
