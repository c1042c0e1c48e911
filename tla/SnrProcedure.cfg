SPECIFICATION FairSpec
CONSTANTS
  NumUes = 1
  NumSats = 2
  StartTime <- FromStart
  EndTime <- FirstSets
  Metrics <- SixLinks
  Unmeasured = Unmeasured
  TimeToTrigger = 2
  MeasurementPeriod = 1
  ExecutionTtt = 2
  ValidityPeriod = 3
  ForcedReselect = FALSE
  Overrun = FALSE
  MaxTime = 10
  InPass <- SnrInPass
  Detectable <- SnrDetectable
  Selectable <- SnrSelectable
  Initial <- SnrBest
  Best <- SnrBest
  Prepare <- SnrPrepare
  NtnTrigger <- SnrNtnTrigger
  NtnAccepts <- SnrNtnAccepts
  ExecuteNow <- SnrExecuteNow
  Viable <- SnrViable
  ReportingOffset = 1
  ChoExecutionOffset = 3
  MinSnr = 0
  MinViableSinr = 0
  MaxViableDistance = 2500
INVARIANT TypeOK
INVARIANT EventMatchesPhase
INVARIANT ConfigMatchesPhase
INVARIANT InterruptionMatchesPhase
INVARIANT ProcedureLeavesServing
INVARIANT ProceduresAccounted
INVARIANT ProcedureBounded
PROPERTY ServingChangesByHandover
PROPERTY StrandedForever
PROPERTY FreshDecisions
PROPERTY FailureIsNotSnr
PROPERTY ProcedureEnds
CHECK_DEADLOCK FALSE
