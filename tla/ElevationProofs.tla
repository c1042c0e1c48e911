----------------------------- MODULE ElevationProofs ----------------------------
(***************************************************************************)
(* The elevation strategy: what the execution condition promises of the    *)
(* end of an execution, when the signalling fits between two checks, and   *)
(* what its ranking promises of a measurement report.                      *)
(***************************************************************************)
EXTENDS ElevationCho, ChoHistoryProofs

(* The operator ChoProcedure leaves open that decides about executions is  *)
(* the one of this strategy.                                               *)
StrategyIsElevation == \A s, t : ExecuteNow(s, t) <=> ElevationExecuteNow(s, t)

(* CHO_HandleFailure never runs because the target has sunk below the      *)
(* horizon: CHO_CheckExecutionCondition asks for a target no lower than    *)
(* the serving satellite, and for a serving satellite above it.            *)
THEOREM FailuresAreNotHorizon ==
  ASSUME StrategyIsElevation, ~Overrun, ChoExecutionOffset \in Nat,
         \A m \in Metrics : m.elevation \in Int
  PROVE  Spec => FailureIsNotHorizon
<1>1. IInv /\ Timely /\ [Next]_vars =>
        [\A u \in UEs :
           stats'[u]["failedAtExecution"] > stats[u]["failedAtExecution"] =>
             Fetched(u, proc[u].target).elevation >= 0]_vars
  <2> SUFFICES ASSUME IInv, Timely, Next, NEW u \in UEs,
                      stats'[u]["failedAtExecution"]
                        > stats[u]["failedAtExecution"]
               PROVE  Fetched(u, proc[u].target).elevation >= 0
    OBVIOUS
  <2> DEFINE s == Fetched(u, proc[u].source)
             t == Fetched(u, proc[u].target)
  <2>1. /\ s \in Metrics /\ t \in Metrics
        /\ t.elevation - s.elevation >= ChoExecutionOffset
        /\ s.elevation >= 0
    BY FailsOnCondition
       DEF EndsOnCondition, StrategyIsElevation, ElevationExecuteNow
  <2>2. s.elevation \in Int /\ t.elevation \in Int
    BY <2>1
  <2> HIDE DEF s, t
  <2>3. t.elevation >= 0
    BY <2>1, <2>2
  <2> QED
    BY <2>3 DEF t
<1> QED
  BY <1>1, InvariantHolds, TimelyHolds, PTL DEF Spec, FailureIsNotHorizon

(* A UE that CHO_Phase7_ExecutionComplete has moved looks at a satellite   *)
(* at least g_choExecutionOffset degrees higher, by the channel of that    *)
(* second, than the one it has left.                                       *)
THEOREM HandoversGainElevation ==
  ASSUME StrategyIsElevation, ~Overrun
  PROVE  Spec => HandoverGainsElevation
<1>1. IInv /\ Timely /\ [Next]_vars =>
        [\A u \in UEs :
           proc[u].phase = "UE_EXECUTING" /\ serving'[u] # serving[u] =>
             Fetched(u, serving'[u]).elevation
               - Fetched(u, serving[u]).elevation >= ChoExecutionOffset]_vars
  <2> SUFFICES ASSUME IInv, Timely, Next, NEW u \in UEs,
                      proc[u].phase = "UE_EXECUTING", serving'[u] # serving[u]
               PROVE  Fetched(u, serving'[u]).elevation
                        - Fetched(u, serving[u]).elevation
                        >= ChoExecutionOffset
    OBVIOUS
  <2> QED
    BY CompletesOnCondition
       DEF EndsOnCondition, StrategyIsElevation, ElevationExecuteNow
<1> QED
  BY <1>1, InvariantHolds, TimelyHolds, PTL DEF Spec, HandoverGainsElevation

(* What ChoHistoryProofs asks of a strategy holds of this one: higher is   *)
(* better, among equals the first wins, and there is no NTN trigger.       *)
LEMMA ElevationRanking ==
  ASSUME \A v, V : Best(v, V) <=> ElevationBest(v, V),
         \A s : NtnTrigger(s) <=> ElevationNtnTrigger(s),
         \A m \in Metrics : m.elevation \in Int
  PROVE  UniqueBest /\ NtnSilent
<1>1. ASSUME NEW V \in SUBSET Seen, NEW v \in V, NEW w \in V,
             Best(v, V), Best(w, V)
      PROVE  v.cell = w.cell
  <2>1. /\ v.cell \in Int /\ w.cell \in Int
        /\ v.m.elevation \in Int /\ w.m.elevation \in Int
    BY DEF Seen, Sats
  <2>2. /\ FirstBest(v, V, ElevationBeats(V))
        /\ FirstBest(w, V, ElevationBeats(V))
    BY <1>1 DEF ElevationBest
  <2>3. ~(<<v, w>> \in ElevationBeats(V) /\ <<w, v>> \in ElevationBeats(V))
    BY <2>1 DEF ElevationBeats
  <2> QED
    BY <2>1, <2>2, <2>3, FirstBestUnique
<1> QED
  BY <1>1 DEF UniqueBest, NtnSilent, ElevationNtnTrigger

(* What UE_EvaluateAndReport names has been the highest neighbour, within  *)
(* g_reportingOffset degrees of the serving satellite, at every check of   *)
(* the last g_timeToTrigger seconds: for the elevation strategy too, whose *)
(* timer restarts with every other best neighbour.                         *)
THEOREM ElevationReportsAfterTtt ==
  ASSUME \A v, V : Best(v, V) <=> ElevationBest(v, V),
         \A s : NtnTrigger(s) <=> ElevationNtnTrigger(s),
         \A m \in Metrics : m.elevation \in Int, ForcedReselect
  PROVE  HistorySpec => ReportAfterTtt
BY ElevationRanking, ReportsAfterTtt
===============================================================================
