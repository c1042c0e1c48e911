--------------------------- MODULE ServingTimeProofs ---------------------------
(***************************************************************************)
(* The serving-time strategy: what GetSatelliteRemainingServiceTime reads  *)
(* off a trajectory, and that a procedure decided on it leads to a longer  *)
(* pass and never back into one.                                           *)
(***************************************************************************)
EXTENDS ServingTimeCho, ChoHistoryProofs

(* The points of a trajectory. *)
Bounded(T) == T \subseteq Nat /\ \E p \in T : \A q \in T : q <= p

LEMMA GreatestNatural ==
  ASSUME NEW T, T \subseteq Nat, T # {}, NEW b \in Nat, \A q \in T : q <= b
  PROVE  \E m \in T : \A n \in T : n <= m
<1> DEFINE D == {b - q : q \in T}
<1>1. D \subseteq Nat /\ D # {}
  <2>1. \A q \in T : b - q \in Nat
    OBVIOUS
  <2> QED
    BY <2>1
<1>2. PICK d \in D : \A x \in D : d <= x
  <2> HIDE DEF D
  <2> QED
    BY <1>1, LeastNatural
<1>3. PICK m \in T : d = b - m
  BY <1>2
<1>4. ASSUME NEW n \in T PROVE n <= m
  <2>1. b - m <= b - n
    BY <1>2, <1>3
  <2> QED
    BY <2>1
<1> QED
  BY <1>4

-------------------------------------------------------------------------------
(* FindTrajectoryBracket and the search for the end of the pass have one   *)
(* result.                                                                 *)
LEMMA OneLeft ==
  ASSUME NEW T, T \subseteq Nat, NEW t \in Int, NEW p, NEW q,
         IsLeft(T, t, p), IsLeft(T, t, q)
  PROVE  p = q
BY DEF IsLeft

LEMMA SomeLeft ==
  ASSUME NEW T, Bounded(T), NEW t \in Int, Bracketed(T, t)
  PROVE  \E p \in T : IsLeft(T, t, p) /\ p <= t
<1> DEFINE B == {q \in T : q < t}
<1>1. CASE t \in T /\ \A q \in T : q <= t
  BY <1>1 DEF IsLeft
<1>2. CASE ~(t \in T /\ \A q \in T : q <= t) /\ B = {}
  <2>1. PICK m \in T : \A n \in T : m <= n
    BY LeastNatural DEF Bounded
  <2>2. \A q \in T : q \in Int /\ t <= q
    BY <1>2 DEF Bounded
  <2>3. PICK q \in T : q <= t
    BY DEF Bracketed
  <2>4. m <= t
    BY <2>1, <2>2, <2>3
  <2> QED
    BY <1>2, <2>1, <2>2, <2>4 DEF IsLeft
<1>3. CASE ~(t \in T /\ \A q \in T : q <= t) /\ B # {}
  <2>1. PICK b \in Nat : \A q \in T : q <= b
    BY DEF Bounded
  <2>2. PICK m \in B : \A n \in B : n <= m
    <3>1. B \subseteq Nat /\ \A q \in B : q <= b
      BY <2>1 DEF Bounded
    <3> HIDE DEF B
    <3> QED
      BY <1>3, <2>1, <3>1, GreatestNatural
  <2> QED
    BY <1>3, <2>2 DEF IsLeft, Bounded
<1> QED
  BY <1>1, <1>2, <1>3

LEMMA OneSegmentEnd ==
  ASSUME NEW T, T \subseteq Nat, NEW p \in T, NEW d, NEW e,
         IsSegmentEnd(T, p, d), IsSegmentEnd(T, p, e)
  PROVE  d = e
BY DEF IsSegmentEnd

LEMMA SomeSegmentEnd ==
  ASSUME NEW T, Bounded(T), NEW p \in T
  PROVE  \E e \in T : IsSegmentEnd(T, p, e)
<1> DEFINE E == {e \in T : p <= e /\ (Gap(T, e) \/ \A q \in T : q <= e)}
<1>1. E \subseteq Nat /\ E # {}
  BY DEF Bounded
<1>2. PICK e \in E : \A d \in E : e <= d
  <2> HIDE DEF E
  <2> QED
    BY <1>1, LeastNatural
<1> QED
  BY <1>2 DEF IsSegmentEnd, Bounded

(* The result of GetSatelliteRemainingServiceTime. *)
LEMMA RestIs ==
  ASSUME NEW T, Bounded(T), NEW t \in Int, Bracketed(T, t)
  PROVE  \E p, e \in T :
           /\ IsLeft(T, t, p) /\ p <= t /\ IsSegmentEnd(T, p, e)
           /\ RemainingServiceTime(T, t) = IF e > t THEN e - t ELSE 0
<1> DEFINE p == CHOOSE p \in T : IsLeft(T, t, p)
           e == CHOOSE e \in T : IsSegmentEnd(T, p, e)
<1>1. p \in T /\ IsLeft(T, t, p) /\ p <= t
  BY SomeLeft, OneLeft DEF Bounded
<1>2. e \in T /\ IsSegmentEnd(T, p, e)
  <2> HIDE DEF p
  <2> QED
    BY <1>1, SomeSegmentEnd
<1>3. RemainingServiceTime(T, t) = IF e > t THEN e - t ELSE 0
  BY DEF RemainingServiceTime
<1> HIDE DEF p, e
<1> QED
  BY <1>1, <1>2, <1>3

LEMMA RestType ==
  ASSUME NEW T, Bounded(T), NEW t \in Int
  PROVE  RemainingServiceTime(T, t) \in Nat
<1>1. CASE ~Bracketed(T, t)
  BY <1>1 DEF RemainingServiceTime
<1>2. CASE Bracketed(T, t)
  <2>1. PICK p \in T, e \in T :
          RemainingServiceTime(T, t) = IF e > t THEN e - t ELSE 0
    BY <1>2, RestIs
  <2> QED
    BY <2>1 DEF Bounded
<1> QED
  BY <1>1, <1>2

-------------------------------------------------------------------------------
(* The time it returns and the passes.                                     *)
LEMMA OnePassEnd ==
  ASSUME NEW T, T \subseteq Nat, NEW t \in Int, NEW d, NEW e,
         PassEnds(T, t, d), PassEnds(T, t, e)
  PROVE  d = e
<1>1. ASSUME NEW x \in T, NEW y \in T, x < y, PassEnds(T, t, x),
             PassEnds(T, t, y)
      PROVE  FALSE
  <2>1. Gap(T, x) /\ t <= x
    BY <1>1 DEF PassEnds, PassContains
  <2>2. PICK p \in T : p <= t /\ SamePass(T, p, y)
    BY <1>1 DEF PassEnds, PassContains
  <2> QED
    BY <1>1, <2>1, <2>2 DEF SamePass
<1>2. d \in T /\ e \in T
  BY DEF PassEnds
<1> QED
  BY <1>1, <1>2

LEMMA NoPassUnbracketed ==
  ASSUME NEW T, T \subseteq Nat, NEW t \in Int, ~Bracketed(T, t)
  PROVE  ~InSomePass(T, t)
BY DEF Bracketed, InSomePass, PassContains, SamePass

LEMMA RestAtReappearance ==
  ASSUME NEW T, Bounded(T), NEW t \in Int, Bracketed(T, t), Reappears(T, t)
  PROVE  RemainingServiceTime(T, t) = 0
<1>1. PICK p \in T, e \in T :
        /\ IsLeft(T, t, p) /\ p <= t /\ IsSegmentEnd(T, p, e)
        /\ RemainingServiceTime(T, t) = IF e > t THEN e - t ELSE 0
  BY RestIs
<1>2. PICK g \in T : Gap(T, g) /\ g < t /\ \A q \in T : q <= g \/ t <= q
  BY DEF Reappears
<1>3. CASE \A q \in T : q <= t
  BY <1>1, <1>3 DEF Bounded
<1>4. CASE ~ \A q \in T : q <= t
  <2>1. p = g
    BY <1>1, <1>2, <1>4 DEF IsLeft, Bounded
  <2>2. ~(g < e)
    BY <1>1, <1>2, <2>1 DEF IsSegmentEnd, Bounded
  <2> QED
    BY <1>1, <1>2, <2>2 DEF Bounded
<1> QED
  BY <1>3, <1>4

LEMMA RestInPass ==
  ASSUME NEW T, Bounded(T), NEW t \in Int, Bracketed(T, t), ~Reappears(T, t)
  PROVE  /\ InSomePass(T, t)
         /\ PassEnds(T, t, t + RemainingServiceTime(T, t))
<1>1. PICK p \in T, e \in T :
        /\ IsLeft(T, t, p) /\ p <= t /\ IsSegmentEnd(T, p, e)
        /\ RemainingServiceTime(T, t) = IF e > t THEN e - t ELSE 0
  BY RestIs
<1>2. p \in Int /\ e \in Int
  BY <1>1 DEF Bounded
<1>3. t <= e
  <2> SUFFICES ASSUME e < t PROVE FALSE
    BY <1>2
  <2>1. e = p /\ p < t
    BY <1>1, <1>2 DEF IsLeft, IsSegmentEnd, Bounded
  <2>2. Gap(T, p)
    <3>1. PICK q \in T : t <= q
      BY DEF Bracketed
    <3>2. ~(q <= e)
      BY <1>2, <2>1, <3>1 DEF Bounded
    <3> QED
      BY <1>1, <2>1, <3>2 DEF IsSegmentEnd
  <2>3. \A q \in T : q <= p \/ t <= q
    BY <1>1, <2>1 DEF IsLeft, Bounded
  <2>4. PICK q \in T : ~(q <= p \/ t < q)
    BY <2>1, <2>2 DEF Bracketed
  <2>5. q = t
    BY <1>2, <2>3, <2>4 DEF Bounded
  <2> QED
    BY <2>1, <2>2, <2>3, <2>5 DEF Reappears
<1>4. PassContains(T, t, p, e)
  BY <1>1, <1>3 DEF PassContains, SamePass, IsSegmentEnd
<1>5. t + RemainingServiceTime(T, t) = e
  BY <1>1, <1>2, <1>3
<1> QED
  BY <1>1, <1>4, <1>5 DEF InSomePass, PassEnds, IsSegmentEnd

(* Rest(s) is what an operator of the strategy sees of satellite s now. *)
Rest(s) == RemainingServiceTime(Points[s], now)

LEMMA RestOfPass ==
  ASSUME NEW s \in Sats, now \in Int
  PROVE  /\ Rest(s) \in Nat
         /\ IF InSomePass(Points[s], now) /\ ~Reappears(Points[s], now)
            THEN PassEnds(Points[s], now, now + Rest(s))
            ELSE Rest(s) = 0
<1>1. Bounded(Points[s]) /\ Points[s] \subseteq Nat
  BY PointsAssumption DEF Bounded
<1>2. CASE ~Bracketed(Points[s], now)
  BY <1>1, <1>2, NoPassUnbracketed DEF Rest, RemainingServiceTime
<1>3. CASE Bracketed(Points[s], now) /\ Reappears(Points[s], now)
  BY <1>1, <1>3, RestAtReappearance DEF Rest
<1>4. CASE Bracketed(Points[s], now) /\ ~Reappears(Points[s], now)
  BY <1>1, <1>4, RestInPass, RestType DEF Rest
<1> QED
  BY <1>2, <1>3, <1>4

(* The other way round: the one end of a pass is what Rest says. *)
LEMMA PassIsRest ==
  ASSUME NEW s \in Sats, now \in Int, ~Reappears(Points[s], now),
         NEW e, PassEnds(Points[s], now, e)
  PROVE  e = now + Rest(s)
<1>1. InSomePass(Points[s], now)
  BY DEF PassEnds, InSomePass
<1>2. PassEnds(Points[s], now, now + Rest(s))
  BY <1>1, RestOfPass
<1> QED
  BY <1>2, OnePassEnd, PointsAssumption

LEMMA LongerRest ==
  ASSUME NEW s \in Sats, NEW n \in Sats, now \in Int, NEW d \in Nat,
         Rest(n) > Rest(s) + d
  PROVE  /\ now + Rest(n) \in Points[n]
         /\ PassEnds(Points[n], now, now + Rest(n))
         /\ ~Reappears(Points[n], now)
         /\ now + Rest(n) > now
         /\ \/ Reappears(Points[s], now)
            \/ \A p \in Points[s] :
                 PassEnds(Points[s], now, p) => now + Rest(n) > p + d
<1>1. Rest(n) \in Nat /\ Rest(s) \in Nat /\ Rest(n) > 0
  BY RestOfPass
<1>2. PassEnds(Points[n], now, now + Rest(n)) /\ ~Reappears(Points[n], now)
  BY <1>1, RestOfPass
<1>3. now + Rest(n) \in Points[n]
  BY <1>2 DEF PassEnds
<1>4. ASSUME ~Reappears(Points[s], now), NEW p \in Points[s],
             PassEnds(Points[s], now, p)
      PROVE  now + Rest(n) > p + d
  BY <1>1, <1>4, PassIsRest
<1> QED
  BY <1>1, <1>2, <1>3, <1>4

-------------------------------------------------------------------------------
(* GetSatelliteRemainingServiceTime returns the rest of the pass the       *)
(* satellite is in, whatever the trajectory and the gap threshold, with    *)
(* the one exception the property names.                                   *)
LEMMA ServingTimeStep == [HistoryNext /\ Leave]_svars => [HistoryNext]_hvars
BY DEF svars

LEMMA ServingTimeImplements == ServingTimeSpec => HistorySpec
<1>1. ServingTimeInit => HistoryInit
  BY DEF ServingTimeInit
<1> QED
  BY <1>1, ServingTimeStep, PTL DEF ServingTimeSpec, HistorySpec

THEOREM ServiceTimes == ServingTimeSpec => []ServiceTimeIsRestOfPass
<1>1. IInv => ServiceTimeIsRestOfPass
  BY RestOfPass DEF IInv, TypeOK, Time, ServiceTimeIsRestOfPass, Rest
<1> QED
  BY <1>1, ServingTimeImplements, HistoryImplements, InvariantHolds, PTL

-------------------------------------------------------------------------------
(* The operators that ChoProcedure leaves open are those of this strategy. *)
StrategyIsServingTime ==
  /\ ForcedReselect
  /\ \A v, V : Best(v, V) <=> ServingTimeBest(v, V)
  /\ \A s, n : Prepare(s, n) <=> ServingTimePrepare(s, n)
  /\ \A s, V : NtnAccepts(s, V) <=> ServingTimeNtnAccepts(s, V)
  /\ \A s, t : ExecuteNow(s, t) <=> ServingTimeExecuteNow(s, t)

(* A measurement report is about a neighbour that serves for longer, by    *)
(* ReportingOffset or, when the NTN trigger holds, by any time at all.     *)
LEMMA ReportedServesLonger ==
  ASSUME StrategyIsServingTime, ReportingOffset \in Nat, IInv, HistoryNext,
         NEW u \in UEs, proc[u].phase = "IDLE",
         proc'[u].phase = "MEAS_REPORT_UPLINK"
  PROVE  /\ serving[u] \in Sats /\ proc'[u].target \in Sats
         /\ Rest(proc'[u].target) > Rest(serving[u]) + 0
<1>1. CheckHandover(u) /\ TypeOK /\ Consistent(u)
  BY HistoryStep, TriggeredByCheck DEF HistoryNext, Next, IInv
<1>2. PICK n \in Cells : Reports(u, n) /\ ReportsTo(u, n) /\ n # NoCell
  BY <1>1, WaysOfMeasuring
     DEF Passes, Loses, Clears, Starts, Holds, Reports, StrategyIsServingTime
<1>3. n \in Sats /\ proc'[u].target = n
  BY <1>2 DEF Cells, ReportsTo
<1>4. serving[u] \in Sats /\ meas[u].serving = serving[u] /\ Triggered(u, n)
  BY <1>1, <1>2, DetectedCached
     DEF Reports, Continues, Ranks, Consistent, UeCells
<1>5. Rest(n) \in Nat /\ Rest(serving[u]) \in Nat
  BY <1>1, <1>3, <1>4, RestOfPass DEF TypeOK, Time
<1>6. Remaining(At(u, n)) = Rest(n) /\ Remaining(At(u, serving[u])) = Rest(serving[u])
  BY DEF Remaining, At, View, Rest
<1>7. \/ ServingTimeNtnAccepts(At(u, serving[u]), {At(u, n)})
      \/ ServingTimePrepare(At(u, serving[u]), At(u, n))
  BY <1>2, <1>4 DEF Triggered, StrategyIsServingTime
<1>8. Rest(n) > Rest(serving[u])
  BY <1>5, <1>6, <1>7 DEF ServingTimeNtnAccepts, ServingTimePrepare
<1> QED
  BY <1>3, <1>4, <1>5, <1>8

(* UE_EvaluateAndReport names a target whose pass ends after that of the   *)
(* serving satellite, whatever the cache holds of satellites between two   *)
(* passes.                                                                 *)
THEOREM ReportsOutlastServing ==
  ASSUME StrategyIsServingTime, ReportingOffset \in Nat
  PROVE  ServingTimeSpec => ReportOutlastsServing
<1>1. IInv /\ [HistoryNext /\ Leave]_svars =>
        [\A u \in UEs :
           proc[u].phase = "IDLE" /\ proc'[u].phase = "MEAS_REPORT_UPLINK" =>
             \E e \in Points[proc'[u].target] :
               /\ PassEnds(Points[proc'[u].target], now, e)
               /\ e > now
               /\ \/ Reappears(Points[serving[u]], now)
                  \/ \A p \in Points[serving[u]] :
                       PassEnds(Points[serving[u]], now, p) => p < e
        ]_svars
  <2> SUFFICES ASSUME IInv, HistoryNext, NEW u \in UEs,
                      proc[u].phase = "IDLE",
                      proc'[u].phase = "MEAS_REPORT_UPLINK"
               PROVE  \E e \in Points[proc'[u].target] :
                        /\ PassEnds(Points[proc'[u].target], now, e)
                        /\ e > now
                        /\ \/ Reappears(Points[serving[u]], now)
                           \/ \A p \in Points[serving[u]] :
                                PassEnds(Points[serving[u]], now, p) => p < e
    OBVIOUS
  <2> DEFINE n == proc'[u].target
             s == serving[u]
             e == now + Rest(n)
  <2>1. s \in Sats /\ n \in Sats /\ Rest(n) > Rest(s) + 0
    BY ReportedServesLonger
  <2>2. now \in Int
    BY DEF IInv, TypeOK, Time
  <2>3. /\ e \in Points[n] /\ PassEnds(Points[n], now, e) /\ e > now
        /\ \/ Reappears(Points[s], now)
           \/ \A p \in Points[s] : PassEnds(Points[s], now, p) => e > p + 0
    <3> HIDE DEF n, s
    <3> QED
      BY <2>1, <2>2, LongerRest
  <2>4. \A p \in Points[s] : e > p + 0 => p < e
    <3>1. \A p \in Points[s] : p \in Nat
      BY <2>1, PointsAssumption
    <3>2. e \in Int
      BY <2>1, <2>3, PointsAssumption
    <3> HIDE DEF e, s
    <3> QED
      BY <3>1, <3>2
  <2> QED
    BY <2>3, <2>4
<1> QED
  BY <1>1, ServingTimeImplements, HistoryImplements, InvariantHolds, PTL
     DEF ServingTimeSpec, ReportOutlastsServing

-------------------------------------------------------------------------------
(* What a UE completes is a handover to a satellite that serves for        *)
(* ChoExecutionOffset seconds more.                                        *)
LEMMA CompletedServesLonger ==
  ASSUME StrategyIsServingTime, ChoExecutionOffset \in Nat \ {0},
         IInv, Timely, HistoryNext, NEW u \in UEs, HandedOver(u)
  PROVE  /\ serving[u] \in Sats /\ serving'[u] \in Sats
         /\ ChoExecutionOffset - 1 \in Nat
         /\ Rest(serving'[u]) > Rest(serving[u]) + (ChoExecutionOffset - 1)
<1>1. TypeOK /\ Consistent(u) /\ OnTime(u)
  BY DEF IInv, Timely
<1>2. /\ proc[u].phase = "UE_EXECUTING" /\ serving'[u] # serving[u]
      /\ proc[u].source = serving[u]
  BY <1>1 DEF HandedOver, Consistent, UeCells
<1>3. conf[u].cells = {serving'[u]}
  BY <1>1, <1>2, HistoryStep, ServingStep
     DEF ServingChange, Consistent, UeCells, HistoryNext, Next
<1>4. serving'[u] = proc[u].target
  BY <1>1, <1>2, <1>3 DEF Consistent, UeConfig
<1>5. /\ serving[u] \in Sats /\ serving'[u] \in Sats
      /\ ServingTimeExecuteNow(At(u, serving[u]), At(u, serving'[u]))
  BY <1>1, <1>2, <1>4
     DEF OnTime, ConditionMet, BothMeasured, Measured, StrategyIsServingTime
<1>6. Rest(serving[u]) \in Nat /\ Rest(serving'[u]) \in Nat
  BY <1>1, <1>5, RestOfPass DEF TypeOK, Time
<1>7. /\ Remaining(At(u, serving[u])) = Rest(serving[u])
      /\ Remaining(At(u, serving'[u])) = Rest(serving'[u])
  BY DEF Remaining, At, View, Rest
<1>8. Rest(serving'[u]) - Rest(serving[u]) >= ChoExecutionOffset
  BY <1>5, <1>7 DEF ServingTimeExecuteNow
<1> QED
  BY <1>5, <1>6, <1>8

(* CHO_Phase7_ExecutionComplete puts a UE on a satellite whose pass ends   *)
(* at least choExecutionOffset seconds after that of the one it leaves,    *)
(* when the signalling fits between two checks.                            *)
THEOREM HandoversGainService ==
  ASSUME StrategyIsServingTime, ChoExecutionOffset \in Nat \ {0}, ~Overrun
  PROVE  ServingTimeSpec => HandoverGainsService
<1>1. IInv /\ Timely /\ [HistoryNext /\ Leave]_svars =>
        [\A u \in UEs : HandedOver(u) =>
           \E e \in Points[serving'[u]] :
             /\ PassEnds(Points[serving'[u]], now, e)
             /\ e - now >= ChoExecutionOffset
             /\ \/ Reappears(Points[serving[u]], now)
                \/ \A p \in Points[serving[u]] :
                     PassEnds(Points[serving[u]], now, p) =>
                       e - p >= ChoExecutionOffset
        ]_svars
  <2> SUFFICES ASSUME IInv, Timely, HistoryNext, NEW u \in UEs, HandedOver(u)
               PROVE  \E e \in Points[serving'[u]] :
                        /\ PassEnds(Points[serving'[u]], now, e)
                        /\ e - now >= ChoExecutionOffset
                        /\ \/ Reappears(Points[serving[u]], now)
                           \/ \A p \in Points[serving[u]] :
                                PassEnds(Points[serving[u]], now, p) =>
                                  e - p >= ChoExecutionOffset
    OBVIOUS
  <2> DEFINE n == serving'[u]
             s == serving[u]
             d == ChoExecutionOffset - 1
             e == now + Rest(n)
  <2>1. s \in Sats /\ n \in Sats /\ d \in Nat /\ Rest(n) > Rest(s) + d
    BY CompletedServesLonger
  <2>2. now \in Int
    BY DEF IInv, TypeOK, Time
  <2>3. /\ e \in Points[n] /\ PassEnds(Points[n], now, e)
        /\ \/ Reappears(Points[s], now)
           \/ \A p \in Points[s] : PassEnds(Points[s], now, p) => e > p + d
    <3> HIDE DEF n, s, d
    <3> QED
      BY <2>1, <2>2, LongerRest
  <2>4. e - now >= ChoExecutionOffset
    <3>1. Rest(n) \in Nat /\ Rest(s) \in Nat
      <4> HIDE DEF n, s
      <4> QED
        BY <2>1, <2>2, RestOfPass
    <3> QED
      BY <2>1, <2>2, <3>1
  <2>5. \A p \in Points[s] : e > p + d => e - p >= ChoExecutionOffset
    <3>1. \A p \in Points[s] : p \in Nat
      BY <2>1, PointsAssumption
    <3>2. e \in Int
      BY <2>1, <2>3, PointsAssumption
    <3> HIDE DEF e, s
    <3> QED
      BY <3>1, <3>2
  <2> QED
    BY <2>3, <2>4, <2>5
<1> QED
  BY <1>1, ServingTimeImplements, HistoryImplements, InvariantHolds,
     TimelyHolds, PTL DEF ServingTimeSpec, HandoverGainsService

-------------------------------------------------------------------------------
(* No ping-pong.                                                           *)

(* The passes u has left by a handover are over, or end before the pass of *)
(* its serving cell does.                                                  *)
Over(p, s, t) ==
  \/ p[2] < t
  \/ /\ ~Reappears(Points[s], t)
     /\ \E f \in Points[s] : PassEnds(Points[s], t, f) /\ p[2] < f

LeftBehind(u) ==
  /\ serving[u] = NoCell => left[u] = {}
  /\ \A p \in left[u] : p \in Sats \X Nat /\ Over(p, serving[u], now)

AllLeftBehind == \A u \in UEs : LeftBehind(u)

LEMMA PassGoesOn ==
  ASSUME NEW T, T \subseteq Nat, NEW t \in Int, NEW f, PassEnds(T, t, f)
  PROVE  \/ f < t + 1
         \/ PassEnds(T, t + 1, f) /\ ~Reappears(T, t + 1)
<1>1. PICK p \in T : PassContains(T, t, p, f)
  BY DEF PassEnds
<1>2. p \in Nat /\ f \in Nat
  BY <1>1 DEF PassEnds
<1>3. CASE t + 1 <= f
  <2>1. PassEnds(T, t + 1, f)
    BY <1>1, <1>2, <1>3 DEF PassEnds, PassContains
  <2>2. ASSUME NEW g \in T, Gap(T, g), g < t + 1,
               \A q \in T : q <= g \/ t + 1 <= q
        PROVE  FALSE
    BY <1>1, <1>2, <1>3, <2>2 DEF PassContains, SamePass
  <2> QED
    BY <2>1, <2>2 DEF Reappears
<1> QED
  BY <1>2, <1>3

LEMMA LeftBehindCheck ==
  ASSUME IInv, NEW u \in UEs, LeftBehind(u), BeginCheck, Leave
  PROVE  LeftBehind(u)'
<1>1. /\ now \in Int /\ now' = now + 1 /\ serving[u] \in Cells
      /\ serving[u] # NoCell => serving'[u] = serving[u]
      /\ proc[u].phase # "IDLE" => serving[u] # NoCell
  BY DEF IInv, TypeOK, Time, BeginCheck, Consistent, UeCells
<1>2. ~HandedOver(u)
  BY <1>1 DEF HandedOver
<1>3. left'[u] = IF serving'[u] = NoCell THEN {} ELSE left[u]
  BY <1>2 DEF Leave
<1>4. CASE serving[u] = NoCell
  BY <1>3, <1>4 DEF LeftBehind
<1>5. CASE serving[u] # NoCell
  <2>1. /\ left'[u] = left[u] /\ serving'[u] = serving[u]
        /\ serving[u] \in Sats
    BY <1>1, <1>3, <1>5 DEF Cells
  <2>2. ASSUME NEW p \in left[u] PROVE Over(p, serving[u], now + 1)
    <3>1. p[2] \in Nat /\ Over(p, serving[u], now)
      BY <2>2 DEF LeftBehind
    <3>2. CASE p[2] < now
      BY <1>1, <3>1, <3>2 DEF Over
    <3>3. CASE ~(p[2] < now)
      <4>1. PICK f \in Points[serving[u]] :
              PassEnds(Points[serving[u]], now, f) /\ p[2] < f
        BY <3>1, <3>3 DEF Over
      <4>2. f \in Nat
        BY <2>1, <4>1, PointsAssumption
      <4>3. \/ f < now + 1
            \/ /\ PassEnds(Points[serving[u]], now + 1, f)
               /\ ~Reappears(Points[serving[u]], now + 1)
        BY <1>1, <2>1, <4>1, PassGoesOn, PointsAssumption
      <4> QED
        BY <1>1, <3>1, <4>1, <4>2, <4>3 DEF Over
    <3> QED
      BY <3>2, <3>3
  <2> QED
    BY <1>1, <1>5, <2>1, <2>2 DEF LeftBehind
<1> QED
  BY <1>4, <1>5

LEMMA LeftBehindHandover ==
  ASSUME StrategyIsServingTime, ChoExecutionOffset \in Nat \ {0},
         IInv, Timely, HistoryNext, Leave, now' = now,
         NEW u \in UEs, LeftBehind(u), HandedOver(u)
  PROVE  LeftBehind(u)' /\ PassesAt(serving'[u], now) \cap left[u] = {}
<1> DEFINE n == serving'[u]
           s == serving[u]
           d == ChoExecutionOffset - 1
           e == now + Rest(n)
<1>1. s \in Sats /\ n \in Sats /\ d \in Nat /\ Rest(n) > Rest(s) + d
  BY CompletedServesLonger
<1>2. now \in Int
  BY DEF IInv, TypeOK, Time
<1> HIDE DEF n, s, d, e
<1>3. /\ e \in Points[n] /\ PassEnds(Points[n], now, e)
      /\ ~Reappears(Points[n], now) /\ e > now
      /\ \/ Reappears(Points[s], now)
         \/ \A p \in Points[s] : PassEnds(Points[s], now, p) => e > p + d
  BY <1>1, <1>2, LongerRest DEF e
<1>4. e \in Nat /\ n # NoCell /\ \A p \in Points[s] : p \in Nat
  BY <1>1, <1>3, PointsAssumption DEF Sats, NoCell
<1>5. ASSUME NEW p \in left[u] PROVE p \in Sats \X Nat /\ p[2] < e
  <2>1. p \in Sats \X Nat /\ Over(p, s, now)
    BY <1>5 DEF LeftBehind, s
  <2> QED
    BY <1>1, <1>2, <1>3, <1>4, <2>1 DEF Over
<1>6. ASSUME NEW p \in PassesAt(s, now), ~Reappears(Points[s], now)
      PROVE  p \in Sats \X Nat /\ p[2] < e
  <2>1. PICK q \in Points[s] : p = <<s, q>> /\ PassEnds(Points[s], now, q)
    BY <1>6 DEF PassesAt
  <2>2. e > q + d
    BY <1>3, <1>6, <2>1
  <2> QED
    BY <1>1, <1>4, <2>1, <2>2
<1>7. \A p \in left'[u] : p \in left[u] \/ /\ p \in PassesAt(s, now)
                                           /\ ~Reappears(Points[s], now)
  BY DEF Leave, s
<1>8. \A p : p[2] < e => Over(p, n, now)
  BY <1>3 DEF Over
<1>9. LeftBehind(u)'
  BY <1>4, <1>5, <1>6, <1>7, <1>8 DEF LeftBehind, n
<1>10. ASSUME NEW p \in PassesAt(n, now), p \in left[u] PROVE FALSE
  <2>1. PICK q \in Points[n] : p = <<n, q>> /\ PassEnds(Points[n], now, q)
    BY <1>10 DEF PassesAt
  <2>2. q = e
    BY <1>1, <1>2, <1>3, <2>1, OnePassEnd, PointsAssumption
  <2> QED
    BY <1>4, <1>5, <1>10, <2>1, <2>2
<1> QED
  BY <1>9, <1>10 DEF n

LEMMA LeftBehindNext ==
  ASSUME StrategyIsServingTime, ChoExecutionOffset \in Nat \ {0},
         IInv, Timely, AllLeftBehind, [HistoryNext /\ Leave]_svars
  PROVE  AllLeftBehind'
<1> SUFFICES ASSUME NEW u \in UEs PROVE LeftBehind(u)'
  BY DEF AllLeftBehind
<1>1. LeftBehind(u) /\ TypeOK
  BY DEF AllLeftBehind, IInv
<1>2. CASE UNCHANGED svars
  BY <1>1, <1>2 DEF svars, hvars, vars, LeftBehind, Over
<1>3. CASE BeginCheck /\ Leave
  BY <1>1, <1>3, LeftBehindCheck
<1>4. CASE HistoryNext /\ Leave /\ ~BeginCheck
  <2>1. now' = now
    BY <1>1, <1>4, CheckKeepsClock, SignalKeepsClock DEF HistoryNext
  <2>2. CASE HandedOver(u)
    BY <1>1, <1>4, <2>1, <2>2, LeftBehindHandover
  <2>3. CASE ~HandedOver(u)
    <3>1. left'[u] = IF serving'[u] = NoCell THEN {} ELSE left[u]
      BY <1>4, <2>3 DEF Leave
    <3>2. \/ serving'[u] = serving[u] \/ serving'[u] = NoCell
      <4>1. CASE proc[u].phase = "UE_EXECUTING"
        BY <2>3, <4>1 DEF HandedOver
      <4>2. CASE proc[u].phase # "UE_EXECUTING"
        <5> SUFFICES ASSUME serving'[u] # serving[u]
                     PROVE  serving'[u] = NoCell
          OBVIOUS
        <5>1. ServingChange(u)
          BY <1>4, ServingStep, HistoryStep DEF HistoryNext, Next
        <5>2. ~(turn = NumUes /\ turn' = 0)
          <6>1. ASSUME NEW w \in UEs, CheckHandover(w)
                PROVE  turn # NumUes
            BY <6>1, CheckKeepsClock, SizeAssumption DEF Visit, UEs
          <6>2. ASSUME NEW w \in UEs, NEW e \in Event, Signal(w, e)
                PROVE  turn' # 0
            BY <6>2, SignalKeepsClock, SizeAssumption
          <6> QED
            BY <1>4, <6>1, <6>2 DEF HistoryNext
        <5> QED
          BY <4>2, <5>1, <5>2 DEF ServingChange
      <4> QED
        BY <4>1, <4>2
    <3> QED
      BY <1>1, <2>1, <3>1, <3>2 DEF LeftBehind
  <2> QED
    BY <2>2, <2>3
<1> QED
  BY <1>2, <1>3, <1>4

(* A completed handover never leads back into a pass that the UE has left  *)
(* by a handover since it last selected a cell from scratch.               *)
THEOREM NeverBackIntoPass ==
  ASSUME StrategyIsServingTime, ChoExecutionOffset \in Nat \ {0}, ~Overrun
  PROVE  ServingTimeSpec => NoReturnWithinPass
<1>1. ServingTimeInit => AllLeftBehind
  BY DEF ServingTimeInit, AllLeftBehind, LeftBehind
<1>2. IInv /\ Timely /\ AllLeftBehind /\ [HistoryNext /\ Leave]_svars =>
        AllLeftBehind'
  BY LeftBehindNext
<1>3. IInv /\ Timely /\ AllLeftBehind /\ [HistoryNext /\ Leave]_svars =>
        [\A u \in UEs : HandedOver(u) =>
           PassesAt(serving'[u], now) \cap left[u] = {}]_svars
  <2> SUFFICES ASSUME IInv, Timely, AllLeftBehind, HistoryNext, Leave,
                      NEW u \in UEs, HandedOver(u)
               PROVE  PassesAt(serving'[u], now) \cap left[u] = {}
    OBVIOUS
  <2>1. ~BeginCheck
    BY DEF HandedOver, BeginCheck, IInv, Consistent, UeCells
  <2>2. now' = now
    BY <2>1, CheckKeepsClock, SignalKeepsClock DEF HistoryNext
  <2> QED
    BY <2>2, LeftBehindHandover DEF AllLeftBehind
<1> QED
  BY <1>1, <1>2, <1>3, ServingTimeImplements, HistoryImplements,
     InvariantHolds, TimelyHolds, PTL DEF ServingTimeSpec, NoReturnWithinPass

-------------------------------------------------------------------------------
(* The NTN trigger of this strategy.                                       *)

(* betterNeighborAvailable needs a neighbour, and the ranking by remaining *)
(* time and distance has one winner.                                       *)
LEMMA ServingTimeRanking ==
  ASSUME StrategyIsServingTime, \A m \in Metrics : m.distance \in Int
  PROVE  NtnNeedsNeighbour /\ UniqueBest
<1>1. NtnNeedsNeighbour
  BY DEF NtnNeedsNeighbour, StrategyIsServingTime, ServingTimeNtnAccepts
<1>2. ASSUME NEW V \in SUBSET Seen, NEW v \in V, NEW w \in V,
             Best(v, V), Best(w, V)
      PROVE  v.cell = w.cell
  <2> DEFINE R == {Ranked(x) : x \in V}
  <2>1. ServingTimeBest(v, V) /\ ServingTimeBest(w, V)
    BY <1>2 DEF StrategyIsServingTime
  <2>2. /\ Ranked(v) \in R /\ Ranked(w) \in R
        /\ FirstBest(Ranked(v), R, ServingTimeBeats(R))
        /\ FirstBest(Ranked(w), R, ServingTimeBeats(R))
    BY <2>1 DEF ServingTimeBest
  <2>3. ASSUME NEW x \in V
        PROVE  /\ Ranked(x).cell = x.cell /\ Ranked(x).cell \in Int
               /\ Ranked(x).rest \in Int /\ Ranked(x).distance \in Int
    <3>1. x.cell \in Sats /\ x.time \in Int /\ x.m \in Metrics
      BY <2>3 DEF Seen, Time
    <3>2. Remaining(x) \in Nat
      BY <3>1, RestType, PointsAssumption DEF Remaining, Bounded
    <3> QED
      BY <3>1, <3>2 DEF Ranked, Sats
  <2>4. ~(/\ <<Ranked(v), Ranked(w)>> \in ServingTimeBeats(R)
          /\ <<Ranked(w), Ranked(v)>> \in ServingTimeBeats(R))
    <3> HIDE DEF R
    <3> QED
      BY <2>3 DEF ServingTimeBeats
  <2> HIDE DEF R
  <2> QED
    BY <2>2, <2>3, <2>4, FirstBestUnique
<1> QED
  BY <1>1, <1>2 DEF UniqueBest

(* A UE on a satellite about to set reports after TimeToTrigger seconds of *)
(* neighbours that serve longer, whichever is the best at each check.      *)
THEOREM ServingTimeReportsInTime ==
  ASSUME StrategyIsServingTime, \A m \in Metrics : m.distance \in Int
  PROVE  ServingTimeSpec => []CriticalReportInTime
<1>1. HistorySpec => []CriticalReportInTime
  BY ServingTimeRanking, CriticalReportsInTime
<1> QED
  BY <1>1, ServingTimeImplements, PTL
===============================================================================
