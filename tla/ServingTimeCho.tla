----------------------------- MODULE ServingTimeCho ----------------------------
(***************************************************************************)
(* The serving-time strategy of serving-time-CHO-Multi.cc: the operators   *)
(* ChoProcedure leaves open.  It drops an undetectable serving cell        *)
(* (ForcedReselect = TRUE), ranks cells by the time they will still serve, *)
(* and is the one strategy whose NTN trigger can fire.  Only points of the *)
(* trajectory no more than GapThreshold apart belong to one pass, and the  *)
(* cache is refreshed during passes only.                                  *)
(***************************************************************************)
EXTENDS ChoHistory, Trajectory

CONSTANTS
  Points,               \* the trajectory of each satellite
  ReportingOffset,      \* g_reportingOffset, in seconds
  ChoExecutionOffset,   \* g_choExecutionOffset, in seconds
  MinServingTime,       \* g_minServingTime
  MaxDistance,          \* g_maxDistance
  MinSnr,               \* g_minSNR
  MinViableSinr,        \* g_choNtnConfig.minViableSinr
  MaxViableDistance     \* g_choNtnConfig.maxViableDistance

(* LoadTrajectory keeps the points in order, one for each line of a file   *)
(* that is not empty.                                                      *)
ASSUME PointsAssumption ==
  \A s \in Sats : /\ Points[s] \subseteq Nat
                  /\ \E p \in Points[s] : \A q \in Points[s] : q <= p

FirstPoint == [s \in Sats |-> Front(Points[s])]
LastPoint  == [s \in Sats |-> Back(Points[s])]

Remaining(v) == RemainingServiceTime(Points[v.cell], v.time)

ServingTimeInPass(s, t) == Bracketed(Points[s], t)

ServingTimeDetectable(m) == m.snr >= MinSnr

ServingTimeSelectable(m) == m.distance <= MaxDistance /\ m.snr >= MinSnr

(* The longest service, then the closest satellite.                        *)
Ranked(v) == [cell |-> v.cell, rest |-> Remaining(v), distance |-> v.m.distance]

ServingTimeBeats(R) ==
  {p \in R \X R : \/ p[1].rest > p[2].rest
                  \/ /\ p[1].rest = p[2].rest
                     /\ p[1].distance < p[2].distance}

ServingTimeBest(v, V) ==
  LET R == {Ranked(w) : w \in V}
  IN  FirstBest(Ranked(v), R, ServingTimeBeats(R))

ServingTimePrepare(s, n) == /\ n.m.snr >= MinSnr
                            /\ Remaining(n) > Remaining(s) + ReportingOffset

ServingTimeNtnTrigger(s) == Remaining(s) <= MinServingTime

\* Mutant: any neighbour will do once the serving cell is about to set.
AcceptsAnyNeighbour(s, V) == V # {}

(* betterNeighborAvailable *)
ServingTimeNtnAccepts(s, V) == \E n \in V : Remaining(n) > Remaining(s)

\* Mutant: the gain in service time is not asked for.
ExecuteWithoutGain(s, t) ==
  /\ Remaining(s) <= MinServingTime
  /\ t.m.distance < MaxDistance
  /\ t.m.snr >= MinSnr
  /\ t.m.elevation >= 0

ServingTimeExecuteNow(s, t) ==
  /\ Remaining(s) <= MinServingTime
  /\ Remaining(t) - Remaining(s) >= ChoExecutionOffset
  /\ t.m.distance < MaxDistance
  /\ t.m.snr >= MinSnr
  /\ t.m.elevation >= 0

ServingTimeViable(m) == /\ m.snr >= MinViableSinr
                        /\ m.distance <= MaxViableDistance
                        /\ m.elevation >= 0

-------------------------------------------------------------------------------
(* The passes each UE has left by a handover since it last selected a cell *)
(* from scratch, each as the satellite and the end of the pass.            *)
VARIABLE left

svars == <<hvars, left>>

HandedOver(u) == proc[u].phase = "UE_EXECUTING" /\ serving'[u] # serving[u]

PassesAt(s, t) ==
  {<<s, e>> : e \in {p \in Points[s] : PassEnds(Points[s], t, p)}}

Leave ==
  left' = [u \in UEs |->
             IF serving'[u] = NoCell THEN {}
             ELSE IF HandedOver(u) /\ ~Reappears(Points[serving[u]], now)
                  THEN left[u] \cup PassesAt(serving[u], now)
                  ELSE left[u]]

ServingTimeInit == HistoryInit /\ left = [u \in UEs |-> {}]

ServingTimeSpec == ServingTimeInit /\ [][HistoryNext /\ Leave]_svars

(* What GetSatelliteRemainingServiceTime returns is the rest of the pass   *)
(* the satellite is in, and 0 between its passes.  In the first second of  *)
(* a later pass it is 0 too: the bracket found for that second is still    *)
(* the gap before it, whose left end lies in the past.                     *)
ServiceTimeIsRestOfPass ==
  \A s \in Sats :
    LET T == Points[s]
        rest == RemainingServiceTime(T, now)
    IN  IF InSomePass(T, now) /\ ~Reappears(T, now)
        THEN PassEnds(T, now, now + rest)
        ELSE rest = 0

(* A measurement report names a target only while that satellite is in a   *)
(* pass, which ends after the pass of the serving cell: cached metrics of  *)
(* a satellite between two passes still count as a measurement, but can    *)
(* never make it the candidate.                                            *)
ReportOutlastsServing ==
  [][\A u \in UEs :
       proc[u].phase = "IDLE" /\ proc'[u].phase = "MEAS_REPORT_UPLINK" =>
         \E e \in Points[proc'[u].target] :
           /\ PassEnds(Points[proc'[u].target], now, e)
           /\ e > now
           /\ \/ Reappears(Points[serving[u]], now)
              \/ \A p \in Points[serving[u]] :
                   PassEnds(Points[serving[u]], now, p) => p < e
    ]_svars

(* A completed handover gains at least choExecutionOffset seconds of       *)
(* service by the passes of the second in which it completes, although the *)
(* gain was computed by an earlier check; a serving satellite in the first *)
(* second of its pass is the exception, its remaining time was taken as 0. *)
HandoverGainsService ==
  [][\A u \in UEs : HandedOver(u) =>
       \E e \in Points[serving'[u]] :
         /\ PassEnds(Points[serving'[u]], now, e)
         /\ e - now >= ChoExecutionOffset
         /\ \/ Reappears(Points[serving[u]], now)
            \/ \A p \in Points[serving[u]] :
                 PassEnds(Points[serving[u]], now, p) =>
                   e - p >= ChoExecutionOffset
    ]_svars

(* No ping-pong: a handover never leads back to a satellite in the same    *)
(* pass during which the UE left it by a handover, unless it has lost its  *)
(* cell and selected a new one in between.                                 *)
NoReturnWithinPass ==
  [][\A u \in UEs : HandedOver(u) =>
       PassesAt(serving'[u], now) \cap left[u] = {}]_svars
===============================================================================
